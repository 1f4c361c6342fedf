----------------------------- MODULE MCWindows -----------------------------
(***************************************************************************)
(* A small machine for Windows: ten frames of eight bytes, a kernel image  *)
(* that ends in page 1, a page table of six entries.  Entries 2 and 3      *)
(* become the windows, 4 and 5 can be given out.                           *)
(***************************************************************************)
EXTENDS Windows

Ram(base, length)      == [type |-> 1, base_addr |-> base, length |-> length]
Reserved(base, length) == [type |-> 2, base_addr |-> base, length |-> length]

\* Four blocks: pages 2 to 4, 6, 7 and 8; page 9 is never whole.
MCMemoryMap ==
  <<Ram(8, 32), Reserved(40, 1), Ram(41, 15), Ram(56, 8), Ram(64, 15)>>

MCScribbles == {[num_pages |-> 3, next |-> 1], [num_pages |-> 1, next |-> 6]}

MCRequests == {0, 5}
=============================================================================
