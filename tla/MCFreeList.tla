----------------------------- MODULE MCFreeList -----------------------------
(***************************************************************************)
(* Small memories for FreeList: ten frames of four bytes, a kernel that    *)
(* ends in the middle of page 1.                                           *)
(***************************************************************************)
EXTENDS FreeList

Ram(base, length)      == [type |-> 1, base_addr |-> base, length |-> length]
Reserved(base, length) == [type |-> 2, base_addr |-> base, length |-> length]

\* A chunk at address 0, which memory_detect leaves out; one the kernel
\* image reaches into (page 2 is left of it); a reserved one; an unaligned
\* one (pages 4 and 5); one right behind it (page 6).
MCMemoryMap ==
  <<Ram(0, 4), Ram(4, 8), Reserved(12, 2), Ram(14, 10), Ram(24, 6)>>

MCAllMapped == 1 .. 9

\* What a page may hold when it is handed out, or given back.
MCScribbles == {[num_pages |-> 3, next |-> 2]}

\* A machine with memory above 4 GiB: low memory in pages 2 and 3, a hole,
\* and a chunk whose address needs the upper half of base_addr.
MCHighMemoryMap == <<Ram(4, 12), Reserved(16, 20), Ram(AddressSpace, 20)>>

\* The two maps differ in what the theorems assume of a map.
ASSUME MCWellFormedMap == WellFormedMap \/ MemoryMap = MCHighMemoryMap
=============================================================================
