----------------------------- MODULE MCKernel ------------------------------
(***************************************************************************)
(* A screen of three rows and two columns, pages of eight bytes, a page    *)
(* table of five entries, and half words of four bits: the stubs isr0 to   *)
(* isr31 lie on both sides of a half word's boundary.                      *)
(***************************************************************************)
EXTENDS Kernel

MCMessages == {<<"a">>, <<"a", "a">>}

\* The image ends one, three and four bytes into page 2, and at the end
\* of pages 2 and 4: the last leaves no entry for memory_detect.
MCKernelEnds == {17, 19, 20, 24, 40}

MCVectors == {2, 8, 16}
=============================================================================
