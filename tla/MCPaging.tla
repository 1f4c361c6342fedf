------------------------------ MODULE MCPaging ------------------------------
(***************************************************************************)
(* Every free list in twelve frames, four page tables of three entries.    *)
(***************************************************************************)
EXTENDS Paging

MCMemoryMap == <<>>

MCScribbles == {[num_pages |-> 3, next |-> 1]}
=============================================================================
