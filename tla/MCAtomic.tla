----------------------------- MODULE MCAtomic ------------------------------
(***************************************************************************)
(* Three processors and a word of three values, which rolls over.          *)
(***************************************************************************)
EXTENDS Atomic
=============================================================================
