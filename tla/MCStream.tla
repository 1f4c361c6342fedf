------------------------------ MODULE MCStream ------------------------------
(***************************************************************************)
(* Strings and formats in a memory of five bytes; every string of up to    *)
(* four characters is a format.                                            *)
(***************************************************************************)
EXTENDS Stream

MCNil == <<200, 201, 202>>

\* NULL, an address, and a number that is none.
MCArguments == {-1, 1, 7}
=============================================================================
