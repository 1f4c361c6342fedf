---------------------------- MODULE MCScheduler ----------------------------
(***************************************************************************)
(* A small instance of Scheduler: the pages are model values.  They are not*)
(* declared symmetric, because the run also checks liveness.               *)
(***************************************************************************)
EXTENDS Scheduler
=============================================================================
