---------------------------- MODULE MCScheduler ----------------------------
(***************************************************************************)
(* A small instance of Scheduler: queues of one item, a few packets of     *)
(* both streams, and one incident of any kind at any time.                 *)
(***************************************************************************)
EXTENDS Scheduler
=============================================================================
