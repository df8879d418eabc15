--------------------------- MODULE MCWakeListener ---------------------------
(***************************************************************************)
(* A small instance of WakeListener: three runs, so that one can be cut    *)
(* off while it creates the file, the next meet what is left of it, and    *)
(* two launch; a queue of three, so that a wake phrase has speech before   *)
(* and behind it.                                                          *)
(***************************************************************************)
EXTENDS WakeListener
=============================================================================
