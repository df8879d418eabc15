--------------------------- MODULE MCScreenMonitor ---------------------------
(***************************************************************************)
(* A small instance of ScreenMonitor: four calls of start() that get past  *)
(* the flag and four stops, so that a loop can sleep through more than one *)
(* stop and meet loops both older and younger than itself.                 *)
(***************************************************************************)
EXTENDS ScreenMonitor
=============================================================================
