-------------------------- MODULE MCScreenRecorder --------------------------
(***************************************************************************)
(* A small instance of ScreenRecorder: three sessions, the join timeout of *)
(* the code, and enough seconds for one join to time out and for sessions  *)
(* to begin in the same second and in different ones.                      *)
(***************************************************************************)
EXTENDS ScreenRecorder
=============================================================================
