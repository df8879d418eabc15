----------------------------- MODULE MCSimianGui -----------------------------
(***************************************************************************)
(* A small instance of SimianGui: two recording sessions, so that a stop   *)
(* and a second start race with the first recorder's end and with an old   *)
(* tick chain, and enough seconds for a join to time out.                  *)
(***************************************************************************)
EXTENDS SimianGui
=============================================================================
