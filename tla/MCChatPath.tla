----------------------------- MODULE MCChatPath -----------------------------
(***************************************************************************)
(* A small instance of ChatPath: three messages, so that the third can be  *)
(* sent while the API still works on two the client gave up; a timeout of  *)
(* two units, so that the clocks of client and API can be apart.           *)
(***************************************************************************)
EXTENDS ChatPath
=============================================================================
