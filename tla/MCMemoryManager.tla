--------------------------- MODULE MCMemoryManager ---------------------------
(***************************************************************************)
(* A small instance of MemoryManager: four entries, so that an entry can   *)
(* be acknowledged, followed by one whose save fails, by a clear and by a  *)
(* restart, with any number of crashes and errors in between.              *)
(***************************************************************************)
EXTENDS MemoryManager
=============================================================================
