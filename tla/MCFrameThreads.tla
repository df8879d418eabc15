-------------------------- MODULE MCFrameThreads ---------------------------
(***************************************************************************)
(* A small instance of FrameThreads: two threads, each of which comes      *)
(* round again, every kind of codec with each of the four kinds of hwaccel *)
(* (none, neither thread-safe nor async-safe, async-safe only, both), and  *)
(* one flush, error, failed allocation, submission or copy anywhere in it. *)
(***************************************************************************)
EXTENDS FrameThreads
=============================================================================
