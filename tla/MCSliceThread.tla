--------------------------- MODULE MCSliceThread ---------------------------
(***************************************************************************)
(* A small instance of SliceThread: pools of one to four threads, with    *)
(* and without a main function, calls with fewer jobs than threads, as     *)
(* many and more, and a second call while workers of the first come back.  *)
(***************************************************************************)
EXTENDS SliceThread
=============================================================================
