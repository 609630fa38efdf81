------------------------------- MODULE MCLink -------------------------------
(***************************************************************************)
(* Link on a small instance: fragments that are too short, of 20 ms and    *)
(* too long, a queue that overflows at the second frame, and writes that   *)
(* straddle frames.                                                        *)
(***************************************************************************)
EXTENDS Link
=============================================================================
