----------------------------- MODULE MCPlayback -----------------------------
(***************************************************************************)
(* Playback on a small instance.  A queue of two frames overflows after    *)
(* three arrivals; buffers of four units and frames of three make a frame  *)
(* straddle two buffers; writes of more than two units may be partial.     *)
(***************************************************************************)
EXTENDS Playback
=============================================================================
