------------------------------ MODULE MCClient ------------------------------
(***************************************************************************)
(* Client on a small instance: two attempts make one backoff, a queue of   *)
(* two frames can fill, overflow and empty behind the callback's back.     *)
(***************************************************************************)
EXTENDS Client
=============================================================================
