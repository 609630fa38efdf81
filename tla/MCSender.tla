------------------------------ MODULE MCSender ------------------------------
(***************************************************************************)
(* Sender on a small instance: frames of two units, fragments shorter and  *)
(* longer than a frame.                                                    *)
(***************************************************************************)
EXTENDS Sender
=============================================================================
