--------------------------- MODULE MCVirtualSource ---------------------------
(***************************************************************************)
(* VirtualSource on small instances: two programs and one module of other  *)
(* software.  ShutdownEnds is a liveness property, so there is no          *)
(* symmetry.                                                               *)
(***************************************************************************)
EXTENDS VirtualSource
=============================================================================
