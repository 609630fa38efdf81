----------------------------- MODULE MCProgram -----------------------------
(***************************************************************************)
(* Program with every subcommand; it has no constants.                     *)
(***************************************************************************)
EXTENDS Program
=============================================================================
