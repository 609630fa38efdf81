----------------------------- MODULE MCKeyStore -----------------------------
(***************************************************************************)
(* KeyStore on small instances: three processes and three key pairs.       *)
(***************************************************************************)
EXTENDS KeyStore, TLC

Symmetry == Permutations(Proc)
=============================================================================
