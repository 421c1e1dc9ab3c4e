-------------------------- MODULE MCRakReliability --------------------------
(***************************************************************************)
(* RakReliability on small instances.                                      *)
(***************************************************************************)
EXTENDS RakReliability, TLC

Symmetry == Permutations(Data)
=============================================================================
