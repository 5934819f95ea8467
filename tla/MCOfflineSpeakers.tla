-------------------------- MODULE MCOfflineSpeakers --------------------------
(* Clusters are interchangeable: nothing in the code orders them, so TLC may  *)
(* treat them as symmetric.                                                  *)
EXTENDS OfflineSpeakers, TLC

Symmetry == Permutations(Clusters)
=============================================================================
