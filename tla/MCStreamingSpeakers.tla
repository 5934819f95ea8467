------------------------- MODULE MCStreamingSpeakers --------------------------
(* Clusters are interchangeable: nothing in the code orders them, so TLC may  *)
(* treat them as symmetric.                                                  *)
EXTENDS StreamingSpeakers, TLC

Symmetry == Permutations(Clusters)
=============================================================================
