--------------------------- MODULE MCRollingWindow ---------------------------
(* Either speaker alone, both at once, speech no turn covers, and silence.   *)
EXTENDS RollingWindow, TLC

TwoSpeakers == {1, 2}
SomeSounds == {Silence, {1}, {2}, {1, 2}, {}}
Symmetry == Permutations(Languages)
=============================================================================
