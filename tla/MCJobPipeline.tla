---------------------------- MODULE MCJobPipeline ----------------------------
(* Jobs and workers are interchangeable; the run that checks no liveness      *)
(* property lets TLC treat them as symmetric.  A shortened stage list keeps    *)
(* the optional stage and one on either side of it.                           *)
EXTENDS JobPipeline, TLC

CONSTANTS w1, w2

MCWorkers == {w1, w2}
MCFaulty == {w1, w2, "api"}
MCStages == <<"PREPROCESSING", "SEPARATING", "FUSING">>

Symmetry == Permutations(Jobs) \union Permutations(Workers)
=============================================================================
