--------------------------- MODULE MCStreamSession ---------------------------
(* The connections of the client are opened in any order: they are            *)
(* interchangeable where no liveness property is checked.                     *)
EXTENDS StreamSession, TLC

Symmetry == Permutations(Sockets)
=============================================================================
