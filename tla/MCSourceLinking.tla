--------------------------- MODULE MCSourceLinking ---------------------------
(* Scores below, at and well above the threshold; two of them are as far      *)
(* apart as the margin, and the bonus is less than half of it.               *)
EXTENDS SourceLinking

SomeScores == {-1, 2, 5}
MinusInfinity == -99
=============================================================================
