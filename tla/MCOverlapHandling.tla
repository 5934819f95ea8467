------------------------- MODULE MCOverlapHandling -------------------------
(***************************************************************************)
(* Recordings of every length around one, two and three windows; a region   *)
(* may touch either end of its recording.                                   *)
(***************************************************************************)
EXTENDS OverlapHandling

SomeRecordings == {[start_ms |-> 0, end_ms |-> n] : n \in 4 .. 9}
=============================================================================
