------------------------------ MODULE Timeline -------------------------------
(***************************************************************************)
(* Interval arithmetic of domain/audio.py and application/                  *)
(* offline_pipeline.py.  Time is counted in units; the unit t is the half-  *)
(* open interval [t, t+1).  A list of intervals stands for the units it     *)
(* covers, and merging, subtracting and clamping are what they do to them.  *)
(***************************************************************************)
EXTENDS Integers, FiniteSets

Lesser(a, b) == IF a <= b THEN a ELSE b
Greater(a, b) == IF a >= b THEN a ELSE b

Interval(start, end) == [start_ms |-> start, end_ms |-> end]
Duration(i) == i.end_ms - i.start_ms
Units(i) == i.start_ms .. i.end_ms - 1
AllUnits(intervals) == UNION {Units(i) : i \in intervals}

(* The intervals a set of units consists of.                                 *)
Runs(units) ==
    {Interval(t, CHOOSE end \in t + 1 .. t + Cardinality(units) :
                    end \notin units /\ t .. end - 1 \subseteq units) :
        t \in {t \in units : t - 1 \notin units}}

(* merge_intervals: gaps of at most merge_gap_ms are closed.                 *)
MergeIntervals(intervals, gap) ==
    LET units == AllUnits(intervals)
    IN  Runs(UNION {p[1] .. p[2] : p \in {p \in units \X units : p[2] - p[1] <= gap + 1}})

(* Mutant: the last unit of a hole is kept.                                  *)
SubtractShort(intervals, holes) ==
    Runs(AllUnits(intervals) \ UNION {h.start_ms .. h.end_ms - 2 : h \in holes})

(* _subtract.                                                                *)
Subtract(intervals, holes) == Runs(AllUnits(intervals) \ AllUnits(holes))

(* TimeInterval.intersection_ms, .intersects and .clamp, which may be None.  *)
Intersection(i, j) ==
    Greater(0, Lesser(i.end_ms, j.end_ms) - Greater(i.start_ms, j.start_ms))
Intersects(i, j) == i.start_ms < j.end_ms /\ j.start_ms < i.end_ms
Clamp(i, bounds) ==
    LET start == Greater(i.start_ms, bounds.start_ms)
        end   == Lesser(i.end_ms, bounds.end_ms)
    IN  IF end <= start THEN {} ELSE {Interval(start, end)}
=============================================================================
