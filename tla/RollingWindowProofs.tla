------------------------- MODULE RollingWindowProofs -------------------------
(***************************************************************************)
(* Proofs about the rolling windows and the final pass of a session, for    *)
(* every audio, hop, window, ring buffer, silence and number of speakers.   *)
(* The first part is about the operators of Timeline and Fusion, the second *)
(* about a pass, the third about the session.                               *)
(***************************************************************************)
EXTENDS RollingWindow, FiniteSetTheorems, SequenceTheorems, NaturalsInduction,
        WellFoundedInduction, TLAPS

-----------------------------------------------------------------------------
(* Numbers and recursion *)

(* A nonempty set of natural numbers has a least element.                    *)
LEMMA LeastNumber ==
    ASSUME NEW S, S \subseteq Nat, S # {}
    PROVE  \E n \in S : \A k \in S : n <= k
<1> DEFINE less == {p \in Nat \X Nat : p[1] < p[2]}
<1>1. IsWellFoundedOn(less, Nat)
  BY NatLessThanWellFounded DEF OpToRel
<1>2. \A k, n \in Nat : <<k, n>> \in less <=> k < n
  OBVIOUS
<1> HIDE DEF less
<1>3. \E n \in S : \A k \in S : ~ (<<k, n>> \in less)
  BY <1>1, WFMin, Zenon
<1>4. \A k, n \in Nat : ~ (<<k, n>> \in less) => n <= k
  BY <1>2
<1>5. QED
  BY <1>3, <1>4, Zenon

(* f is computed entry after entry, each from the ones before.               *)
Computes(f, N, V, G) ==
    /\ f \in [1 .. N -> V]
    /\ \A n \in 1 .. N : f[n] = G[<<n, [m \in 1 .. n - 1 |-> f[m]]>>]

(* What is computed from the entries before it exists.                       *)
LEMMA RecursionExists ==
    ASSUME NEW N \in Nat, NEW V, NEW G,
           \A n \in 1 .. N : \A h \in [1 .. n - 1 -> V] : G[<<n, h>>] \in V
    PROVE  \E f : Computes(f, N, V, G)
<1> DEFINE Missing == {k \in 0 .. N : ~ \E f : Computes(f, k, V, G)}
<1>1. SUFFICES ASSUME Missing # {} PROVE FALSE
  <2>1. N \in 0 .. N
    OBVIOUS
  <2>2. QED
    BY <2>1
<1>2. PICK k \in Missing : \A j \in Missing : k <= j
  <2>1. Missing \subseteq Nat
    OBVIOUS
  <2> HIDE DEF Missing
  <2>2. QED
    BY <1>1, <2>1, LeastNumber
<1>3. k \in 0 .. N /\ ~ \E f : Computes(f, k, V, G)
  BY <1>2
<1>4. CASE k = 0
  <2>1. Computes([n \in 1 .. 0 |-> n], 0, V, G)
    BY DEF Computes
  <2>2. QED
    BY <1>3, <1>4, <2>1
<1>5. CASE k # 0
  <2>1. k - 1 \in 0 .. N /\ k \in 1 .. N /\ k - 1 \notin Missing
    BY <1>2, <1>3, <1>5
  <2>2. PICK f : Computes(f, k - 1, V, G)
    BY <2>1
  <2>3. f \in [1 .. k - 1 -> V] /\ G[<<k, f>>] \in V
    BY <2>1, <2>2 DEF Computes
  <2> DEFINE g == [n \in 1 .. k |-> IF n = k THEN G[<<k, f>>] ELSE f[n]]
  <2>4. g \in [1 .. k -> V]
    BY <2>1, <2>3
  <2>5. \A n \in 1 .. k : [m \in 1 .. n - 1 |-> g[m]] = [m \in 1 .. n - 1 |-> f[m]]
    BY <2>1
  <2>6. [m \in 1 .. k - 1 |-> f[m]] = f
    BY <2>3
  <2>7. \A n \in 1 .. k : g[n] = G[<<n, [m \in 1 .. n - 1 |-> f[m]]>>]
    <3>1. TAKE n \in 1 .. k
    <3>2. CASE n = k
      BY <2>1, <2>6, <3>2
    <3>3. CASE n # k
      <4>1. n \in 1 .. k - 1 /\ g[n] = f[n]
        BY <2>1, <3>3
      <4>2. QED
        BY <2>2, <4>1 DEF Computes
    <3>4. QED
      BY <3>2, <3>3
  <2> HIDE DEF g
  <2>8. Computes(g, k, V, G)
    BY <2>4, <2>5, <2>7 DEF Computes
  <2>9. QED
    BY <1>3, <2>8
<1>6. QED
  BY <1>4, <1>5

-----------------------------------------------------------------------------
(* Intervals *)

(* The values of a TimeInterval.                                             *)
AnInterval == [start_ms : Nat, end_ms : Nat]

(* i is a longest interval of the units U.                                   *)
IsRun(i, U) ==
    /\ i \in AnInterval
    /\ i.start_ms < i.end_ms
    /\ Units(i) \subseteq U
    /\ i.start_ms - 1 \notin U
    /\ i.end_ms \notin U

(* The end of the run that starts at t is where Runs looks for it.           *)
LEMMA RunEnds ==
    ASSUME NEW U, U \subseteq Nat, IsFiniteSet(U), NEW t \in U
    PROVE  \E end \in t + 1 .. t + Cardinality(U) :
              end \notin U /\ t .. end - 1 \subseteq U
<1> DEFINE C == Cardinality(U)
           Ends == {e \in Nat : e > t /\ e \notin U}
<1>1. C \in Nat
  BY FS_CardinalityType
<1>2. Ends # {}
  <2>1. SUFFICES ASSUME t .. t + C \subseteq U PROVE FALSE
    <3>1. \A e \in t .. t + C : e = t \/ e \in U \/ e \in Ends
      BY <1>1
    <3>2. QED
      BY <3>1
  <2>2. Cardinality(t .. t + C) = C + 1
    BY <1>1, FS_Interval
  <2>3. Cardinality(t .. t + C) <= C
    BY <2>1, FS_Subset
  <2>4. QED
    BY <1>1, <2>2, <2>3
<1>3. PICK end \in Ends : \A e \in Ends : end <= e
  <2>1. Ends \subseteq Nat
    OBVIOUS
  <2> HIDE DEF Ends
  <2>2. QED
    BY <1>2, <2>1, LeastNumber
<1>4. end \in Nat /\ end > t /\ end \notin U
  BY <1>3
<1>5. t .. end - 1 \subseteq U
  <2>1. SUFFICES ASSUME NEW e \in t .. end - 1, e \notin U PROVE FALSE
    OBVIOUS
  <2>2. e \in Ends
    BY <1>4, <2>1
  <2>3. QED
    BY <1>3, <1>4, <2>1, <2>2
<1>6. end - t <= C
  <2>1. Cardinality(t .. end - 1) = end - t
    BY <1>4, FS_Interval
  <2>2. Cardinality(t .. end - 1) <= C
    BY <1>5, FS_Subset
  <2>3. QED
    BY <2>1, <2>2
<1>7. QED
  BY <1>1, <1>4, <1>5, <1>6

(* Two runs with a unit in common are one.                                   *)
LEMMA RunsMeet ==
    ASSUME NEW U, NEW i, NEW j, IsRun(i, U), IsRun(j, U),
           NEW t, t \in Units(i), t \in Units(j)
    PROVE  i = j
<1>1. /\ i \in AnInterval /\ j \in AnInterval
      /\ Units(i) \subseteq U /\ Units(j) \subseteq U
      /\ i.start_ms - 1 \notin U /\ j.start_ms - 1 \notin U
      /\ i.end_ms \notin U /\ j.end_ms \notin U
  BY DEF IsRun
<1>2. /\ i.start_ms \in Nat /\ i.end_ms \in Nat /\ j.start_ms \in Nat /\ j.end_ms \in Nat
  BY <1>1 DEF AnInterval
<1>3. t \in Nat /\ i.start_ms <= t /\ t < i.end_ms /\ j.start_ms <= t /\ t < j.end_ms
  BY <1>2 DEF Units
<1>4. i.start_ms = j.start_ms
  <2>1. CASE i.start_ms < j.start_ms
    <3>1. j.start_ms - 1 \in Units(i)
      BY <1>2, <1>3, <2>1 DEF Units
    <3>2. QED
      BY <1>1, <3>1
  <2>2. CASE j.start_ms < i.start_ms
    <3>1. i.start_ms - 1 \in Units(j)
      BY <1>2, <1>3, <2>2 DEF Units
    <3>2. QED
      BY <1>1, <3>1
  <2>3. QED
    BY <1>2, <2>1, <2>2
<1>5. i.end_ms = j.end_ms
  <2>1. CASE i.end_ms < j.end_ms
    <3>1. i.end_ms \in Units(j)
      BY <1>2, <1>3, <2>1 DEF Units
    <3>2. QED
      BY <1>1, <3>1
  <2>2. CASE j.end_ms < i.end_ms
    <3>1. j.end_ms \in Units(i)
      BY <1>2, <1>3, <2>2 DEF Units
    <3>2. QED
      BY <1>1, <3>1
  <2>3. QED
    BY <1>2, <2>1, <2>2
<1>6. QED
  BY <1>1, <1>4, <1>5 DEF AnInterval

(* Runs are the longest intervals.                                           *)
LEMMA RunsAreRuns ==
    ASSUME NEW U, U \subseteq Nat, IsFiniteSet(U), NEW i
    PROVE  i \in Runs(U) <=> IsRun(i, U)
<1> DEFINE Good(t, e) == e \notin U /\ t .. e - 1 \subseteq U
           End(t) == CHOOSE e \in t + 1 .. t + Cardinality(U) : Good(t, e)
<1>1. Cardinality(U) \in Nat
  BY FS_CardinalityType
<1>2. Runs(U) = {Interval(t, End(t)) : t \in {t \in U : t - 1 \notin U}}
  BY DEF Runs
<1>3. \A t \in U : End(t) \in t + 1 .. t + Cardinality(U) /\ Good(t, End(t))
  <2>1. TAKE t \in U
  <2>2. \E e \in t + 1 .. t + Cardinality(U) : Good(t, e)
    BY RunEnds
  <2> HIDE DEF Good
  <2>3. QED
    BY <2>2
<1> HIDE DEF End
<1>4. \A t \in U : t - 1 \notin U => IsRun(Interval(t, End(t)), U)
  <2>1. SUFFICES ASSUME NEW t \in U, t - 1 \notin U
                 PROVE  IsRun(Interval(t, End(t)), U)
    OBVIOUS
  <2>2. t \in Nat /\ End(t) \in Nat /\ t < End(t) /\ Good(t, End(t))
    BY <1>1, <1>3
  <2>3. QED
    BY <2>1, <2>2 DEF IsRun, Interval, AnInterval, Units
<1>5. ASSUME IsRun(i, U) PROVE i \in Runs(U)
  <2>1. /\ i \in AnInterval /\ i.start_ms \in U /\ i.start_ms - 1 \notin U
        /\ i.start_ms \in Units(i) /\ i.start_ms \in Nat
    BY <1>5 DEF IsRun, AnInterval, Units
  <2> DEFINE t == i.start_ms
             j == Interval(t, End(t))
  <2>2. IsRun(j, U)
    BY <1>4, <2>1
  <2>3. t \in Units(j)
    <3>1. End(t) \in Nat /\ t < End(t)
      BY <1>1, <1>3, <2>1
    <3>2. QED
      BY <2>1, <3>1 DEF Interval, Units
  <2>4. i = j
    <3> HIDE DEF j
    <3>1. QED
      BY <1>5, <2>1, <2>2, <2>3, RunsMeet
  <2>5. QED
    BY <1>2, <2>1, <2>4
<1>6. ASSUME i \in Runs(U) PROVE IsRun(i, U)
  BY <1>2, <1>4, <1>6
<1>7. QED
  BY <1>5, <1>6

(* Every unit is in a run.                                                   *)
LEMMA RunCovers ==
    ASSUME NEW U, U \subseteq Nat, IsFiniteSet(U), NEW t \in U
    PROVE  \E i \in Runs(U) : t \in Units(i)
<1> DEFINE Starts == {s \in Nat : s <= t /\ s .. t \subseteq U}
<1>1. t \in Starts
  BY DEF Starts
<1>2. PICK s \in Starts : \A u \in Starts : s <= u
  <2>1. Starts \subseteq Nat
    OBVIOUS
  <2> HIDE DEF Starts
  <2>2. QED
    BY <1>1, <2>1, LeastNumber
<1>3. s \in Nat /\ s <= t /\ s .. t \subseteq U /\ s \in U
  BY <1>2
<1>4. s - 1 \notin U
  <2>1. SUFFICES ASSUME s - 1 \in U PROVE FALSE
    OBVIOUS
  <2>2. s - 1 \in Starts
    BY <1>3, <2>1
  <2>3. QED
    BY <1>2, <1>3, <2>2
<1>5. PICK end \in s + 1 .. s + Cardinality(U) : end \notin U /\ s .. end - 1 \subseteq U
  BY <1>3, RunEnds
<1>6. end \in Nat /\ s < end /\ Cardinality(U) \in Nat
  BY <1>3, FS_CardinalityType
<1>7. t < end
  <2>1. SUFFICES ASSUME end <= t PROVE FALSE
    BY <1>6
  <2>2. QED
    BY <1>3, <1>5, <1>6, <2>1
<1>8. IsRun(Interval(s, end), U)
  BY <1>3, <1>4, <1>5, <1>6 DEF IsRun, Interval, AnInterval, Units
<1>9. t \in Units(Interval(s, end))
  BY <1>3, <1>6, <1>7 DEF Interval, Units
<1>10. QED
  BY <1>8, <1>9, RunsAreRuns

(* The runs of U tell its units apart: each unit is in one of them.          *)
LEMMA RunsPartition ==
    ASSUME NEW U, U \subseteq Nat, IsFiniteSet(U)
    PROVE  /\ \A i \in Runs(U) : IsRun(i, U)
           /\ \A i, j \in Runs(U) : \A t \in Units(i) : t \in Units(j) => i = j
           /\ AllUnits(Runs(U)) = U
<1>1. \A i \in Runs(U) : IsRun(i, U)
  BY RunsAreRuns
<1>2. \A i, j \in Runs(U) : \A t \in Units(i) : t \in Units(j) => i = j
  BY <1>1, RunsMeet
<1>3. AllUnits(Runs(U)) = U
  <2>1. \A i \in Runs(U) : Units(i) \subseteq U
    BY <1>1 DEF IsRun
  <2>2. \A t \in U : \E i \in Runs(U) : t \in Units(i)
    BY RunCovers
  <2>3. QED
    BY <2>1, <2>2 DEF AllUnits
<1>4. QED
  BY <1>1, <1>2, <1>3

(* What an interval that is not empty holds.                                 *)
LEMMA UnitsOf ==
    ASSUME NEW i, i.start_ms \in Nat, i.end_ms \in Nat, NEW t
    PROVE  t \in Units(i) <=> t \in Nat /\ i.start_ms <= t /\ t < i.end_ms
  BY DEF Units

(* Intervals intersect where they have a unit in common.                     *)
LEMMA IntersectsHasUnit ==
    ASSUME NEW i, NEW j,
           i.start_ms \in Nat, i.end_ms \in Nat, i.start_ms < i.end_ms,
           j.start_ms \in Nat, j.end_ms \in Nat, j.start_ms < j.end_ms
    PROVE  /\ Intersects(i, j) => \E t \in Units(i) : t \in Units(j)
           /\ (\E t \in Units(i) : t \in Units(j)) => Intersects(i, j)
           /\ Intersection(i, j) \in Nat
           /\ Intersection(i, j) > 0 <=> Intersects(i, j)
<1>1. ASSUME Intersects(i, j) PROVE \E t \in Units(i) : t \in Units(j)
  <2> DEFINE t == Greater(i.start_ms, j.start_ms)
  <2>1. t \in Nat /\ i.start_ms <= t /\ t < i.end_ms /\ j.start_ms <= t /\ t < j.end_ms
    BY <1>1 DEF Intersects, Greater
  <2> HIDE DEF t
  <2>2. t \in Units(i) /\ t \in Units(j)
    BY <2>1, UnitsOf
  <2>3. QED
    BY <2>2
<1>2. ASSUME NEW t \in Units(i), t \in Units(j) PROVE Intersects(i, j)
  BY <1>2 DEF Units, Intersects
<1>3. Intersection(i, j) \in Nat
  BY DEF Intersection, Greater, Lesser
<1>4. Intersection(i, j) > 0 <=> Intersects(i, j)
  BY DEF Intersection, Intersects, Greater, Lesser
<1>5. QED
  BY <1>1, <1>2, <1>3, <1>4

(* Units up to a bound are finitely many.                                    *)
LEMMA BoundedUnits ==
    ASSUME NEW N \in Nat, NEW U, U \subseteq 0 .. N - 1
    PROVE  U \subseteq Nat /\ IsFiniteSet(U)
<1>1. IsFiniteSet(0 .. N - 1)
  BY FS_Interval
<1>2. IsFiniteSet(U)
  BY <1>1, FS_Subset
<1>3. U \subseteq Nat
  OBVIOUS
<1>4. QED
  BY <1>2, <1>3

-----------------------------------------------------------------------------
(* Words and utterances *)

(* Whoever can be somebody's word: a speaker or the sink.                    *)
People == Speakers \union {Unattributed}

(* The turns of a recording of N units.                                      *)
TurnsOf(turns, N) == N \in Nat /\ turns \in [0 .. N - 1 -> SUBSET Speakers]

(* A piece of it that is not empty.                                          *)
Piece(i, N) == i \in AnInterval /\ i.start_ms < i.end_ms /\ i.end_ms <= N

(* A word belongs to one of its turns, and to nobody only without a turn.    *)
LEMMA AttributedToTurn ==
    ASSUME NEW turns, NEW N, TurnsOf(turns, N), NEW slice, Piece(slice, N)
    PROVE  /\ AttributeWords(slice, turns) \in [Units(slice) -> People]
           /\ \A t \in Units(slice) :
                 IF turns[t] = {} THEN AttributeWords(slice, turns)[t] = Unattributed
                 ELSE AttributeWords(slice, turns)[t] \in turns[t]
<1> DEFINE Attr(t, previous) ==
               IF turns[t] = {} THEN Unattributed
               ELSE IF previous \in turns[t] THEN previous
               ELSE CHOOSE s \in turns[t] : TRUE
           Body(w, t) == Attr(t, IF t > slice.start_ms THEN w[t - 1] ELSE Unattributed)
           Solves(w) == w = [t \in Units(slice) |-> Body(w, t)]
           a == slice.start_ms
           len == slice.end_ms - slice.start_ms
<1>1. AttributeWords(slice, turns) = CHOOSE w : Solves(w)
  BY DEF AttributeWords
<1>2. a \in Nat /\ slice.end_ms \in Nat /\ N \in Nat /\ len \in Nat /\ slice.end_ms <= N
  BY DEF Piece, AnInterval, TurnsOf
<1>3. \A t \in Units(slice) : t \in 0 .. N - 1 /\ turns[t] \subseteq Speakers
  BY <1>2 DEF Units, TurnsOf
<1>4. \A t \in Units(slice) : \A q : Attr(t, q) \in People
                                     /\ IF turns[t] = {} THEN Attr(t, q) = Unattributed
                                        ELSE Attr(t, q) \in turns[t]
  BY <1>3 DEF People
<1>5. \E w : Solves(w)
  <2> DEFINE Lists == UNION {[1 .. k -> People] : k \in 0 .. len}
             G == [p \in (1 .. len) \X Lists |->
                     Attr(a + p[1] - 1, IF p[1] > 1 THEN p[2][p[1] - 1] ELSE Unattributed)]
  <2>1. \A n \in 1 .. len : a + n - 1 \in Units(slice)
    BY <1>2 DEF Units
  <2>2. \A n \in 1 .. len : \A h \in [1 .. n - 1 -> People] :
            /\ <<n, h>> \in (1 .. len) \X Lists
            /\ G[<<n, h>>] = Attr(a + n - 1, IF n > 1 THEN h[n - 1] ELSE Unattributed)
    <3> HIDE DEF Attr
    <3>1. SUFFICES ASSUME NEW n \in 1 .. len, NEW h \in [1 .. n - 1 -> People]
                   PROVE  /\ <<n, h>> \in (1 .. len) \X Lists
                          /\ G[<<n, h>>] = Attr(a + n - 1, IF n > 1 THEN h[n - 1] ELSE Unattributed)
      OBVIOUS
    <3>2. n - 1 \in 0 .. len
      BY <1>2
    <3>3. h \in Lists
      BY <3>2
    <3>4. <<n, h>> \in (1 .. len) \X Lists
      BY <3>3
    <3> HIDE DEF Lists
    <3>5. QED
      BY <3>4
  <2> HIDE DEF G, Attr
  <2>3. \A n \in 1 .. len : \A h \in [1 .. n - 1 -> People] : G[<<n, h>>] \in People
    <3>1. TAKE n \in 1 .. len
    <3>2. TAKE h \in [1 .. n - 1 -> People]
    <3>3. Attr(a + n - 1, IF n > 1 THEN h[n - 1] ELSE Unattributed) \in People
      BY <1>4, <2>1
    <3>4. QED
      BY <2>2, <3>3
  <2>4. PICK f : Computes(f, len, People, G)
    <3> HIDE DEF len
    <3>1. QED
      BY <1>2, <2>3, RecursionExists
  <2> DEFINE w == [t \in Units(slice) |-> f[t - a + 1]]
  <2>5. \A t \in Units(slice) : w[t] = Body(w, t)
    <3>1. SUFFICES ASSUME NEW t \in Units(slice) PROVE w[t] = Body(w, t)
      OBVIOUS
    <3>2. t \in Nat /\ a <= t /\ t < slice.end_ms
      BY <1>2 DEF Units
    <3> DEFINE n == t - a + 1
    <3>3. n \in 1 .. len /\ a + n - 1 = t
      BY <1>2, <3>2
    <3>4. f \in [1 .. len -> People]
      BY <2>4 DEF Computes
    <3> DEFINE h == [m \in 1 .. n - 1 |-> f[m]]
    <3>5. h \in [1 .. n - 1 -> People]
      BY <1>2, <3>3, <3>4
    <3>6. f[n] = G[<<n, h>>]
      BY <2>4, <3>3 DEF Computes
    <3>7. f[n] = Attr(a + n - 1, IF n > 1 THEN h[n - 1] ELSE Unattributed)
      <4> HIDE DEF n, h
      <4>1. QED
        BY <2>2, <3>3, <3>5, <3>6
    <3>8. (IF n > 1 THEN h[n - 1] ELSE Unattributed)
             = (IF t > a THEN w[t - 1] ELSE Unattributed)
      <4>1. CASE t > a
        <5>1. n > 1 /\ n - 1 \in 1 .. n - 1 /\ t - 1 \in Units(slice) /\ (t - 1) - a + 1 = n - 1
          BY <1>2, <3>2, <4>1 DEF Units
        <5>2. h[n - 1] = f[n - 1]
          BY <5>1
        <5>3. w[t - 1] = f[n - 1]
          BY <5>1
        <5>4. QED
          BY <4>1, <5>1, <5>2, <5>3
      <4>2. CASE ~ (t > a)
        BY <1>2, <3>2, <4>2
      <4>3. QED
        BY <4>1, <4>2
    <3>9. w[t] = f[n]
      OBVIOUS
    <3> HIDE DEF n, h, w
    <3>10. QED
      BY <3>3, <3>7, <3>8, <3>9
  <2>6. w = [t \in Units(slice) |-> w[t]]
    OBVIOUS
  <2> HIDE DEF w, Body
  <2>7. Solves(w)
    BY <2>5, <2>6
  <2> HIDE DEF Solves
  <2>8. QED
    BY <2>7
<1> DEFINE who == AttributeWords(slice, turns)
<1>6. Solves(who)
  <2> HIDE DEF Solves
  <2>1. QED
    BY <1>1, <1>5
<1> HIDE DEF who
<1>7. \A t \in Units(slice) : who[t] = Body(who, t)
  BY <1>6
<1>8. who \in [Units(slice) -> People]
  <2>1. who = [t \in Units(slice) |-> Body(who, t)]
    BY <1>6
  <2> HIDE DEF Solves, Attr
  <2>2. \A t \in Units(slice) : Body(who, t) \in People
    BY <1>4
  <2> HIDE DEF Body
  <2>3. QED
    BY <2>1, <2>2
<1>9. QED
  <2> HIDE DEF Solves, Attr
  <2>1. \A t \in Units(slice) : IF turns[t] = {} THEN who[t] = Unattributed ELSE who[t] \in turns[t]
    BY <1>4, <1>7
  <2>2. QED
    BY <1>8, <2>1 DEF who

(* S cuts the units W: every unit is in one segment of the mixture.          *)
Cuts(S, W) ==
    /\ \A x \in S : /\ x \in Segment /\ x.start_ms < x.end_ms /\ Units(x) \subseteq W
                    /\ x.speaker \in People /\ x.track = 0
    /\ \A t \in W : \E x \in S : t \in Units(x)
    /\ \A x, y \in S : \A t \in Units(x) : t \in Units(y) => x = y

(* Speakers and nobody are finitely many numbers.                            *)
LEMMA PeopleNat == People \subseteq Nat /\ IsFiniteSet(People)
<1>1. People \subseteq Nat
  BY SpeakerAssumption DEF People, Unattributed
<1>2. IsFiniteSet(People)
  BY SpeakerAssumption, FS_AddElement DEF People
<1>3. QED
  BY <1>1, <1>2

(* A segment has the bounds, the speaker and the track it is made with.      *)
LEMMA SegmentOfFields ==
    ASSUME NEW i \in AnInterval, NEW s \in Nat, NEW track \in Nat
    PROVE  /\ SegmentOf(i, s, track) \in Segment
           /\ SegmentOf(i, s, track).start_ms = i.start_ms
           /\ SegmentOf(i, s, track).end_ms = i.end_ms
           /\ SegmentOf(i, s, track).speaker = s
           /\ SegmentOf(i, s, track).track = track
           /\ Units(SegmentOf(i, s, track)) = Units(i)
  BY DEF AnInterval, SegmentOf, Segment, Units

(* _coalesce loses no word of a slice and says none twice.                   *)
LEMMA CoalesceCuts ==
    ASSUME NEW turns, NEW N, TurnsOf(turns, N), NEW slice, Piece(slice, N)
    PROVE  Cuts(Coalesce(slice, turns), Units(slice))
<1> DEFINE who == AttributeWords(slice, turns)
           Words(s) == {t \in Units(slice) : who[t] = s}
           S == Coalesce(slice, turns)
<1>1. who \in [Units(slice) -> People]
  BY AttributedToTurn
<1>2. Units(slice) \subseteq 0 .. N - 1 /\ N \in Nat
  BY DEF Piece, TurnsOf, AnInterval, Units
<1> DEFINE Said(s) == {SegmentOf(i, s, 0) : i \in Runs(Words(s))}
<1>3. \A x : x \in S <=> \E t \in Units(slice) :
                            \E i \in Runs(Words(who[t])) : x = SegmentOf(i, who[t], 0)
  <2>1. S = UNION {Said(s) : s \in {who[t] : t \in Units(slice)}}
    BY DEF Coalesce
  <2>2. \A s, x : x \in Said(s) <=> \E i \in Runs(Words(s)) : x = SegmentOf(i, s, 0)
    <3> HIDE DEF Words
    <3>1. QED
      OBVIOUS
  <2> HIDE DEF S, Said, Words, who
  <2>3. \A x : x \in S <=> \E t \in Units(slice) : x \in Said(who[t])
    BY <2>1
  <2>4. QED
    BY <2>2, <2>3
<1> HIDE DEF who, S, Said
<1>4. \A s : Words(s) \subseteq Nat /\ IsFiniteSet(Words(s))
  <2>1. TAKE s
  <2>2. Words(s) \subseteq 0 .. N - 1
    BY <1>2
  <2> HIDE DEF Words
  <2>3. QED
    BY <1>2, <2>2, BoundedUnits
<1>5. ASSUME NEW x \in S
      PROVE  \E i : /\ i \in Runs(Words(x.speaker)) /\ IsRun(i, Words(x.speaker))
                    /\ x = SegmentOf(i, x.speaker, 0) /\ x \in Segment
                    /\ x.start_ms < x.end_ms /\ Units(x) = Units(i) /\ x.track = 0
                    /\ Units(x) \subseteq Words(x.speaker) /\ x.speaker \in People
  <2>0. PICK t \in Units(slice) : \E i \in Runs(Words(who[t])) : x = SegmentOf(i, who[t], 0)
    <3> HIDE DEF Words
    <3>1. QED
      BY <1>3, <1>5
  <2>1. PICK i \in Runs(Words(who[t])) : x = SegmentOf(i, who[t], 0)
    BY <2>0
  <2>2. who[t] \in People /\ who[t] \in Nat
    BY <1>1, PeopleNat
  <2> HIDE DEF Words
  <2>3. IsRun(i, Words(who[t]))
    BY <1>4, <2>1, RunsPartition
  <2>4. i \in AnInterval /\ i.start_ms < i.end_ms /\ Units(i) \subseteq Words(who[t])
    BY <2>3 DEF IsRun
  <2>5. /\ x \in Segment /\ x.start_ms = i.start_ms /\ x.end_ms = i.end_ms
        /\ x.speaker = who[t] /\ x.track = 0 /\ Units(x) = Units(i)
    BY <2>1, <2>2, <2>4, SegmentOfFields
  <2>6. QED
    BY <2>1, <2>2, <2>3, <2>4, <2>5
<1>6. \A x \in S : Units(x) \subseteq Units(slice)
  <2>1. TAKE x \in S
  <2>2. Units(x) \subseteq Words(x.speaker)
    BY <1>5
  <2>3. QED
    BY <2>2
<1>7. \A t \in Units(slice) : \E x \in S : t \in Units(x)
  <2>1. SUFFICES ASSUME NEW t \in Units(slice) PROVE \E x \in S : t \in Units(x)
    OBVIOUS
  <2>2. t \in Words(who[t])
    OBVIOUS
  <2>3. who[t] \in Nat
    BY <1>1, PeopleNat
  <2> HIDE DEF Words
  <2>4. PICK i \in Runs(Words(who[t])) : t \in Units(i)
    BY <1>4, <2>2, RunCovers
  <2>5. i \in AnInterval
    BY <1>4, RunsPartition DEF IsRun
  <2>6. t \in Units(SegmentOf(i, who[t], 0))
    BY <2>3, <2>4, <2>5, SegmentOfFields
  <2>7. SegmentOf(i, who[t], 0) \in S
    BY <1>3, <2>4
  <2>8. QED
    BY <2>6, <2>7
<1>8. \A x, y \in S : \A t \in Units(x) : t \in Units(y) => x = y
  <2>1. SUFFICES ASSUME NEW x \in S, NEW y \in S, NEW t \in Units(x), t \in Units(y)
                 PROVE  x = y
    OBVIOUS
  <2>2. PICK i : /\ i \in Runs(Words(x.speaker)) /\ IsRun(i, Words(x.speaker))
                 /\ x = SegmentOf(i, x.speaker, 0) /\ Units(x) = Units(i)
                 /\ Units(x) \subseteq Words(x.speaker)
    BY <1>5
  <2>3. PICK j : /\ j \in Runs(Words(y.speaker)) /\ IsRun(j, Words(y.speaker))
                 /\ y = SegmentOf(j, y.speaker, 0) /\ Units(y) = Units(j)
                 /\ Units(y) \subseteq Words(y.speaker)
    BY <1>5
  <2>4. x.speaker = y.speaker
    <3>1. t \in Words(x.speaker) /\ t \in Words(y.speaker)
      BY <2>1, <2>2, <2>3
    <3>2. QED
      BY <3>1
  <2> HIDE DEF Words
  <2>5. i = j
    BY <2>1, <2>2, <2>3, <2>4, RunsMeet
  <2>6. QED
    BY <2>2, <2>3, <2>4, <2>5
<1>9. QED
  <2> HIDE DEF Words
  <2>1. \A x \in S : /\ x \in Segment /\ x.start_ms < x.end_ms /\ Units(x) \subseteq Units(slice)
                     /\ x.speaker \in People /\ x.track = 0
    BY <1>5, <1>6
  <2>2. QED
    BY <1>7, <1>8, <2>1 DEF Cuts, S

(* transcribe_non_overlap: the speech outside the regions, every word once.  *)
LEMMA NonOverlapCuts ==
    ASSUME NEW turns, NEW N, TurnsOf(turns, N), NEW speech, NEW regions,
           AllUnits(speech) \subseteq 0 .. N - 1
    PROVE  Cuts(NonOverlap(speech, regions, turns), AllUnits(speech) \ AllUnits(regions))
<1> DEFINE W == AllUnits(speech) \ AllUnits(regions)
           S == NonOverlap(speech, regions, turns)
<1>1. W \subseteq 0 .. N - 1 /\ N \in Nat
  BY DEF TurnsOf
<1>2. S = UNION {Coalesce(slice, turns) : slice \in Runs(W)}
  BY DEF NonOverlap, Subtract
<1> HIDE DEF S, W
<1>3. W \subseteq Nat /\ IsFiniteSet(W)
  BY <1>1, BoundedUnits
<1>4. ASSUME NEW i \in Runs(W)
      PROVE  Cuts(Coalesce(i, turns), Units(i)) /\ Units(i) \subseteq W
  <2>1. IsRun(i, W)
    BY <1>3, RunsPartition
  <2>2. /\ i \in AnInterval /\ i.start_ms < i.end_ms /\ Units(i) \subseteq W
        /\ i.start_ms \in Nat /\ i.end_ms \in Nat
    BY <2>1 DEF IsRun, AnInterval
  <2>3. i.end_ms - 1 \in Units(i)
    BY <2>2, UnitsOf
  <2>4. i.end_ms <= N
    BY <1>1, <2>2, <2>3
  <2>5. Piece(i, N)
    BY <2>2, <2>4 DEF Piece
  <2>6. QED
    BY <2>2, <2>5, CoalesceCuts
<1>5. \A x \in S : \E i \in Runs(W) : x \in Coalesce(i, turns)
  BY <1>2
<1>6. \A x \in S : /\ x \in Segment /\ x.start_ms < x.end_ms /\ Units(x) \subseteq W
                   /\ x.speaker \in People /\ x.track = 0
  BY <1>4, <1>5 DEF Cuts
<1>7. \A t \in W : \E x \in S : t \in Units(x)
  <2>1. SUFFICES ASSUME NEW t \in W PROVE \E x \in S : t \in Units(x)
    OBVIOUS
  <2>2. PICK i \in Runs(W) : t \in Units(i)
    BY <1>3, RunCovers
  <2>3. PICK x \in Coalesce(i, turns) : t \in Units(x)
    BY <1>4, <2>2 DEF Cuts
  <2>4. QED
    BY <1>2, <2>2, <2>3
<1>8. \A x, y \in S : \A t \in Units(x) : t \in Units(y) => x = y
  <2>1. SUFFICES ASSUME NEW x \in S, NEW y \in S, NEW t \in Units(x), t \in Units(y)
                 PROVE  x = y
    OBVIOUS
  <2>2. PICK i \in Runs(W) : x \in Coalesce(i, turns)
    BY <1>5
  <2>3. PICK j \in Runs(W) : y \in Coalesce(j, turns)
    BY <1>5
  <2>4. Units(x) \subseteq Units(i) /\ Units(y) \subseteq Units(j)
    BY <1>4, <2>2, <2>3 DEF Cuts
  <2>5. i = j
    BY <1>3, <2>1, <2>2, <2>3, <2>4, RunsPartition
  <2>6. QED
    BY <1>4, <2>1, <2>2, <2>3, <2>5 DEF Cuts
<1>9. QED
  BY <1>6, <1>7, <1>8 DEF Cuts, S, W

-----------------------------------------------------------------------------
(* Overlap regions and their sources *)

(* An utterance reaches from its first word to its last.                     *)
LEMMA SpanOf ==
    ASSUME NEW N \in Nat, NEW words, words \subseteq 0 .. N - 1, words # {}
    PROVE  /\ Span(words) \in AnInterval
           /\ Span(words).start_ms \in words
           /\ Span(words).end_ms - 1 \in words
           /\ Span(words).end_ms <= N
           /\ words \subseteq Units(Span(words))
<1> DEFINE Low(t) == \A u \in words : t <= u
           High(t) == \A u \in words : t >= u
           low == CHOOSE t \in words : Low(t)
           high == CHOOSE t \in words : High(t)
           Bounds == {k \in Nat : \A u \in words : u <= k}
<1>1. words \subseteq Nat
  OBVIOUS
<1>2. low \in words /\ Low(low)
  <2>1. \E t \in words : Low(t)
    BY <1>1, LeastNumber
  <2> HIDE DEF Low
  <2>2. QED
    BY <2>1
<1>3. high \in words /\ High(high)
  <2>1. N \in Bounds
    OBVIOUS
  <2>2. PICK b \in Bounds : \A k \in Bounds : b <= k
    <3>1. Bounds \subseteq Nat
      OBVIOUS
    <3> HIDE DEF Bounds
    <3>2. QED
      BY <2>1, <3>1, LeastNumber
  <2>3. b \in words
    <3>1. SUFFICES ASSUME b \notin words PROVE FALSE
      OBVIOUS
    <3>2. PICK u \in words : TRUE
      OBVIOUS
    <3>3. u \in Nat /\ b \in Nat /\ u <= b /\ u # b
      BY <1>1, <2>2, <3>1
    <3>4. \A v \in words : v \in Nat /\ v <= b /\ v # b
      BY <1>1, <2>2, <3>1
    <3>5. b - 1 \in Bounds
      BY <3>3, <3>4
    <3>6. QED
      BY <2>2, <3>3, <3>5
  <2>4. High(b)
    BY <1>1, <2>2
  <2> HIDE DEF High
  <2>5. QED
    BY <2>3, <2>4
<1>4. Span(words) = Interval(low, 1 + high)
  BY DEF Span
<1> HIDE DEF low, high
<1>5. low \in Nat /\ high \in Nat /\ low <= high /\ high < N
  BY <1>1, <1>2, <1>3
<1>6. /\ Span(words) \in AnInterval /\ Span(words).start_ms = low
      /\ Span(words).end_ms = 1 + high
  BY <1>4, <1>5 DEF Interval, AnInterval
<1>7. \A u \in words : u \in Nat /\ low <= u /\ u < 1 + high
  BY <1>1, <1>2, <1>3, <1>5
<1>8. words \subseteq Units(Span(words))
  BY <1>5, <1>6, <1>7, UnitsOf
<1>9. QED
  BY <1>2, <1>3, <1>5, <1>6, <1>8

(* The words of s in the interval r.                                         *)
WordsOf(s, r, turns) == {t \in Units(r) : s \in turns[t]}

(* S are the sources of the region r: one for each of its speakers.          *)
Separated(S, r, turns) ==
    /\ \A x \in S : /\ x \in Segment /\ x.start_ms < x.end_ms /\ Units(x) \subseteq Units(r)
                    /\ x.track = x.speaker /\ x.speaker \in ActiveIn(r, turns)
                    /\ x.speaker \in Speakers
                    /\ x.speaker \in turns[x.start_ms] /\ x.speaker \in turns[x.end_ms - 1]
    /\ \A x, y \in S : x.speaker = y.speaker => x = y
    /\ \A t \in Units(r) : \A s \in turns[t] :
          \E x \in S : x.speaker = s /\ t \in Units(x)

(* handle_overlap_region gives every speaker of the region one source, which *)
(* has all their words.                                                      *)
LEMMA SourcesSeparated ==
    ASSUME NEW turns, NEW N, TurnsOf(turns, N), NEW r, Piece(r, N)
    PROVE  Separated(Sources(r, turns), r, turns)
<1> DEFINE S == Sources(r, turns)
           Source(s) == SegmentOf(Span(WordsOf(s, r, turns)), s, s)
<1>1. \A x : x \in S <=> \E s \in ActiveIn(r, turns) : x = Source(s)
  BY DEF Sources, WordsOf
<1> HIDE DEF S
<1>2. /\ N \in Nat /\ r \in AnInterval /\ r.start_ms \in Nat /\ r.end_ms \in Nat
      /\ r.end_ms <= N
  BY DEF TurnsOf, Piece, AnInterval
<1>3. \A t \in Units(r) : t \in 0 .. N - 1 /\ turns[t] \subseteq Speakers
  BY <1>2 DEF Units, TurnsOf
<1>4. ASSUME NEW s \in ActiveIn(r, turns)
      PROVE  /\ Source(s) \in Segment /\ Source(s).start_ms < Source(s).end_ms
             /\ Units(Source(s)) \subseteq Units(r)
             /\ Source(s).track = s /\ Source(s).speaker = s /\ s \in Speakers
             /\ s \in turns[Source(s).start_ms] /\ s \in turns[Source(s).end_ms - 1]
             /\ WordsOf(s, r, turns) \subseteq Units(Source(s))
  <2> DEFINE words == WordsOf(s, r, turns)
             i == Span(words)
  <2>1. words # {} /\ s \in Speakers
    BY <1>3, <1>4 DEF ActiveIn, WordsOf
  <2>2. words \subseteq 0 .. N - 1 /\ words \subseteq Units(r)
    BY <1>3 DEF WordsOf
  <2>3. s \in Nat
    BY <2>1, SpeakerAssumption
  <2> HIDE DEF words
  <2>4. /\ i \in AnInterval /\ i.start_ms \in words /\ i.end_ms - 1 \in words
        /\ words \subseteq Units(i)
    BY <1>2, <2>1, <2>2, SpanOf
  <2>5. /\ i.start_ms \in Nat /\ i.end_ms \in Nat /\ i.start_ms < i.end_ms
        /\ r.start_ms <= i.start_ms /\ i.end_ms <= r.end_ms
    <3>1. i.start_ms \in Nat /\ i.end_ms \in Nat
      BY <2>4 DEF AnInterval
    <3> HIDE DEF i
    <3>2. i.start_ms \in Units(r) /\ i.end_ms - 1 \in Units(r) /\ i.start_ms \in Units(i)
      BY <2>2, <2>4
    <3>3. QED
      BY <1>2, <3>1, <3>2, UnitsOf
  <2>6. s \in turns[i.start_ms] /\ s \in turns[i.end_ms - 1]
    BY <2>4 DEF words, WordsOf
  <2> HIDE DEF i
  <2>7. Units(i) \subseteq Units(r)
    BY <1>2, <2>5 DEF Units
  <2>8. /\ Source(s) \in Segment /\ Source(s).start_ms = i.start_ms
        /\ Source(s).end_ms = i.end_ms /\ Source(s).speaker = s /\ Source(s).track = s
        /\ Units(Source(s)) = Units(i)
    BY <2>3, <2>4, SegmentOfFields DEF i, words
  <2> HIDE DEF Source
  <2>9. QED
    BY <2>1, <2>4, <2>5, <2>6, <2>7, <2>8 DEF words
<1> HIDE DEF Source
<1>5. \A x \in S : /\ x \in Segment /\ x.start_ms < x.end_ms /\ Units(x) \subseteq Units(r)
                   /\ x.track = x.speaker /\ x.speaker \in ActiveIn(r, turns)
                   /\ x.speaker \in Speakers
                   /\ x.speaker \in turns[x.start_ms] /\ x.speaker \in turns[x.end_ms - 1]
  <2>1. TAKE x \in S
  <2>2. PICK s \in ActiveIn(r, turns) : x = Source(s)
    BY <1>1
  <2>3. QED
    BY <1>4, <2>2
<1>6. \A x, y \in S : x.speaker = y.speaker => x = y
  BY <1>1, <1>4
<1>7. \A t \in Units(r) : \A s \in turns[t] :
          \E x \in S : x.speaker = s /\ t \in Units(x)
  <2>1. SUFFICES ASSUME NEW t \in Units(r), NEW s \in turns[t]
                 PROVE  \E x \in S : x.speaker = s /\ t \in Units(x)
    OBVIOUS
  <2>2. s \in ActiveIn(r, turns) /\ t \in WordsOf(s, r, turns)
    BY <2>1 DEF ActiveIn, WordsOf
  <2>3. Source(s) \in S /\ Source(s).speaker = s /\ t \in Units(Source(s))
    BY <1>1, <1>4, <2>2
  <2>4. QED
    BY <2>3
<1>8. QED
  BY <1>5, <1>6, <1>7 DEF Separated, S

(* The units with several speakers.                                          *)
Overlapped(units, turns) == {t \in units : Cardinality(turns[t]) > 1}

(* _merge_overlap_regions: pieces of the recording that do not overlap.      *)
LEMMA RegionsApart ==
    ASSUME NEW turns, NEW N, TurnsOf(turns, N), NEW units, units \subseteq 0 .. N - 1
    PROVE  /\ \A r \in OverlapRegions(units, turns) : Piece(r, N) /\ Duration(r) >= MinDuration
           /\ \A q, r \in OverlapRegions(units, turns) :
                 \A t \in Units(q) : t \in Units(r) => q = r
<1> DEFINE U == AllUnits(Runs(Overlapped(units, turns)))
           M == UNION {p[1] .. p[2] : p \in {p \in U \X U : p[2] - p[1] <= MergeGap + 1}}
<1>1. OverlapRegions(units, turns) = {r \in Runs(M) : Duration(r) >= MinDuration}
  BY DEF OverlapRegions, MergeIntervals, Overlapped
<1>2. U = Overlapped(units, turns)
  <2>1. Overlapped(units, turns) \subseteq 0 .. N - 1 /\ N \in Nat
    BY DEF Overlapped, TurnsOf
  <2>2. QED
    BY <2>1, BoundedUnits, RunsPartition
<1>3. U \subseteq 0 .. N - 1 /\ N \in Nat
  BY <1>2 DEF Overlapped, TurnsOf
<1> HIDE DEF U
<1>4. M \subseteq 0 .. N - 1
  <2>1. SUFFICES ASSUME NEW t \in M PROVE t \in 0 .. N - 1
    OBVIOUS
  <2>2. PICK p \in U \X U : t \in p[1] .. p[2]
    BY <2>1
  <2>3. p[1] \in 0 .. N - 1 /\ p[2] \in 0 .. N - 1
    BY <1>3
  <2>4. QED
    BY <1>3, <2>2, <2>3
<1> HIDE DEF M
<1>5. M \subseteq Nat /\ IsFiniteSet(M)
  BY <1>3, <1>4, BoundedUnits
<1>6. \A r \in Runs(M) : Piece(r, N)
  <2>1. TAKE r \in Runs(M)
  <2>2. IsRun(r, M)
    BY <1>5, RunsPartition
  <2>3. /\ r \in AnInterval /\ r.start_ms < r.end_ms /\ Units(r) \subseteq M
        /\ r.start_ms \in Nat /\ r.end_ms \in Nat
    BY <2>2 DEF IsRun, AnInterval
  <2>4. r.end_ms - 1 \in Units(r)
    BY <2>3, UnitsOf
  <2>5. r.end_ms <= N
    BY <1>3, <1>4, <2>3, <2>4
  <2>6. QED
    BY <2>3, <2>5 DEF Piece
<1>7. QED
  BY <1>1, <1>5, <1>6, RunsPartition

(* The units with several speakers and the short gaps between them, of which *)
(* the regions are the long enough runs.                                     *)
Merged(units, turns) ==
    LET overlapped == Overlapped(units, turns)
    IN  UNION {p[1] .. p[2] : p \in {p \in overlapped \X overlapped :
                                        p[2] - p[1] <= MergeGap + 1}}

(* OverlapDetector.detect: the regions are the long enough runs of Merged.   *)
LEMMA RegionsAre ==
    ASSUME NEW turns, NEW N, TurnsOf(turns, N), NEW units, units \subseteq 0 .. N - 1
    PROVE  OverlapRegions(units, turns)
             = {r \in Runs(Merged(units, turns)) : Duration(r) >= MinDuration}
<1> DEFINE U == AllUnits(Runs(Overlapped(units, turns)))
           M == UNION {p[1] .. p[2] : p \in {p \in U \X U : p[2] - p[1] <= MergeGap + 1}}
<1>1. OverlapRegions(units, turns) = {r \in Runs(M) : Duration(r) >= MinDuration}
  BY DEF OverlapRegions, MergeIntervals, Overlapped
<1>2. U = Overlapped(units, turns)
  <2>1. Overlapped(units, turns) \subseteq 0 .. N - 1 /\ N \in Nat
    BY DEF Overlapped, TurnsOf
  <2>2. QED
    BY <2>1, BoundedUnits, RunsPartition
<1>3. M = Merged(units, turns)
  BY <1>2 DEF Merged
<1>4. QED
  BY <1>1, <1>3

(* A unit is merged where two overlapped units close to each other hold it   *)
(* between them, for one where it is itself overlapped.                      *)
LEMMA MergedBetween ==
    ASSUME NEW turns, NEW N \in Nat, NEW units, units \subseteq 0 .. N - 1
    PROVE  /\ Merged(units, turns) \subseteq 0 .. N - 1
           /\ Overlapped(units, turns) \subseteq Merged(units, turns)
           /\ \A t \in Merged(units, turns) :
                 \E a, b \in Overlapped(units, turns) :
                    t \in a .. b /\ b - a <= MergeGap + 1
           /\ \A a, b \in Overlapped(units, turns) : b - a <= MergeGap + 1
                 => a .. b \subseteq Merged(units, turns)
<1> DEFINE O == Overlapped(units, turns)
           Near == {p \in O \X O : p[2] - p[1] <= MergeGap + 1}
<1>1. O \subseteq 0 .. N - 1
  BY DEF Overlapped
<1>2. Merged(units, turns) = UNION {p[1] .. p[2] : p \in Near}
  BY DEF Merged
<1> HIDE DEF O
<1>3. ASSUME NEW t \in Merged(units, turns)
      PROVE  \E a, b \in O : t \in a .. b /\ b - a <= MergeGap + 1
  <2>1. PICK p \in Near : t \in p[1] .. p[2]
    BY <1>2, <1>3
  <2>2. p[1] \in O /\ p[2] \in O /\ p[2] - p[1] <= MergeGap + 1
    BY <2>1
  <2>3. QED
    BY <2>1, <2>2
<1>4. ASSUME NEW a \in O, NEW b \in O, b - a <= MergeGap + 1, NEW t \in a .. b
      PROVE  t \in Merged(units, turns)
  <2>1. <<a, b>> \in Near
    BY <1>4
  <2>2. t \in <<a, b>>[1] .. <<a, b>>[2]
    BY <1>4
  <2> HIDE DEF Near
  <2>3. QED
    BY <1>2, <2>1, <2>2
<1>5. ASSUME NEW t \in O PROVE t \in Merged(units, turns)
  <2>1. t \in Int /\ t - t <= MergeGap + 1 /\ t \in t .. t
    BY <1>1, <1>5, RegionAssumption DEF OverlapDetectionConfig
  <2>2. QED
    BY <1>4, <1>5, <2>1
<1>6. ASSUME NEW t \in Merged(units, turns) PROVE t \in 0 .. N - 1
  <2>1. PICK a \in O : \E b \in O : t \in a .. b
    BY <1>3, <1>6
  <2>2. PICK b \in O : t \in a .. b
    BY <2>1
  <2>3. a \in 0 .. N - 1 /\ b \in 0 .. N - 1
    BY <1>1
  <2>4. QED
    BY <2>2, <2>3
<1>7. QED
  BY <1>3, <1>4, <1>5, <1>6 DEF O

-----------------------------------------------------------------------------
(* Sorting *)

(* R orders S strictly and totally.                                          *)
StrictTotal(R, S) ==
    /\ \A x \in S : <<x, x>> \notin R
    /\ \A x, y, z \in S : <<x, y>> \in R /\ <<y, z>> \in R => <<x, z>> \in R
    /\ \A x, y \in S : x # y => <<x, y>> \in R \/ <<y, x>> \in R

(* S in the order of R: each element at the number of those below it.        *)
Below(R, S, x) == {y \in S : <<y, x>> \in R}
OrderedBy(R, S) ==
    [n \in 1 .. Cardinality(S) |-> CHOOSE x \in S : Cardinality(Below(R, S, x)) = n - 1]

(* q lists S, everything once.                                               *)
Enumerates(q, S) ==
    /\ q \in Seq(S)
    /\ Len(q) = Cardinality(S)
    /\ \A x \in S : \E n \in DOMAIN q : q[n] = x
    /\ \A m, n \in DOMAIN q : q[m] = q[n] => m = n

(* The rank of an element tells where it is listed.                          *)
LEMMA OrderedEnumerates ==
    ASSUME NEW S, IsFiniteSet(S), NEW R, StrictTotal(R, S)
    PROVE  Enumerates(OrderedBy(R, S), S)
<1> DEFINE C == Cardinality(S)
           rank == [x \in S |-> Cardinality(Below(R, S, x)) + 1]
           q == OrderedBy(R, S)
<1>1. C \in Nat
  BY FS_CardinalityType
<1>2. \A x \in S : IsFiniteSet(Below(R, S, x)) /\ Cardinality(Below(R, S, x)) \in Nat
                   /\ Cardinality(Below(R, S, x)) < C
  <2>1. TAKE x \in S
  <2>2. Below(R, S, x) \subseteq S /\ x \notin Below(R, S, x)
    BY DEF Below, StrictTotal
  <2> DEFINE B == Below(R, S, x)
  <2> HIDE DEF B
  <2>3. IsFiniteSet(B) /\ Cardinality(B) <= C /\ (C = Cardinality(B) => S = B)
    BY <2>2, FS_Subset DEF B
  <2>4. Cardinality(B) \in Nat
    BY <2>3, FS_CardinalityType
  <2>5. S # B
    BY <2>2 DEF B
  <2>6. QED
    BY <1>1, <2>3, <2>4, <2>5 DEF B
<1>3. \A x, y \in S : <<x, y>> \in R => rank[x] # rank[y]
  <2>1. SUFFICES ASSUME NEW x \in S, NEW y \in S, <<x, y>> \in R PROVE rank[x] # rank[y]
    OBVIOUS
  <2> DEFINE A == Below(R, S, x)
             B == Below(R, S, y)
  <2>2. A \subseteq B /\ x \in B /\ x \notin A
    BY <2>1 DEF Below, StrictTotal
  <2>3. rank[x] = Cardinality(A) + 1 /\ rank[y] = Cardinality(B) + 1
    OBVIOUS
  <2>4. Cardinality(A) \in Nat /\ Cardinality(B) \in Nat /\ IsFiniteSet(B)
    BY <1>2
  <2> HIDE DEF A, B, rank
  <2>5. Cardinality(A) <= Cardinality(B) /\ (Cardinality(B) = Cardinality(A) => B = A)
    BY <2>2, <2>4, FS_Subset
  <2>6. QED
    BY <2>2, <2>3, <2>4, <2>5
<1>4. rank \in [S -> 1 .. C]
  BY <1>1, <1>2
<1> HIDE DEF rank
<1>5. \A x, y \in S : rank[x] = rank[y] => x = y
  BY <1>3 DEF StrictTotal
<1>6. rank \in Surjection(S, 1 .. C)
  <2>1. rank \in Injection(S, 1 .. C)
    BY <1>4, <1>5 DEF Injection, IsInjective
  <2>2. IsFiniteSet(1 .. C) /\ Cardinality(1 .. C) = C
    BY <1>1, FS_Interval
  <2>3. QED
    BY <2>1, <2>2, FS_Injection
<1>7. \A n \in 1 .. C : \E x \in S : rank[x] = n
  BY <1>6 DEF Surjection
<1> DEFINE Has(x, n) == Cardinality(Below(R, S, x)) = n - 1
<1>8. \A x \in S, n \in 1 .. C : Has(x, n) <=> rank[x] = n
  BY <1>1, <1>2 DEF rank
<1>9. q = [n \in 1 .. C |-> CHOOSE x \in S : Has(x, n)]
  BY DEF OrderedBy
<1> HIDE DEF q, Has
<1>10. \A n \in 1 .. C : q[n] \in S /\ rank[q[n]] = n
  <2>1. TAKE n \in 1 .. C
  <2>2. \E x \in S : Has(x, n)
    BY <1>7, <1>8
  <2>3. q[n] \in S /\ Has(q[n], n)
    BY <1>9, <2>2
  <2>4. QED
    BY <1>8, <2>3
<1>11. DOMAIN q = 1 .. C /\ q \in [1 .. C -> S]
  BY <1>9, <1>10
<1>12. q \in Seq(S) /\ Len(q) = C
  BY <1>1, <1>11, LenProperties
<1>13. \A x \in S : \E n \in DOMAIN q : q[n] = x
  <2>1. TAKE x \in S
  <2>2. rank[x] \in 1 .. C
    BY <1>4
  <2>3. q[rank[x]] = x
    BY <1>5, <1>10, <2>2
  <2>4. QED
    BY <1>11, <2>2, <2>3
<1>14. \A m, n \in DOMAIN q : q[m] = q[n] => m = n
  BY <1>10, <1>11
<1>15. QED
  BY <1>12, <1>13, <1>14 DEF Enumerates, q

(* Segments that no two speakers start at once have different sort keys.     *)
LEMMA SortSegmentsEnumerates ==
    ASSUME NEW S, S \subseteq Segment, IsFiniteSet(S),
           \A x, y \in S : x.start_ms = y.start_ms /\ x.speaker = y.speaker => x = y
    PROVE  Enumerates(SortSegments(S), S)
<1> DEFINE R == {p \in S \X S : SortKeyLess(p[1], p[2])}
<1>1. \A x, y \in S : <<x, y>> \in R <=> SortKeyLess(x, y)
  OBVIOUS
<1>2. SortSegments(S) = OrderedBy(R, S)
  <2>1. \A x \in S : Below(R, S, x) = {y \in S : SortKeyLess(y, x)}
    BY <1>1 DEF Below
  <2> DEFINE First(n) == CHOOSE x \in S : Cardinality({y \in S : SortKeyLess(y, x)}) = n - 1
             Second(n) == CHOOSE x \in S : Cardinality(Below(R, S, x)) = n - 1
  <2>2. \A n : First(n) = Second(n)
    <3> HIDE DEF R
    <3>1. QED
      BY <2>1, Zenon
  <2> HIDE DEF R
  <2>3. /\ SortSegments(S) = [n \in 1 .. Cardinality(S) |-> First(n)]
        /\ OrderedBy(R, S) = [n \in 1 .. Cardinality(S) |-> Second(n)]
    BY DEF SortSegments, Ordered, OrderedBy
  <2> HIDE DEF First, Second
  <2>4. QED
    BY <2>2, <2>3
<1> HIDE DEF R
<1>3. \A x \in S : x.start_ms \in Nat /\ x.speaker \in Nat /\ x.track \in Nat
  BY DEF Segment
<1>4. StrictTotal(R, S)
  <2>1. \A x \in S : ~ SortKeyLess(x, x)
    BY <1>3 DEF SortKeyLess
  <2>2. \A x, y, z \in S : SortKeyLess(x, y) /\ SortKeyLess(y, z) => SortKeyLess(x, z)
    BY <1>3 DEF SortKeyLess
  <2>3. \A x, y \in S : x # y => SortKeyLess(x, y) \/ SortKeyLess(y, x)
    BY <1>3 DEF SortKeyLess
  <2>4. QED
    BY <1>1, <2>1, <2>2, <2>3 DEF StrictTotal
<1>5. QED
  BY <1>2, <1>4, OrderedEnumerates

(* The segments of a recording of N units.                                   *)
BoundedSegments(N) ==
    {x \in Segment : /\ x.start_ms < x.end_ms /\ x.end_ms <= N
                     /\ x.speaker \in People /\ x.track \in People}

(* A recording has finitely many segments.                                   *)
LEMMA BoundedSegmentsFinite ==
    ASSUME NEW N \in Nat
    PROVE  IsFiniteSet(BoundedSegments(N))
<1> DEFINE S == BoundedSegments(N)
           T == ((0 .. N) \X (0 .. N)) \X (People \X People)
           f == [x \in S |-> <<<<x.start_ms, x.end_ms>>, <<x.speaker, x.track>>>>]
<1>1. IsFiniteSet(T)
  <2>1. IsFiniteSet(0 .. N)
    BY FS_Interval
  <2>2. IsFiniteSet((0 .. N) \X (0 .. N)) /\ IsFiniteSet(People \X People)
    BY <2>1, PeopleNat, FS_Product
  <2>3. QED
    BY <2>2, FS_Product
<1>2. \A x \in S : /\ x.start_ms \in 0 .. N /\ x.end_ms \in 0 .. N
                   /\ x.speaker \in People /\ x.track \in People
  BY DEF BoundedSegments, Segment
<1>3. f \in [S -> T]
  BY <1>2
<1>4. \A x, y \in S : f[x] = f[y] => x = y
  <2>1. \A x, y \in S : x.start_ms = y.start_ms /\ x.end_ms = y.end_ms
                        /\ x.speaker = y.speaker /\ x.track = y.track => x = y
    BY DEF BoundedSegments, Segment
  <2>2. QED
    BY <2>1
<1> HIDE DEF f, T
<1>5. f \in Injection(S, T)
  BY <1>3, <1>4 DEF Injection, IsInjective
<1>6. QED
  BY <1>1, <1>5, FS_Injection

-----------------------------------------------------------------------------
(* One rolling pass *)

(* A segment of a pass and the end of the closed interval it is from.        *)
Group(N) == [closed : 0 .. N, segment : BoundedSegments(N)]

(* And finitely many segments with the interval they close.                  *)
LEMMA GroupFinite ==
    ASSUME NEW N \in Nat
    PROVE  IsFiniteSet(Group(N))
<1> DEFINE T == (0 .. N) \X BoundedSegments(N)
           f == [x \in Group(N) |-> <<x.closed, x.segment>>]
<1>1. IsFiniteSet(T)
  <2>1. IsFiniteSet(0 .. N) /\ IsFiniteSet(BoundedSegments(N))
    BY BoundedSegmentsFinite, FS_Interval
  <2>2. QED
    BY <2>1, FS_Product
<1>2. f \in [Group(N) -> T]
  BY DEF Group
<1>3. \A x, y \in Group(N) : f[x] = f[y] => x = y
  BY DEF Group
<1> HIDE DEF f, T
<1>4. f \in Injection(Group(N), T)
  BY <1>2, <1>3 DEF Injection, IsInjective
<1>5. QED
  BY <1>1, <1>4, FS_Injection

(* What the closed intervals of a pass give is listed, each segment once.    *)
LEMMA OrderedGroups ==
    ASSUME NEW N \in Nat, NEW G, G \subseteq Group(N),
           \A x, y \in G : x.closed = y.closed
                           /\ x.segment.start_ms = y.segment.start_ms
                           /\ x.segment.speaker = y.segment.speaker
                           /\ x.segment.track = y.segment.track => x = y
    PROVE  Enumerates(Ordered(G, GroupLess), G)
<1> DEFINE R == {p \in G \X G : GroupLess(p[1], p[2])}
<1>1. \A x, y \in G : <<x, y>> \in R <=> GroupLess(x, y)
  OBVIOUS
<1>2. Ordered(G, GroupLess) = OrderedBy(R, G)
  <2>1. \A x \in G : Below(R, G, x) = {y \in G : GroupLess(y, x)}
    BY <1>1 DEF Below
  <2> DEFINE First(n) == CHOOSE x \in G : Cardinality({y \in G : GroupLess(y, x)}) = n - 1
             Second(n) == CHOOSE x \in G : Cardinality(Below(R, G, x)) = n - 1
  <2>2. \A n : First(n) = Second(n)
    <3> HIDE DEF R
    <3>1. QED
      BY <2>1, Zenon
  <2> HIDE DEF R
  <2>3. /\ Ordered(G, GroupLess) = [n \in 1 .. Cardinality(G) |-> First(n)]
        /\ OrderedBy(R, G) = [n \in 1 .. Cardinality(G) |-> Second(n)]
    BY DEF Ordered, OrderedBy
  <2> HIDE DEF First, Second
  <2>4. QED
    BY <2>2, <2>3
<1> HIDE DEF R
<1>3. \A x \in G : /\ x.closed \in Nat /\ x.segment.start_ms \in Nat
                   /\ x.segment.speaker \in Nat /\ x.segment.track \in Nat
  BY DEF Group, BoundedSegments, Segment
<1>4. StrictTotal(R, G)
  <2>1. \A x \in G : ~ GroupLess(x, x)
    BY <1>3 DEF GroupLess, SortKeyLess
  <2>2. \A x, y, z \in G : GroupLess(x, y) /\ GroupLess(y, z) => GroupLess(x, z)
    BY <1>3 DEF GroupLess, SortKeyLess
  <2>3. \A x, y \in G : x # y => GroupLess(x, y) \/ GroupLess(y, x)
    BY <1>3 DEF GroupLess, SortKeyLess
  <2>4. QED
    BY <1>1, <2>1, <2>2, <2>3 DEF StrictTotal
<1>5. IsFiniteSet(G)
  BY GroupFinite, FS_Subset
<1>6. QED
  BY <1>2, <1>4, <1>5, OrderedEnumerates

(* The parts of a pass over the end of a recording.                          *)
Speech(sound, held) == SpeechUnits(sound, WindowUnits(sound, held))
Regions(sound, held) == OverlapRegions(WindowUnits(sound, held), Turns(sound))
ClosedRuns(sound, held, force) == Closed(Len(sound), Runs(Speech(sound, held)), force)
Given(sound, held, force, i) ==
    SegmentsOf(Len(sound), Turns(sound), i, Regions(sound, held), force)
Groups(sound, held, force) ==
    UNION {{[closed |-> i.end_ms, segment |-> x] : x \in Given(sound, held, force, i)} :
              i \in ClosedRuns(sound, held, force)}
Handled(sound, held, force, i) ==
    {r \in Regions(sound, held) : \E c \in Clamp(r, Pending(i)) :
                                     force \/ Len(sound) - c.end_ms >= CloseAfter}

(* _process sends the groups in order and moves emitted_until to the last    *)
(* end that is closed.                                                       *)
LEMMA ProcessParts ==
    ASSUME NEW sound, NEW held, NEW force
    PROVE  /\ Process(sound, held, force).sent = Ordered(Groups(sound, held, force), GroupLess)
           /\ Process(sound, held, force).until
                = Max({emitted_until} \union {i.end_ms : i \in ClosedRuns(sound, held, force)})
  BY DEF Process, Groups, Given, ClosedRuns, Regions, Speech

(* A recording and how much of it is in memory.                              *)
Recorded(sound, held) ==
    /\ sound \in Seq(Sounds) /\ held \in Nat /\ emitted_until \in Nat

(* The turns of a recording are those of its units.                          *)
LEMMA RecordedTurns ==
    ASSUME NEW sound, sound \in Seq(Sounds)
    PROVE  /\ Len(sound) \in Nat
           /\ TurnsOf(Turns(sound), Len(sound))
           /\ \A t \in 0 .. Len(sound) - 1 :
                 Turns(sound)[t] = IF sound[t + 1] = Silence THEN {} ELSE sound[t + 1]
<1>1. Len(sound) \in Nat /\ \A n \in 1 .. Len(sound) : sound[n] \in Sounds
  BY LenProperties, ElementOfSeq
<1>2. \A t \in 0 .. Len(sound) - 1 : sound[t + 1] \in Sounds
  BY <1>1
<1>3. \A t \in 0 .. Len(sound) - 1 :
         (IF sound[t + 1] = Silence THEN {} ELSE sound[t + 1]) \in SUBSET Speakers
  BY <1>2, SoundAssumption
<1>4. Turns(sound) \in [0 .. Len(sound) - 1 -> SUBSET Speakers]
  BY <1>3 DEF Turns
<1>5. QED
  BY <1>1, <1>4 DEF TurnsOf, Turns

(* The rolling window and its speech lie in the recording.                   *)
LEMMA WindowInside ==
    ASSUME NEW sound, NEW held, Recorded(sound, held)
    PROVE  /\ WindowUnits(sound, held) \subseteq 0 .. Len(sound) - 1
           /\ Speech(sound, held) \subseteq 0 .. Len(sound) - 1
           /\ Speech(sound, held) \subseteq Nat
           /\ IsFiniteSet(Speech(sound, held))
<1>1. Len(sound) \in Nat /\ held \in Nat
  BY RecordedTurns DEF Recorded
<1>2. WindowUnits(sound, held) \subseteq 0 .. Len(sound) - 1
  BY <1>1, WindowAssumption DEF WindowUnits, Greater, Lesser, StreamingConfig
<1>3. Speech(sound, held) \subseteq 0 .. Len(sound) - 1
  BY <1>2 DEF Speech, SpeechUnits
<1>4. QED
  BY <1>1, <1>2, <1>3, BoundedUnits

(* What one call of the models gives for this speech and these regions, of   *)
(* which some are handled.                                                   *)
Transcript(speech, regions, handled, turns) ==
    NonOverlap(speech, regions, turns) \union UNION {Sources(r, turns) : r \in handled}

(* Nobody says a word twice, and a word of the mixture is nobody else's.     *)
Apart(S) ==
    \A x, y \in S : \A t \in Units(x) :
        t \in Units(y) /\ (x.speaker = y.speaker \/ x.track = 0) => x = y

(* S are segments of N units: the units W of the mixture, all of them, and   *)
(* the sources of the regions that were handled.                             *)
Transcribes(S, N, W, handled, turns) ==
    /\ S \subseteq BoundedSegments(N)
    /\ Apart(S)
    /\ \A x \in S : \/ x.track = 0 /\ Units(x) \subseteq W
                    \/ x.track # 0 /\ \E r \in handled : x \in Sources(r, turns)
    /\ \A t \in W : \E x \in S : x.track = 0 /\ t \in Units(x)
    /\ \A r \in handled : Sources(r, turns) \subseteq S

(* The words outside the regions and the sources of the handled regions do   *)
(* not overlap, and together they have all of both.                          *)
LEMMA TranscriptApart ==
    ASSUME NEW turns, NEW N, TurnsOf(turns, N), NEW units, units \subseteq 0 .. N - 1,
           NEW speech, AllUnits(speech) \subseteq 0 .. N - 1,
           NEW regions, regions = OverlapRegions(units, turns),
           NEW handled, handled \subseteq regions,
           NEW S, S = Transcript(speech, regions, handled, turns)
    PROVE  Transcribes(S, N, AllUnits(speech) \ AllUnits(regions), handled, turns)
<1> DEFINE direct == NonOverlap(speech, regions, turns)
           W == AllUnits(speech) \ AllUnits(regions)
<1>1. Cuts(direct, W) /\ W \subseteq 0 .. N - 1 /\ N \in Nat
  BY NonOverlapCuts DEF TurnsOf
<1>2. \A r \in regions : Piece(r, N) /\ Separated(Sources(r, turns), r, turns)
  <2>1. \A r \in regions : Piece(r, N)
    BY RegionsApart
  <2>2. QED
    BY <2>1, SourcesSeparated
<1>3. \A q, r \in regions : \A t \in Units(q) : t \in Units(r) => q = r
  <2>1. \A q, r \in OverlapRegions(units, turns) :
            \A t \in Units(q) : t \in Units(r) => q = r
    BY RegionsApart
  <2>2. QED
    BY <2>1, Zenon
<1>4. \A x : x \in S <=> x \in direct \/ \E r \in handled : x \in Sources(r, turns)
  BY DEF Transcript
<1>5. \A r \in regions : Units(r) \subseteq AllUnits(regions)
  BY DEF AllUnits
<1> HIDE DEF direct, W
<1>6. \A x \in direct : x.track = 0 /\ Units(x) \subseteq W /\ x \in BoundedSegments(N)
  <2>1. SUFFICES ASSUME NEW x \in direct
                 PROVE  x.track = 0 /\ Units(x) \subseteq W /\ x \in BoundedSegments(N)
    OBVIOUS
  <2>2. /\ x \in Segment /\ x.start_ms < x.end_ms /\ Units(x) \subseteq W
        /\ x.speaker \in People /\ x.track = 0
    BY <1>1 DEF Cuts
  <2>3. x.start_ms \in Nat /\ x.end_ms \in Nat
    BY <2>2 DEF Segment
  <2>4. x.end_ms - 1 \in Units(x)
    BY <2>2, <2>3, UnitsOf
  <2>5. x.end_ms <= N
    BY <1>1, <2>2, <2>3, <2>4
  <2>6. 0 \in People
    BY DEF People, Unattributed
  <2>7. QED
    BY <2>2, <2>5, <2>6 DEF BoundedSegments
<1>7. \A r \in regions : \A x \in Sources(r, turns) :
         /\ x.track # 0 /\ Units(x) \subseteq Units(r) /\ x \in BoundedSegments(N)
  <2>1. SUFFICES ASSUME NEW r \in regions, NEW x \in Sources(r, turns)
                 PROVE  x.track # 0 /\ Units(x) \subseteq Units(r) /\ x \in BoundedSegments(N)
    OBVIOUS
  <2>2. /\ x \in Segment /\ x.start_ms < x.end_ms /\ Units(x) \subseteq Units(r)
        /\ x.track = x.speaker /\ x.speaker \in Speakers
    BY <1>2 DEF Separated
  <2>3. x.start_ms \in Nat /\ x.end_ms \in Nat
    BY <2>2 DEF Segment
  <2>4. x.end_ms - 1 \in Units(x)
    BY <2>2, <2>3, UnitsOf
  <2>5. r.start_ms \in Nat /\ r.end_ms \in Nat /\ r.end_ms <= N
    BY <1>2 DEF Piece, AnInterval
  <2>6. x.end_ms <= N
    <3>1. x.end_ms - 1 < r.end_ms
      BY <2>2, <2>4, <2>5, UnitsOf
    <3>2. QED
      BY <1>1, <2>3, <2>5, <3>1
  <2>7. x.speaker \in People /\ x.track \in People /\ x.track # 0
    BY <2>2, SpeakerAssumption DEF People
  <2>8. QED
    BY <2>2, <2>6, <2>7 DEF BoundedSegments
<1>8. Apart(S)
  <2>1. SUFFICES ASSUME NEW x \in S, NEW y \in S, NEW t \in Units(x), t \in Units(y),
                        x.speaker = y.speaker \/ x.track = 0
                 PROVE  x = y
    BY DEF Apart
  <2>2. CASE x \in direct /\ y \in direct
    BY <1>1, <2>1, <2>2 DEF Cuts
  <2>3. ASSUME NEW z \in direct, NEW r \in handled, NEW s \in Sources(r, turns)
        PROVE  ~ (t \in Units(z) /\ t \in Units(s))
    <3>1. Units(z) \subseteq W
      BY <1>6
    <3>2. Units(s) \subseteq AllUnits(regions)
      BY <1>5, <1>7
    <3>3. QED
      BY <3>1, <3>2 DEF W
  <2>4. ASSUME NEW q \in handled, NEW r \in handled,
               x \in Sources(q, turns), y \in Sources(r, turns)
        PROVE  x = y
    <3>1. t \in Units(q) /\ t \in Units(r)
      BY <1>7, <2>1, <2>4
    <3>2. q = r
      BY <1>3, <3>1
    <3>3. x.speaker = y.speaker
      BY <1>7, <2>1, <2>4
    <3>4. Separated(Sources(q, turns), q, turns)
      BY <1>2
    <3>5. QED
      BY <2>4, <3>2, <3>3, <3>4 DEF Separated
  <2>5. QED
    BY <1>4, <2>1, <2>2, <2>3, <2>4
<1>9. S \subseteq BoundedSegments(N)
  BY <1>4, <1>6, <1>7
<1>10. \A x \in S : \/ x.track = 0 /\ Units(x) \subseteq W
                    \/ x.track # 0 /\ \E r \in handled : x \in Sources(r, turns)
  BY <1>4, <1>6, <1>7
<1>11. \A t \in W : \E x \in S : x.track = 0 /\ t \in Units(x)
  <2>1. TAKE t \in W
  <2>2. PICK x \in direct : t \in Units(x)
    BY <1>1 DEF Cuts
  <2>3. QED
    BY <1>4, <1>6, <2>2
<1>12. \A r \in handled : Sources(r, turns) \subseteq S
  BY <1>4
<1>13. QED
  BY <1>8, <1>9, <1>10, <1>11, <1>12 DEF W, Transcribes

(* Two words with the same beginning and speaker are one.                    *)
LEMMA ApartKeys ==
    ASSUME NEW N \in Nat, NEW S, S \subseteq BoundedSegments(N), Apart(S),
           NEW x \in S, NEW y \in S, x.start_ms = y.start_ms, x.speaker = y.speaker
    PROVE  x = y
<1>1. /\ x.start_ms \in Nat /\ x.end_ms \in Nat /\ x.start_ms < x.end_ms
      /\ y.start_ms \in Nat /\ y.end_ms \in Nat /\ y.start_ms < y.end_ms
  BY DEF BoundedSegments, Segment
<1>2. x.start_ms \in Units(x) /\ x.start_ms \in Units(y)
  BY <1>1, UnitsOf
<1>3. QED
  BY <1>2 DEF Apart

-----------------------------------------------------------------------------
(* A closed interval is a run of the speech in the window.                   *)
LEMMA ClosedFacts ==
    ASSUME NEW sound, NEW held, NEW force, Recorded(sound, held),
           NEW i \in ClosedRuns(sound, held, force)
    PROVE  /\ i \in Runs(Speech(sound, held))
           /\ IsRun(i, Speech(sound, held)) /\ Piece(i, Len(sound))
           /\ i.start_ms \in Nat /\ i.end_ms \in Nat
           /\ emitted_until < i.end_ms
           /\ force \/ Len(sound) - i.end_ms >= CloseAfter
           /\ Piece(Pending(i), Len(sound)) /\ Pending(i).end_ms = i.end_ms
           /\ Pending(i).start_ms = Greater(i.start_ms, emitted_until)
           /\ Units(Pending(i)) \subseteq Units(i)
           /\ AllUnits({Pending(i)}) = Units(Pending(i))
<1>1. /\ i \in Runs(Speech(sound, held)) /\ i.end_ms > emitted_until
      /\ force \/ Len(sound) - i.end_ms >= CloseAfter
  BY DEF ClosedRuns, Closed
<1>2. IsRun(i, Speech(sound, held))
  BY <1>1, WindowInside, RunsPartition
<1>3. /\ i \in AnInterval /\ i.start_ms \in Nat /\ i.end_ms \in Nat /\ i.start_ms < i.end_ms
      /\ Units(i) \subseteq Speech(sound, held)
  BY <1>2 DEF IsRun, AnInterval
<1>4. emitted_until \in Nat /\ Len(sound) \in Nat
  BY RecordedTurns DEF Recorded
<1>5. i.end_ms <= Len(sound)
  <2>1. i.end_ms - 1 \in Units(i)
    BY <1>3, UnitsOf
  <2>2. i.end_ms - 1 \in 0 .. Len(sound) - 1
    BY <1>3, <2>1, WindowInside
  <2>3. QED
    BY <1>3, <1>4, <2>2
<1>6. /\ Pending(i) \in AnInterval /\ Pending(i).end_ms = i.end_ms
      /\ Pending(i).start_ms = Greater(i.start_ms, emitted_until)
      /\ Pending(i).start_ms < i.end_ms /\ i.start_ms <= Pending(i).start_ms
      /\ Pending(i).start_ms \in Nat
  BY <1>1, <1>3, <1>4 DEF Pending, Interval, AnInterval, Greater
<1>7. Units(Pending(i)) \subseteq Units(i)
  BY <1>3, <1>6 DEF Units
<1>8. AllUnits({Pending(i)}) = Units(Pending(i))
  BY DEF AllUnits
<1>9. Piece(i, Len(sound)) /\ Piece(Pending(i), Len(sound))
  BY <1>3, <1>5, <1>6 DEF Piece
<1>10. QED
  BY <1>1, <1>2, <1>3, <1>4, <1>6, <1>7, <1>8, <1>9

(* What a closed interval gives.                                             *)
LEMMA GivenFacts ==
    ASSUME NEW sound, NEW held, NEW force, Recorded(sound, held),
           NEW i \in ClosedRuns(sound, held, force)
    PROVE  Transcribes(Given(sound, held, force, i), Len(sound),
                       Units(Pending(i)) \ AllUnits(Regions(sound, held)),
                       Handled(sound, held, force, i), Turns(sound))
<1> DEFINE N == Len(sound)
           turns == Turns(sound)
           regions == Regions(sound, held)
           handled == Handled(sound, held, force, i)
           units == WindowUnits(sound, held)
           S == Given(sound, held, force, i)
<1>1. TurnsOf(turns, N) /\ N \in Nat
  BY RecordedTurns DEF Recorded
<1>2. units \subseteq 0 .. N - 1
  BY WindowInside
<1>3. AllUnits({Pending(i)}) = Units(Pending(i)) /\ AllUnits({Pending(i)}) \subseteq 0 .. N - 1
  <2>1. /\ AllUnits({Pending(i)}) = Units(Pending(i))
        /\ Units(Pending(i)) \subseteq Units(i) /\ IsRun(i, Speech(sound, held))
    BY ClosedFacts
  <2>2. Units(i) \subseteq Speech(sound, held)
    BY <2>1 DEF IsRun
  <2>3. QED
    BY <2>1, <2>2, WindowInside
<1>4. regions = OverlapRegions(units, turns)
  BY DEF Regions
<1>5. handled \subseteq regions
  BY DEF Handled
<1>6. S = Transcript({Pending(i)}, regions, handled, turns)
  BY DEF Given, SegmentsOf, Transcript, Handled
<1> HIDE DEF N, turns, regions, handled, units, S
<1>7. Transcribes(S, N, AllUnits({Pending(i)}) \ AllUnits(regions), handled, turns)
  BY <1>1, <1>2, <1>3, <1>4, <1>5, <1>6, TranscriptApart
<1>8. QED
  BY <1>3, <1>7 DEF N, turns, regions, handled, S

(* Every group is a segment of one closed interval.                          *)
LEMMA GroupsOf ==
    ASSUME NEW sound, NEW held, NEW force, NEW g
    PROVE  g \in Groups(sound, held, force)
             <=> \E i \in ClosedRuns(sound, held, force) :
                    \E x \in Given(sound, held, force, i) :
                       g = [closed |-> i.end_ms, segment |-> x]
<1> DEFINE From(i) == {[closed |-> i.end_ms, segment |-> x] : x \in Given(sound, held, force, i)}
<1>1. g \in Groups(sound, held, force) <=> \E i \in ClosedRuns(sound, held, force) : g \in From(i)
  <2>1. Groups(sound, held, force) = UNION {From(i) : i \in ClosedRuns(sound, held, force)}
    BY DEF Groups
  <2> HIDE DEF From
  <2>2. QED
    BY <2>1
<1>2. QED
  BY <1>1

(* Closed intervals that end together are one.                               *)
LEMMA ClosedByEnd ==
    ASSUME NEW sound, NEW held, NEW force, Recorded(sound, held),
           NEW i \in ClosedRuns(sound, held, force),
           NEW j \in ClosedRuns(sound, held, force), i.end_ms = j.end_ms
    PROVE  i = j
<1>1. /\ IsRun(i, Speech(sound, held)) /\ IsRun(j, Speech(sound, held))
      /\ i.start_ms \in Nat /\ i.end_ms \in Nat /\ j.start_ms \in Nat /\ j.end_ms \in Nat
  BY ClosedFacts
<1>2. i.start_ms < i.end_ms /\ j.start_ms < j.end_ms
  BY <1>1 DEF IsRun
<1>3. i.end_ms - 1 \in Units(i) /\ i.end_ms - 1 \in Units(j)
  BY <1>1, <1>2, UnitsOf
<1>4. QED
  BY <1>1, <1>3, RunsMeet

(* A pass sends what its closed intervals give, each segment of each once.   *)
LEMMA PassEnumerates ==
    ASSUME NEW sound, NEW held, NEW force, Recorded(sound, held)
    PROVE  /\ Groups(sound, held, force) \subseteq Group(Len(sound))
           /\ Enumerates(Process(sound, held, force).sent, Groups(sound, held, force))
<1> DEFINE N == Len(sound)
           G == Groups(sound, held, force)
<1>1. N \in Nat
  BY RecordedTurns DEF Recorded
<1>2. \A g \in G : g \in Group(N)
  <2>1. SUFFICES ASSUME NEW g \in G PROVE g \in Group(N)
    OBVIOUS
  <2>2. PICK i \in ClosedRuns(sound, held, force) :
            \E x \in Given(sound, held, force, i) : g = [closed |-> i.end_ms, segment |-> x]
    BY <2>1, GroupsOf
  <2>3. PICK x \in Given(sound, held, force, i) : g = [closed |-> i.end_ms, segment |-> x]
    BY <2>2
  <2>4. x \in BoundedSegments(N)
    BY GivenFacts DEF Transcribes
  <2>5. i.end_ms \in 0 .. N
    <3>1. Piece(i, N) /\ i.end_ms \in Nat
      BY ClosedFacts
    <3>2. QED
      BY <1>1, <3>1 DEF Piece
  <2>6. QED
    BY <2>3, <2>4, <2>5 DEF Group
<1>3. \A g, h \in G : g.closed = h.closed
                      /\ g.segment.start_ms = h.segment.start_ms
                      /\ g.segment.speaker = h.segment.speaker
                      /\ g.segment.track = h.segment.track => g = h
  <2>1. SUFFICES ASSUME NEW g \in G, NEW h \in G, g.closed = h.closed,
                        g.segment.start_ms = h.segment.start_ms,
                        g.segment.speaker = h.segment.speaker
                 PROVE  g = h
    OBVIOUS
  <2>2. PICK i \in ClosedRuns(sound, held, force) :
            \E x \in Given(sound, held, force, i) : g = [closed |-> i.end_ms, segment |-> x]
    BY <2>1, GroupsOf
  <2>3. PICK x \in Given(sound, held, force, i) : g = [closed |-> i.end_ms, segment |-> x]
    BY <2>2
  <2>4. PICK j \in ClosedRuns(sound, held, force) :
            \E y \in Given(sound, held, force, j) : h = [closed |-> j.end_ms, segment |-> y]
    BY <2>1, GroupsOf
  <2>5. PICK y \in Given(sound, held, force, j) : h = [closed |-> j.end_ms, segment |-> y]
    BY <2>4
  <2>6. i.end_ms = j.end_ms /\ x.start_ms = y.start_ms /\ x.speaker = y.speaker
    BY <2>1, <2>3, <2>5
  <2>7. i = j
    BY <2>6, ClosedByEnd
  <2>8. x = y
    <3>1. /\ Given(sound, held, force, i) \subseteq BoundedSegments(N)
          /\ Apart(Given(sound, held, force, i))
      BY GivenFacts DEF Transcribes
    <3>2. QED
      BY <1>1, <2>6, <2>7, <3>1, ApartKeys
  <2>9. QED
    BY <2>3, <2>5, <2>7, <2>8
<1> HIDE DEF G, N
<1>4. Enumerates(Ordered(G, GroupLess), G)
  <2>1. G \subseteq Group(N)
    BY <1>2
  <2>2. QED
    BY <1>1, <1>3, <2>1, OrderedGroups
<1>5. QED
  BY <1>2, <1>4, ProcessParts DEF G, N

(* A set of numbers with a bound has a greatest element.                     *)
LEMMA GreatestNumber ==
    ASSUME NEW N \in Nat, NEW S, S \subseteq 0 .. N, S # {}
    PROVE  Max(S) \in S /\ \A k \in S : k <= Max(S)
<1> DEFINE Bounds == {k \in Nat : \A u \in S : u <= k}
           High(t) == \A u \in S : t >= u
<1>1. S \subseteq Nat
  OBVIOUS
<1>2. PICK b \in Bounds : \A k \in Bounds : b <= k
  <2>1. N \in Bounds /\ Bounds \subseteq Nat
    OBVIOUS
  <2> HIDE DEF Bounds
  <2>2. QED
    BY <2>1, LeastNumber
<1>3. b \in S
  <2>1. SUFFICES ASSUME b \notin S PROVE FALSE
    OBVIOUS
  <2>2. PICK u \in S : TRUE
    OBVIOUS
  <2>3. u \in Nat /\ b \in Nat /\ u <= b /\ u # b
    BY <1>1, <1>2, <2>1
  <2>4. \A v \in S : v \in Nat /\ v <= b /\ v # b
    BY <1>1, <1>2, <2>1
  <2>5. b - 1 \in Bounds
    BY <2>3, <2>4
  <2>6. QED
    BY <1>2, <2>3, <2>5
<1>4. High(b)
  BY <1>1, <1>2
<1>5. Max(S) = CHOOSE x \in S : High(x)
  BY DEF Max
<1>6. Max(S) \in S /\ High(Max(S))
  <2> HIDE DEF High
  <2>1. QED
    BY <1>3, <1>4, <1>5
<1>7. QED
  BY <1>1, <1>6

(* How far a pass reaches.                                                   *)
LEMMA PassUntil ==
    ASSUME NEW sound, NEW held, NEW force, Recorded(sound, held), emitted_until <= Len(sound)
    PROVE  LET until == Process(sound, held, force).until
           IN  /\ until \in emitted_until .. Len(sound)
               /\ \A i \in ClosedRuns(sound, held, force) : i.end_ms <= until
               /\ \/ until = emitted_until
                  \/ \E i \in ClosedRuns(sound, held, force) : until = i.end_ms
<1> DEFINE C == ClosedRuns(sound, held, force)
           S == {emitted_until} \union {i.end_ms : i \in C}
<1>1. Len(sound) \in Nat /\ emitted_until \in Nat
  BY RecordedTurns DEF Recorded
<1>2. \A i \in C : i.end_ms \in 0 .. Len(sound)
  <2>1. TAKE i \in C
  <2>2. Piece(i, Len(sound)) /\ i.end_ms \in Nat
    BY ClosedFacts
  <2>3. QED
    BY <1>1, <2>2 DEF Piece
<1>3. S \subseteq 0 .. Len(sound) /\ S # {}
  BY <1>1, <1>2
<1>4. Process(sound, held, force).until = Max(S)
  BY ProcessParts
<1>5. \A k : k \in S <=> k = emitted_until \/ \E i \in C : k = i.end_ms
  OBVIOUS
<1> HIDE DEF C, S
<1>6. Max(S) \in S /\ \A k \in S : k <= Max(S)
  BY <1>1, <1>3, GreatestNumber
<1>7. Max(S) \in 0 .. Len(sound) /\ emitted_until <= Max(S)
  BY <1>3, <1>5, <1>6
<1>8. QED
  BY <1>1, <1>4, <1>5, <1>6, <1>7 DEF C

-----------------------------------------------------------------------------
(* What a final segment supersedes *)

(* The values of a provisional event.                                        *)
Emitted == [segment : Segment, language : Languages \union {NoLanguage}]

(* _match_provisional prefers an event of the same track, then the longer    *)
(* common part, then the earlier event.                                      *)
SameTrack(list, x, n) == list[n].segment.track = x.track
Common(list, x, n) == Intersection(list[n].segment, x)
Preferred(list, x, n, m) ==
    \/ SameTrack(list, x, n) /\ ~ SameTrack(list, x, m)
    \/ /\ SameTrack(list, x, n) = SameTrack(list, x, m)
       /\ Common(list, x, n) > Common(list, x, m)
    \/ /\ SameTrack(list, x, n) = SameTrack(list, x, m)
       /\ Common(list, x, n) = Common(list, x, m)
       /\ n <= m
Available(list, x, used) ==
    {n \in 1 .. Len(list) : n \notin used /\ Common(list, x, n) > 0}
Best(list, x, used, n) ==
    n \in Available(list, x, used)
    /\ \A m \in Available(list, x, used) : Preferred(list, x, n, m)

(* What two intervals have in common is no longer than the end of one.      *)
LEMMA CommonNumbers ==
    ASSUME NEW a \in Nat, NEW b \in Nat, NEW c \in Nat, NEW d \in Nat
    PROVE  Greater(0, Lesser(b, d) - Greater(a, c)) \in 0 .. d
  BY DEF Greater, Lesser

(* Two segments have no more in common than the second reaches.              *)
LEMMA CommonBounded ==
    ASSUME NEW list \in Seq(Emitted), NEW x \in Segment, NEW n \in 1 .. Len(list)
    PROVE  Common(list, x, n) \in 0 .. x.end_ms
<1>1. list[n] \in Emitted
  BY ElementOfSeq
<1>2. /\ list[n].segment.start_ms \in Nat /\ list[n].segment.end_ms \in Nat
      /\ x.start_ms \in Nat /\ x.end_ms \in Nat
  BY <1>1 DEF Emitted, Segment
<1>3. QED
  BY <1>2, CommonNumbers DEF Common, Intersection

(* Of the events that are left one is preferred to all others.               *)
LEMMA BestExists ==
    ASSUME NEW list \in Seq(Emitted), NEW x \in Segment, NEW used,
           Available(list, x, used) # {}
    PROVE  \E n : Best(list, x, used, n)
<1> DEFINE A == Available(list, x, used)
           B == IF \E n \in A : SameTrack(list, x, n)
                THEN {n \in A : SameTrack(list, x, n)} ELSE A
           K == {Common(list, x, n) : n \in B}
           c == Max(K)
           L == {n \in B : Common(list, x, n) = c}
<1>1. x.end_ms \in Nat /\ Len(list) \in Nat
  BY LenProperties DEF Segment
<1>2. A \subseteq 1 .. Len(list)
  BY DEF Available
<1>3. B \subseteq A /\ B # {}
  <2> HIDE DEF A
  <2>1. A # {}
    BY DEF A
  <2>2. QED
    BY <2>1
<1>4. \A n \in B, m \in A : \/ SameTrack(list, x, n) /\ ~ SameTrack(list, x, m)
                            \/ m \in B /\ SameTrack(list, x, n) = SameTrack(list, x, m)
  <2> HIDE DEF A
  <2>1. QED
    BY DEF SameTrack
<1> HIDE DEF B
<1>5. K \subseteq 0 .. x.end_ms /\ K # {}
  BY <1>2, <1>3, CommonBounded
<1>6. c \in K /\ \A k \in K : k <= c
  <2> HIDE DEF K
  <2>1. QED
    BY <1>1, <1>5, GreatestNumber
<1>7. L # {} /\ L \subseteq Nat
  <2>1. L # {}
    <3> HIDE DEF c
    <3>1. QED
      BY <1>6
  <2>2. L \subseteq B /\ B \subseteq 1 .. Len(list)
    BY <1>2, <1>3
  <2> HIDE DEF L
  <2>3. QED
    BY <1>1, <2>1, <2>2
<1>8. PICK n \in L : \A m \in L : n <= m
  <2> HIDE DEF L
  <2>1. QED
    BY <1>7, LeastNumber
<1>9. n \in B /\ n \in A /\ Common(list, x, n) = c
  BY <1>3, <1>8
<1>10. \A m \in B : /\ Common(list, x, m) \in K /\ Common(list, x, m) <= c
                    /\ Common(list, x, m) \in Nat /\ c \in Nat
  <2>1. \A m \in B : Common(list, x, m) \in K
    OBVIOUS
  <2> HIDE DEF K, c
  <2>2. K \subseteq Nat
    BY <1>1, <1>5
  <2>3. QED
    BY <1>6, <2>1, <2>2
<1>11. \A m \in B : Common(list, x, m) = c => n <= m
  BY <1>8
<1> HIDE DEF c, K, L, A
<1>12. \A m \in A : Preferred(list, x, n, m)
  <2>1. TAKE m \in A
  <2>2. CASE SameTrack(list, x, n) /\ ~ SameTrack(list, x, m)
    BY <2>2 DEF Preferred
  <2>3. CASE m \in B /\ SameTrack(list, x, n) = SameTrack(list, x, m)
    <3>1. Common(list, x, m) < c \/ (Common(list, x, m) = c /\ n <= m)
      BY <1>10, <1>11, <2>3
    <3>2. QED
      BY <1>9, <1>10, <2>3, <3>1 DEF Preferred
  <2>4. QED
    BY <1>4, <1>9, <2>2, <2>3
<1>13. QED
  BY <1>9, <1>12 DEF Best, A

(* _superseded_event_id: the best of the events that are left, if any is.    *)
LEMMA SupersededBest ==
    ASSUME NEW list \in Seq(Emitted), NEW x \in Segment, NEW used
    PROVE  LET n == Superseded(list, x, used)
           IN  \/ Available(list, x, used) = {} /\ n = 0
               \/ Best(list, x, used, n)
<1> DEFINE A == Available(list, x, used)
           Good(n) == \A m \in A : Preferred(list, x, n, m)
<1>1. Superseded(list, x, used) = IF A = {} THEN 0 ELSE CHOOSE n \in A : Good(n)
  BY DEF Superseded, Available, Preferred, SameTrack, Common
<1>2. CASE A = {}
  BY <1>1, <1>2
<1>3. CASE A # {}
  <2>1. PICK n : Best(list, x, used, n)
    BY <1>3, BestExists
  <2>2. n \in A /\ Good(n)
    BY <2>1 DEF Best
  <2> HIDE DEF Good, A
  <2>3. Superseded(list, x, used) \in A /\ Good(Superseded(list, x, used))
    BY <1>1, <1>3, <2>2
  <2>4. QED
    BY <2>3 DEF Best, Good, A
<1>4. QED
  BY <1>2, <1>3

(* The events the finals before n supersede.                                 *)
Used(list, n) == {list[m].supersedes : m \in 1 .. n - 1}

(* The loop of _final_pass.                                                  *)
LEMMA FinalsLoop ==
    ASSUME NEW list \in Seq(Emitted), NEW segments \in Seq(Segment)
    PROVE  LET done == Finals(list, segments)
           IN  /\ DOMAIN done = 1 .. Len(segments)
               /\ \A n \in 1 .. Len(segments) :
                     /\ done[n].segment = segments[n]
                     /\ done[n].supersedes = Superseded(list, segments[n], Used(done, n))
                     /\ done[n].supersedes \in 0 .. Len(list)
<1> DEFINE D == 1 .. Len(segments)
           V == 0 .. Len(list)
           Item(f, n) == Superseded(list, segments[n], {f[m] : m \in 1 .. n - 1})
           Solves(f) == f = [n \in D |-> Item(f, n)]
           done == Finals(list, segments)
           s == CHOOSE f : Solves(f)
<1>1. /\ Len(list) \in Nat /\ Len(segments) \in Nat /\ DOMAIN segments = D
      /\ \A n \in D : segments[n] \in Segment
  BY LenProperties, ElementOfSeq
<1>2. done = [n \in D |-> [segment |-> segments[n], supersedes |-> s[n]]]
  BY <1>1 DEF Finals
<1>3. \A n \in D : \A used : Superseded(list, segments[n], used) \in V
  <2>1. TAKE n \in D
  <2>2. TAKE used
  <2>3. \A k : Best(list, segments[n], used, k) => k \in V
    BY <1>1 DEF Best, Available
  <2>4. 0 \in V
    BY <1>1
  <2>5. QED
    BY <1>1, <2>3, <2>4, SupersededBest
<1>4. \E f : Solves(f)
  <2> DEFINE Lists == UNION {[1 .. k -> V] : k \in 0 .. Len(segments)}
             G == [p \in D \X Lists |->
                     Superseded(list, segments[p[1]], {p[2][m] : m \in 1 .. p[1] - 1})]
  <2>1. \A n \in D : \A h \in [1 .. n - 1 -> V] : G[<<n, h>>] = Item(h, n)
    <3>1. SUFFICES ASSUME NEW n \in D, NEW h \in [1 .. n - 1 -> V]
                   PROVE  G[<<n, h>>] = Item(h, n)
      OBVIOUS
    <3>2. n - 1 \in 0 .. Len(segments)
      BY <1>1
    <3>3. h \in Lists
      BY <3>2
    <3>4. <<n, h>> \in D \X Lists
      BY <3>3
    <3> HIDE DEF Lists, D, V
    <3>5. QED
      BY <3>4
  <2> HIDE DEF G, V
  <2>2. \A n \in 1 .. Len(segments) : \A h \in [1 .. n - 1 -> V] : G[<<n, h>>] \in V
    BY <1>3, <2>1
  <2>3. PICK f : Computes(f, Len(segments), V, G)
    BY <1>1, <2>2, RecursionExists
  <2>4. \A n \in D : f[n] = Item(f, n)
    <3>1. SUFFICES ASSUME NEW n \in D PROVE f[n] = Item(f, n)
      OBVIOUS
    <3> DEFINE h == [m \in 1 .. n - 1 |-> f[m]]
    <3>2. f \in [D -> V] /\ f[n] = G[<<n, h>>]
      BY <2>3 DEF Computes
    <3>3. h \in [1 .. n - 1 -> V]
      BY <1>1, <3>2
    <3>4. {h[m] : m \in 1 .. n - 1} = {f[m] : m \in 1 .. n - 1}
      OBVIOUS
    <3> HIDE DEF h
    <3>5. f[n] = Item(h, n)
      BY <2>1, <3>2, <3>3
    <3>6. QED
      BY <3>4, <3>5
  <2>5. f = [n \in D |-> f[n]]
    BY <2>3 DEF Computes
  <2> HIDE DEF Item, D
  <2>6. Solves(f)
    BY <2>4, <2>5
  <2> HIDE DEF Solves
  <2>7. QED
    BY <2>6
<1>5. Solves(s)
  <2> HIDE DEF Solves
  <2>1. QED
    BY <1>4
<1> HIDE DEF s
<1>6. \A n \in D : s[n] = Item(s, n)
  BY <1>5
<1> HIDE DEF Solves
<1>7. DOMAIN done = D /\ \A n \in D : done[n].segment = segments[n] /\ done[n].supersedes = s[n]
  BY <1>2
<1> HIDE DEF done
<1>8. \A n \in D : Used(done, n) = {s[m] : m \in 1 .. n - 1}
  <2>1. TAKE n \in D
  <2>2. \A m \in 1 .. n - 1 : m \in D
    BY <1>1
  <2>3. \A m \in 1 .. n - 1 : done[m].supersedes = s[m]
    BY <1>7, <2>2
  <2>4. QED
    BY <2>3 DEF Used
<1> HIDE DEF V
<1>9. \A n \in D : s[n] \in V
  BY <1>3, <1>6
<1>10. QED
  BY <1>6, <1>7, <1>8, <1>9 DEF V, done

-----------------------------------------------------------------------------
(* The final pass *)

(* The speech, the regions and the segments of the final pass.               *)
AllSpeech(sound) == SpeechUnits(sound, 0 .. Len(sound) - 1)
AllRegions(sound) == OverlapRegions(0 .. Len(sound) - 1, Turns(sound))
FinalSet(sound) ==
    Transcript(Runs(AllSpeech(sound)), AllRegions(sound), AllRegions(sound), Turns(sound))

(* The final pass transcribes all speech, and lists every segment once.      *)
LEMMA FinalSetFacts ==
    ASSUME NEW sound, sound \in Seq(Sounds)
    PROVE  /\ Transcribes(FinalSet(sound), Len(sound),
                          AllSpeech(sound) \ AllUnits(AllRegions(sound)),
                          AllRegions(sound), Turns(sound))
           /\ Enumerates(SortSegments(FinalSet(sound)), FinalSet(sound))
           /\ FinalSet(sound) \subseteq Segment
<1> DEFINE N == Len(sound)
           turns == Turns(sound)
           regions == AllRegions(sound)
           units == 0 .. N - 1
           speech == Runs(AllSpeech(sound))
           S == FinalSet(sound)
<1>1. TurnsOf(turns, N) /\ N \in Nat
  BY RecordedTurns
<1>2. AllSpeech(sound) \subseteq 0 .. N - 1
  BY DEF AllSpeech, SpeechUnits
<1>3. AllUnits(speech) = AllSpeech(sound)
  BY <1>1, <1>2, BoundedUnits, RunsPartition
<1>4. regions = OverlapRegions(units, turns)
  BY DEF AllRegions
<1>5. S = Transcript(speech, regions, regions, turns)
  BY DEF FinalSet
<1>6. units \subseteq 0 .. N - 1 /\ regions \subseteq regions
  OBVIOUS
<1> HIDE DEF N, turns, regions, units, speech, S
<1>7. Transcribes(S, N, AllUnits(speech) \ AllUnits(regions), regions, turns)
  BY <1>1, <1>2, <1>3, <1>4, <1>5, <1>6, TranscriptApart
<1>8. S \subseteq BoundedSegments(N) /\ Apart(S)
  BY <1>7 DEF Transcribes
<1>9. S \subseteq Segment
  BY <1>8 DEF BoundedSegments
<1>10. \A x, y \in S : x.start_ms = y.start_ms /\ x.speaker = y.speaker => x = y
  BY <1>1, <1>8, ApartKeys
<1>11. IsFiniteSet(S)
  BY <1>1, <1>8, BoundedSegmentsFinite, FS_Subset
<1>12. Enumerates(SortSegments(S), S)
  BY <1>9, <1>10, <1>11, SortSegmentsEnumerates
<1>13. QED
  BY <1>3, <1>7, <1>9, <1>12 DEF N, turns, regions, S

(* finalize publishes the segments of the whole recording.                   *)
LEMMA FinalSegmentsAre ==
    FinalSegments = SortSegments(FinalSet(audio))
  BY DEF FinalSegments, FinalSet, Transcript, AllSpeech, AllRegions, Now

-----------------------------------------------------------------------------
(* The session *)

(* The segments of a pass follow the ones that were sent before.             *)
Sends(q, decoded) ==
    /\ emitted' \in Seq(Emitted)
    /\ Len(emitted') = Len(emitted) + Len(q)
    /\ \A n \in 1 .. Len(emitted) : emitted'[n] = emitted[n]
    /\ \A n \in 1 .. Len(q) :
          /\ emitted'[Len(emitted) + n].segment = q[n].segment
          /\ emitted'[Len(emitted) + n].language = decoded

(* _emit_provisional appends the segments of a pass.                         *)
LEMMA Emission ==
    ASSUME NEW sound, NEW held, NEW force, Recorded(sound, held),
           emitted \in Seq(Emitted), emitted_until <= Len(sound),
           NEW decoded \in Languages \union {NoLanguage},
           EmitProvisional(Process(sound, held, force), decoded)
    PROVE  /\ Sends(Process(sound, held, force).sent, decoded)
           /\ emitted_until' = Process(sound, held, force).until
           /\ emitted_until' \in emitted_until .. Len(sound)
<1> DEFINE q == Process(sound, held, force).sent
           e == [n \in DOMAIN q |-> [segment |-> q[n].segment, language |-> decoded]]
<1>1. emitted' = emitted \o e /\ emitted_until' = Process(sound, held, force).until
  BY DEF EmitProvisional
<1>2. q \in Seq(Group(Len(sound)))
  <2>1. q \in Seq(Groups(sound, held, force))
    BY PassEnumerates DEF Enumerates
  <2>2. Groups(sound, held, force) \subseteq Group(Len(sound))
    BY PassEnumerates
  <2> HIDE DEF q
  <2>3. QED
    BY <2>1, <2>2, SeqMonotonic
<1>3. emitted_until' \in emitted_until .. Len(sound)
  BY <1>1, PassUntil
<1> HIDE DEF q
<1>4. /\ Len(q) \in Nat /\ DOMAIN q = 1 .. Len(q)
      /\ \A n \in 1 .. Len(q) : q[n] \in Group(Len(sound))
  BY <1>2, LenProperties, ElementOfSeq
<1>5. \A n \in 1 .. Len(q) : q[n].segment \in Segment
  BY <1>4 DEF Group, BoundedSegments
<1>6. e \in [1 .. Len(q) -> Emitted]
  BY <1>4, <1>5 DEF Emitted
<1>7. /\ \A n \in 1 .. Len(q) : e[n].segment = q[n].segment /\ e[n].language = decoded
  BY <1>4
<1> HIDE DEF e
<1>8. e \in Seq(Emitted) /\ Len(e) = Len(q)
  BY <1>4, <1>6, LenProperties
<1>9. /\ emitted \o e \in Seq(Emitted)
      /\ Len(emitted \o e) = Len(emitted) + Len(e)
      /\ \A n \in 1 .. Len(emitted) + Len(e) :
            (emitted \o e)[n] = IF n <= Len(emitted) THEN emitted[n] ELSE e[n - Len(emitted)]
  <2>1. emitted \in Seq(Emitted) /\ e \in Seq(Emitted)
    BY <1>8
  <2>2. QED
    BY <2>1, ConcatProperties, Zenon
<1>10. Len(emitted) \in Nat
  BY LenProperties
<1>11. \A n \in 1 .. Len(emitted) : emitted'[n] = emitted[n]
  BY <1>1, <1>4, <1>8, <1>9, <1>10
<1>12. \A n \in 1 .. Len(q) : emitted'[Len(emitted) + n] = e[n]
  BY <1>1, <1>4, <1>8, <1>9, <1>10
<1>13. QED
  BY <1>1, <1>3, <1>7, <1>8, <1>9, <1>11, <1>12 DEF Sends, q

(* Nothing is final before the session is.                                   *)
TypeInv ==
    /\ TypeOK
    /\ state # "FINALIZED" => finals = <<>>

(* A pass over the audio of the next state sends what it gives.              *)
Pass(force) ==
    /\ Recorded(audio', ring')
    /\ emitted_until <= Len(audio')
    /\ Sends(Process(audio', ring', force).sent, language')
    /\ emitted_until' = Process(audio', ring', force).until
    /\ emitted_until' \in emitted_until .. Len(audio')

(* What the types say of every part of the state.                            *)
LEMMA Types ==
    ASSUME TypeInv
    PROVE  /\ audio \in Seq(Sounds) /\ Now \in Nat /\ Len(audio) = Now
           /\ ring \in Nat /\ ring = Lesser(Now, Ring)
           /\ last_process \in Nat /\ last_process <= Now
           /\ emitted_until \in Nat /\ emitted_until <= Now
           /\ emitted \in Seq(Emitted) /\ Len(emitted) \in Nat
           /\ DOMAIN emitted = 1 .. Len(emitted)
           /\ \A n \in 1 .. Len(emitted) : emitted[n] \in Emitted
           /\ Ring \in Nat \ {0} /\ Hop \in Nat \ {0} /\ Window \in Nat \ {0}
           /\ CloseAfter \in Nat \ {0}
<1>1. /\ audio \in Seq(Sounds) /\ emitted \in Seq(Emitted)
      /\ ring = Lesser(Now, Ring) /\ last_process \in 0 .. Now /\ emitted_until \in 0 .. Now
  BY DEF TypeInv, TypeOK, Emitted
<1>2. /\ Now \in Nat /\ Len(emitted) \in Nat /\ DOMAIN emitted = 1 .. Len(emitted)
      /\ \A n \in 1 .. Len(emitted) : emitted[n] \in Emitted
  BY <1>1, LenProperties, ElementOfSeq DEF Now
<1>3. Ring \in Nat \ {0} /\ Hop \in Nat \ {0} /\ Window \in Nat \ {0} /\ CloseAfter \in Nat \ {0}
  BY WindowAssumption DEF StreamingConfig
<1>4. QED
  BY <1>1, <1>2, <1>3 DEF Now, Lesser

(* LanguageResolver keeps a pinned language.                                 *)
LEMMA ResolveType ==
    ASSUME NEW pinned \in Languages \union {NoLanguage}, NEW speech,
           NEW decided \in Resolve(pinned, speech)
    PROVE  /\ decided \in Languages \union {NoLanguage}
           /\ pinned # NoLanguage => decided = pinned
  BY DEF Resolve

(* push_pcm: the audio grows by a unit, and the ring buffer with it.         *)
LEMMA AudioGrows ==
    ASSUME TypeInv, NEW kind \in Sounds,
           audio' = Append(audio, kind), ring' = Lesser(ring + 1, Ring)
    PROVE  /\ audio' \in Seq(Sounds) /\ Len(audio') = Now + 1 /\ Now' = Now + 1
           /\ \A n \in 1 .. Now : audio'[n] = audio[n]
           /\ ring' = Lesser(Now', Ring) /\ ring' \in Nat
<1>1. audio \in Seq(Sounds) /\ Len(audio) = Now /\ Now \in Nat
  BY Types
<1>2. /\ audio' \in Seq(Sounds) /\ Len(audio') = Now + 1
      /\ \A n \in 1 .. Now : audio'[n] = audio[n]
  BY <1>1, AppendProperties
<1>3. Now' = Now + 1
  BY <1>2 DEF Now
<1>4. ring' = Lesser(Now', Ring) /\ ring' \in Nat
  BY <1>1, <1>3, Types DEF Lesser
<1>5. QED
  BY <1>2, <1>3, <1>4

(* push_pcm at a hop is a pass over the audio with the new unit.             *)
LEMMA PushPasses ==
    ASSUME TypeInv, NEW kind \in Sounds, PushAndProcess(kind)
    PROVE  Pass(FALSE) /\ language' \in Languages \union {NoLanguage}
<1>1. /\ audio' = Append(audio, kind) /\ ring' = Lesser(ring + 1, Ring)
      /\ language' \in Resolve(language, SpeechUnits(audio', WindowUnits(audio', ring')))
      /\ EmitProvisional(Process(audio', ring', FALSE), language')
  BY DEF PushAndProcess
<1>2. language' \in Languages \union {NoLanguage}
  BY <1>1, ResolveType DEF TypeInv, TypeOK
<1>3. Recorded(audio', ring') /\ emitted_until <= Len(audio')
  BY <1>1, AudioGrows, Types DEF Recorded
<1>4. emitted \in Seq(Emitted)
  BY Types
<1>5. QED
  BY <1>1, <1>2, <1>3, <1>4, Emission DEF Pass

(* The forced pass of finalize is over the same audio.                       *)
LEMMA ForcedPasses ==
    ASSUME TypeInv, ForcedProcess, UNCHANGED <<audio, ring>>
    PROVE  Pass(TRUE) /\ language' \in Languages \union {NoLanguage}
<1>1. /\ language' \in Resolve(language, SpeechUnits(audio, WindowUnits(audio, ring)))
      /\ EmitProvisional(Process(audio, ring, TRUE), language')
  BY DEF ForcedProcess
<1>2. language' \in Languages \union {NoLanguage}
  BY <1>1, ResolveType DEF TypeInv, TypeOK
<1>3. Recorded(audio, ring) /\ emitted_until <= Len(audio)
  BY Types DEF Recorded
<1>4. emitted \in Seq(Emitted)
  BY Types
<1>5. /\ Sends(Process(audio, ring, TRUE).sent, language')
      /\ emitted_until' = Process(audio, ring, TRUE).until
      /\ emitted_until' \in emitted_until .. Len(audio)
  BY <1>1, <1>2, <1>3, <1>4, Emission
<1>6. QED
  BY <1>2, <1>3, <1>5 DEF Pass

(* What Finalize publishes.                                                  *)
Published(decoded) ==
    LET segments == SortSegments(FinalSet(audio))
    IN  /\ Enumerates(segments, FinalSet(audio)) /\ FinalSet(audio) \subseteq Segment
        /\ DOMAIN finals' = 1 .. Len(segments) /\ finals' \in Seq([segment : Segment,
                language : Languages \union {NoLanguage}, supersedes : 0 .. Len(emitted')])
        /\ \A n \in 1 .. Len(segments) :
              /\ finals'[n].segment = segments[n]
              /\ finals'[n].language = decoded
              /\ finals'[n].supersedes
                   = Superseded(emitted', finals'[n].segment, Used(finals', n))

(* finalize is a forced pass and the published result.                       *)
LEMMA FinalizePublishes ==
    ASSUME TypeInv, Finalize
    PROVE  /\ Pass(TRUE) /\ language' \in Languages \union {NoLanguage}
           /\ \E decoded \in Resolve(PinLanguage(NoLanguage, language'), AllSpeech(audio)) :
                 Published(decoded)
<1>1. Pass(TRUE) /\ language' \in Languages \union {NoLanguage}
  BY ForcedPasses DEF Finalize
<1> DEFINE segments == SortSegments(FinalSet(audio))
           list == Finals(emitted', segments)
<1>2. PICK decoded \in Resolve(PinLanguage(NoLanguage, language'), AllSpeech(audio)) :
          finals' = [n \in DOMAIN list |-> [segment |-> list[n].segment, language |-> decoded,
                                            supersedes |-> list[n].supersedes]]
  BY FinalSegmentsAre DEF Finalize, AllSpeech, Now
<1>3. Enumerates(segments, FinalSet(audio)) /\ FinalSet(audio) \subseteq Segment
  BY FinalSetFacts, Types
<1>4. segments \in Seq(Segment)
  BY <1>3, SeqMonotonic DEF Enumerates
<1>5. emitted' \in Seq(Emitted)
  BY <1>1 DEF Pass, Sends
<1> HIDE DEF segments
<1>6. /\ DOMAIN list = 1 .. Len(segments)
      /\ \A n \in 1 .. Len(segments) :
            /\ list[n].segment = segments[n]
            /\ list[n].supersedes = Superseded(emitted', segments[n], Used(list, n))
            /\ list[n].supersedes \in 0 .. Len(emitted')
  BY <1>4, <1>5, FinalsLoop
<1> HIDE DEF list
<1>7. Len(segments) \in Nat /\ \A n \in 1 .. Len(segments) : segments[n] \in Segment
  BY <1>4, LenProperties, ElementOfSeq
<1>8. /\ DOMAIN finals' = 1 .. Len(segments)
      /\ \A n \in 1 .. Len(segments) :
            /\ finals'[n] = [segment |-> segments[n], language |-> decoded,
                             supersedes |-> list[n].supersedes]
            /\ finals'[n].segment = segments[n] /\ finals'[n].language = decoded
            /\ finals'[n].supersedes = list[n].supersedes
  BY <1>2, <1>6
<1>9. decoded \in Languages \union {NoLanguage}
  <2>1. PinLanguage(NoLanguage, language') \in Languages \union {NoLanguage}
    BY <1>1 DEF PinLanguage
  <2>2. QED
    BY <1>2, <2>1, ResolveType
<1> DEFINE T == [segment : Segment, language : Languages \union {NoLanguage},
                 supersedes : 0 .. Len(emitted')]
<1>10. finals' \in Seq(T)
  <2>1. \A n \in 1 .. Len(segments) : finals'[n] \in T
    BY <1>6, <1>7, <1>8, <1>9
  <2> HIDE DEF T
  <2>2. finals' = [n \in 1 .. Len(segments) |-> finals'[n]]
    BY <1>2, <1>6
  <2>3. finals' \in [1 .. Len(segments) -> T]
    BY <2>1, <2>2
  <2>4. QED
    BY <1>7, <2>3
<1>11. \A n \in 1 .. Len(segments) : Used(finals', n) = Used(list, n)
  <2>1. TAKE n \in 1 .. Len(segments)
  <2>2. \A m \in 1 .. n - 1 : finals'[m].supersedes = list[m].supersedes
    BY <1>7, <1>8
  <2>3. QED
    BY <2>2 DEF Used
<1>12. \A n \in 1 .. Len(segments) :
          finals'[n].supersedes = Superseded(emitted', finals'[n].segment, Used(finals', n))
  BY <1>6, <1>8, <1>11
<1>13. Published(decoded)
  BY <1>3, <1>8, <1>10, <1>12 DEF Published, segments
<1>14. QED
  BY <1>1, <1>13

(* A pass keeps the types of what was sent.                                  *)
LEMMA PassTypes ==
    ASSUME NEW force, Pass(force)
    PROVE  /\ emitted' \in Seq([segment : Segment, language : Languages \union {NoLanguage}])
           /\ emitted_until' \in 0 .. Len(audio')
<1>1. emitted_until \in Nat
  BY DEF Pass, Recorded
<1>2. QED
  BY <1>1 DEF Pass, Sends, Emitted

(* Every handler keeps the types.                                            *)
LEMMA TypeKeeps ==
    ASSUME TypeInv, [Next]_vars
    PROVE  TypeInv'
<1> USE DEF Now
<1>1. CASE UNCHANGED vars
  BY <1>1 DEF TypeInv, TypeOK, vars
<1>2. ASSUME NEW kind \in Sounds, Push(kind) PROVE TypeInv'
  <2>1. /\ audio' = Append(audio, kind) /\ ring' = Lesser(ring + 1, Ring) /\ state = "STREAMING"
        /\ UNCHANGED <<last_process, emitted_until, emitted, state, language, finals, failed>>
    BY <1>2 DEF Push
  <2>2. audio' \in Seq(Sounds) /\ Now' = Now + 1 /\ ring' = Lesser(Now', Ring)
    BY <2>1, AudioGrows
  <2>3. last_process' \in 0 .. Now' /\ emitted_until' \in 0 .. Now'
    BY <2>1, <2>2, Types
  <2>4. QED
    BY <2>1, <2>2, <2>3 DEF TypeInv, TypeOK
<1>3. ASSUME NEW kind \in Sounds, PushAndProcess(kind) PROVE TypeInv'
  <2>1. /\ audio' = Append(audio, kind) /\ ring' = Lesser(ring + 1, Ring) /\ state = "STREAMING"
        /\ UNCHANGED <<state, finals, failed>> /\ last_process' = Now + 1
    BY <1>3 DEF PushAndProcess
  <2>2. /\ audio' \in Seq(Sounds) /\ Now' = Now + 1 /\ ring' = Lesser(Now', Ring)
        /\ Now \in Nat
    BY <2>1, AudioGrows, Types
  <2>3. Pass(FALSE) /\ language' \in Languages \union {NoLanguage}
    BY <1>3, PushPasses
  <2>4. /\ emitted' \in Seq([segment : Segment, language : Languages \union {NoLanguage}])
        /\ emitted_until' \in 0 .. Now'
    BY <2>3, PassTypes
  <2>5. finals = <<>> /\ failed \in BOOLEAN
    BY <2>1 DEF TypeInv, TypeOK
  <2>6. finals' \in Seq([segment : Segment, language : Languages \union {NoLanguage},
                         supersedes : 0 .. Len(emitted')])
    BY <2>1, <2>5
  <2>7. last_process' \in 0 .. Now'
    BY <2>1, <2>2
  <2>8. QED
    BY <2>1, <2>2, <2>3, <2>4, <2>5, <2>6, <2>7 DEF TypeInv, TypeOK
<1>4. ASSUME NEW kind \in Sounds, PushFails(kind) PROVE TypeInv'
  <2>1. /\ audio' = Append(audio, kind) /\ ring' = Lesser(ring + 1, Ring) /\ state = "STREAMING"
        /\ UNCHANGED <<emitted_until, emitted, state, finals>> /\ last_process' = Now + 1
        /\ failed' = TRUE
        /\ language' \in Resolve(language, SpeechUnits(audio', WindowUnits(audio', ring')))
    BY <1>4 DEF PushFails
  <2>2. audio' \in Seq(Sounds) /\ Now' = Now + 1 /\ ring' = Lesser(Now', Ring)
    BY <2>1, AudioGrows
  <2>3. last_process' \in 0 .. Now' /\ emitted_until' \in 0 .. Now'
    BY <2>1, <2>2, Types
  <2>4. language' \in Languages \union {NoLanguage}
    BY <2>1, ResolveType DEF TypeInv, TypeOK
  <2>5. QED
    BY <2>1, <2>2, <2>3, <2>4 DEF TypeInv, TypeOK
<1>5. CASE Finalize
  <2>1. /\ UNCHANGED <<audio, ring, failed>> /\ state' = "FINALIZED" /\ last_process' = Now
    BY <1>5 DEF Finalize, ForcedProcess
  <2>2. Pass(TRUE) /\ language' \in Languages \union {NoLanguage}
    BY <1>5, FinalizePublishes
  <2>3. finals' \in Seq([segment : Segment, language : Languages \union {NoLanguage},
                         supersedes : 0 .. Len(emitted')])
    BY <1>5, FinalizePublishes DEF Published
  <2>4. /\ emitted' \in Seq([segment : Segment, language : Languages \union {NoLanguage}])
        /\ emitted_until' \in 0 .. Now'
    BY <2>2, PassTypes
  <2>5. Now' = Now /\ last_process' \in 0 .. Now'
    BY <2>1, Types
  <2>6. QED
    BY <2>1, <2>2, <2>3, <2>4, <2>5 DEF TypeInv, TypeOK
<1>6. CASE FinalizeFails
  <2>1. /\ UNCHANGED <<audio, ring, finals>> /\ state' = "FINALIZING" /\ failed' = TRUE
        /\ last_process' = Now /\ state # "FINALIZED"
    BY <1>6 DEF FinalizeFails, ForcedProcess, ForcedProcessFails
  <2>2. /\ language' \in Languages \union {NoLanguage}
        /\ emitted' \in Seq([segment : Segment, language : Languages \union {NoLanguage}])
        /\ emitted_until' \in 0 .. Now'
    <3>1. CASE ForcedProcess
      BY <2>1, <3>1, ForcedPasses, PassTypes
    <3>2. CASE ForcedProcessFails
      <4>1. /\ language' \in Resolve(language, SpeechUnits(audio, WindowUnits(audio, ring)))
            /\ UNCHANGED <<emitted_until, emitted>>
        BY <3>2 DEF ForcedProcessFails
      <4>2. QED
        BY <2>1, <4>1, ResolveType DEF TypeInv, TypeOK
    <3>3. QED
      BY <1>6, <3>1, <3>2 DEF FinalizeFails
  <2>3. finals = <<>> /\ finals' = <<>>
    BY <2>1 DEF TypeInv
  <2>4. finals' \in Seq([segment : Segment, language : Languages \union {NoLanguage},
                         supersedes : 0 .. Len(emitted')])
    BY <2>3
  <2>5. Now' = Now /\ last_process' \in 0 .. Now'
    BY <2>1, Types
  <2>6. QED
    BY <2>1, <2>2, <2>3, <2>4, <2>5 DEF TypeInv, TypeOK
<1>7. QED
  BY <1>1, <1>2, <1>3, <1>4, <1>5, <1>6 DEF Next

(* A session starts with the types.                                          *)
LEMMA TypeInit ==
    ASSUME Init
    PROVE  TypeInv
<1>1. Now = 0 /\ audio \in Seq(Sounds)
  BY DEF Init, Now
<1>2. ring = Lesser(Now, Ring)
  BY <1>1, WindowAssumption DEF Init, Lesser, StreamingConfig
<1>3. /\ last_process \in 0 .. Now /\ emitted_until \in 0 .. Now
      /\ state \in {"STREAMING", "FINALIZING", "FINALIZED"} /\ failed \in BOOLEAN
      /\ language \in Languages \union {NoLanguage}
  <2>1. last_process \in 0 .. Now /\ emitted_until \in 0 .. Now
    BY <1>1 DEF Init
  <2>2. failed \in BOOLEAN
    BY Zenon DEF Init
  <2>3. QED
    BY <2>1, <2>2, Zenon DEF Init
<1>4. emitted = <<>> /\ finals = <<>>
  BY DEF Init
<1>5. \A S : <<>> \in Seq(S)
  OBVIOUS
<1>6. QED
  BY <1>1, <1>2, <1>3, <1>4, <1>5, Zenon DEF TypeInv, TypeOK

(* The state of a streaming session keeps its types: in particular every     *)
(* pass gives finitely many segments of known speakers inside the audio, and *)
(* a final supersedes an event that exists.                                  *)
THEOREM TypeCorrect == Spec => []TypeOK
<1>1. Init => TypeInv
  BY TypeInit
<1>2. TypeInv /\ [Next]_vars => TypeInv'
  BY TypeKeeps
<1>3. TypeInv => TypeOK
  BY DEF TypeInv
<1>4. QED
  BY <1>1, <1>2, <1>3, PTL DEF Spec

-----------------------------------------------------------------------------
(* Languages *)

(* The pipeline is pinned to whatever language was used once.                *)
LanguageInv ==
    /\ \A m \in 1 .. Len(emitted) : emitted[m].language # NoLanguage =>
          /\ language = emitted[m].language
          /\ \A n \in m .. Len(emitted) : emitted[n].language = emitted[m].language
    /\ \A f \in DOMAIN finals : language # NoLanguage => finals[f].language = language

(* A pass in the pinned language keeps the provisional segments in one       *)
(* language.                                                                 *)
LEMMA PassLanguage ==
    ASSUME TypeInv, LanguageInv, NEW force, Pass(force),
           language # NoLanguage => language' = language
    PROVE  \A m \in 1 .. Len(emitted') : emitted'[m].language # NoLanguage =>
              /\ language' = emitted'[m].language
              /\ \A n \in m .. Len(emitted') : emitted'[n].language = emitted'[m].language
<1> DEFINE q == Process(audio', ring', force).sent
           K == Len(emitted)
<1>1. Recorded(audio', ring') /\ Sends(q, language')
  BY DEF Pass
<1>2. Len(q) \in Nat /\ K \in Nat
  <2>1. q \in Seq(Groups(audio', ring', force))
    BY <1>1, PassEnumerates DEF Enumerates
  <2>2. QED
    BY <2>1, LenProperties, Types
<1> HIDE DEF q, K
<1>3. /\ Len(emitted') = K + Len(q)
      /\ \A n \in 1 .. K : emitted'[n] = emitted[n]
      /\ \A n \in 1 .. Len(q) : emitted'[K + n].language = language'
  BY <1>1 DEF Sends, K
<1>4. \A n \in 1 .. K + Len(q) : n > K => emitted'[n].language = language'
  <2>1. SUFFICES ASSUME NEW n \in 1 .. K + Len(q), n > K
                 PROVE  emitted'[n].language = language'
    OBVIOUS
  <2>2. n - K \in 1 .. Len(q) /\ K + (n - K) = n
    BY <1>2, <2>1
  <2>3. QED
    BY <1>3, <2>2
<1>5. SUFFICES ASSUME NEW m \in 1 .. K + Len(q), emitted'[m].language # NoLanguage
               PROVE  /\ language' = emitted'[m].language
                      /\ \A n \in m .. K + Len(q) : emitted'[n].language = emitted'[m].language
  BY <1>3
<1>6. CASE m > K
  <2>1. emitted'[m].language = language'
    BY <1>4, <1>6
  <2>2. \A n \in m .. K + Len(q) : n \in 1 .. K + Len(q) /\ n > K
    BY <1>2, <1>6
  <2>3. QED
    BY <1>4, <2>1, <2>2
<1>7. CASE ~ (m > K)
  <2>1. m \in 1 .. K /\ emitted'[m] = emitted[m]
    BY <1>2, <1>3, <1>7
  <2>2. /\ language = emitted[m].language
        /\ \A n \in m .. K : emitted[n].language = emitted[m].language
    BY <1>5, <2>1 DEF LanguageInv, K
  <2>3. language' = emitted[m].language
    BY <1>5, <2>1, <2>2
  <2>4. \A n \in m .. K + Len(q) : emitted'[n].language = emitted'[m].language
    <3>1. TAKE n \in m .. K + Len(q)
    <3>2. CASE n > K
      BY <1>2, <1>4, <2>1, <2>3, <3>2
    <3>3. CASE ~ (n > K)
      <4>1. n \in m .. K /\ n \in 1 .. K
        BY <1>2, <2>1, <3>3
      <4>2. QED
        BY <1>3, <2>1, <2>2, <4>1
    <3>4. QED
      BY <3>2, <3>3
  <2>5. QED
    BY <2>1, <2>3, <2>4
<1>8. QED
  BY <1>6, <1>7

(* Every handler keeps the pinned language.                                  *)
LEMMA LanguageKeeps ==
    ASSUME TypeInv, LanguageInv, [Next]_vars
    PROVE  LanguageInv'
<1>0. language \in Languages \union {NoLanguage}
  BY DEF TypeInv, TypeOK
<1>1. CASE UNCHANGED vars
  BY <1>1 DEF LanguageInv, vars
<1>2. ASSUME NEW kind \in Sounds, Push(kind) PROVE LanguageInv'
  BY <1>2 DEF Push, LanguageInv
<1>3. ASSUME NEW kind \in Sounds, PushAndProcess(kind) PROVE LanguageInv'
  <2>1. /\ language' \in Resolve(language, SpeechUnits(audio', WindowUnits(audio', ring')))
        /\ finals' = <<>>
    BY <1>3 DEF PushAndProcess, TypeInv
  <2>2. language # NoLanguage => language' = language
    BY <1>0, <2>1, ResolveType
  <2>3. Pass(FALSE)
    BY <1>3, PushPasses
  <2>4. DOMAIN finals' = {}
    BY <2>1
  <2>5. QED
    BY <2>2, <2>3, <2>4, PassLanguage DEF LanguageInv
<1>4. ASSUME NEW kind \in Sounds, PushFails(kind) PROVE LanguageInv'
  <2>1. /\ language' \in Resolve(language, SpeechUnits(audio', WindowUnits(audio', ring')))
        /\ finals' = <<>> /\ emitted' = emitted
    BY <1>4 DEF PushFails, TypeInv
  <2>2. language # NoLanguage => language' = language
    BY <1>0, <2>1, ResolveType
  <2>3. DOMAIN finals' = {}
    BY <2>1
  <2>4. QED
    BY <2>1, <2>2, <2>3 DEF LanguageInv
<1>5. CASE Finalize
  <2>1. language' \in Resolve(language, SpeechUnits(audio, WindowUnits(audio, ring)))
    BY <1>5 DEF Finalize, ForcedProcess
  <2>2. language # NoLanguage => language' = language
    BY <1>0, <2>1, ResolveType
  <2>3. Pass(TRUE) /\ language' \in Languages \union {NoLanguage}
    BY <1>5, FinalizePublishes
  <2>4. PICK decoded \in Resolve(PinLanguage(NoLanguage, language'), AllSpeech(audio)) :
            Published(decoded)
    BY <1>5, FinalizePublishes
  <2>5. language' # NoLanguage => decoded = language'
    <3>1. SUFFICES ASSUME language' # NoLanguage PROVE decoded = language'
      OBVIOUS
    <3>2. PinLanguage(NoLanguage, language') = language'
      BY <3>1 DEF PinLanguage
    <3>3. QED
      BY <2>3, <2>4, <3>1, <3>2, ResolveType
  <2>6. \A f \in DOMAIN finals' : finals'[f].language = decoded
    BY <2>4 DEF Published
  <2>7. QED
    BY <2>2, <2>3, <2>5, <2>6, PassLanguage DEF LanguageInv
<1>6. CASE FinalizeFails
  <2>1. finals' = <<>> /\ UNCHANGED <<audio, ring>>
    BY <1>6 DEF FinalizeFails, ForcedProcess, ForcedProcessFails, TypeInv
  <2>2. DOMAIN finals' = {}
    BY <2>1
  <2>3. CASE ForcedProcess
    <3>1. language' \in Resolve(language, SpeechUnits(audio, WindowUnits(audio, ring)))
      BY <2>3 DEF ForcedProcess
    <3>2. language # NoLanguage => language' = language
      BY <1>0, <3>1, ResolveType
    <3>3. Pass(TRUE)
      BY <2>1, <2>3, ForcedPasses
    <3>4. QED
      BY <2>2, <3>2, <3>3, PassLanguage DEF LanguageInv
  <2>4. CASE ForcedProcessFails
    <3>1. /\ language' \in Resolve(language, SpeechUnits(audio, WindowUnits(audio, ring)))
          /\ emitted' = emitted
      BY <2>4 DEF ForcedProcessFails
    <3>2. language # NoLanguage => language' = language
      BY <1>0, <3>1, ResolveType
    <3>3. QED
      BY <2>2, <3>1, <3>2 DEF LanguageInv
  <2>5. QED
    BY <1>6, <2>3, <2>4 DEF FinalizeFails
<1>7. QED
  BY <1>1, <1>2, <1>3, <1>4, <1>5, <1>6 DEF Next

(* LanguageCommitted: once a segment was decoded in a pinned language, every *)
(* later provisional and every final is in that language, through failing    *)
(* passes and repeated finalizes (resolve_session_language, pin_language).   *)
THEOREM LanguageFixed == Spec => []LanguageCommitted
<1>1. Init => TypeInv /\ LanguageInv
  <2>1. SUFFICES ASSUME Init PROVE LanguageInv
    BY TypeInit
  <2>2. Len(emitted) = 0 /\ DOMAIN finals = {}
    BY <2>1 DEF Init
  <2>3. QED
    BY <2>2 DEF LanguageInv
<1>2. TypeInv /\ LanguageInv /\ [Next]_vars => (TypeInv /\ LanguageInv)'
  BY TypeKeeps, LanguageKeeps
<1>3. TypeInv /\ LanguageInv => LanguageCommitted
  <2>1. SUFFICES ASSUME TypeInv, LanguageInv PROVE LanguageCommitted
    OBVIOUS
  <2>2. DOMAIN emitted = 1 .. Len(emitted)
    BY <2>1, Types
  <2>3. QED
    BY <2>1, <2>2 DEF LanguageInv, LanguageCommitted
<1>4. QED
  BY <1>1, <1>2, <1>3, PTL DEF Spec

-----------------------------------------------------------------------------
(* What is sent is over: no later pass reaches back behind it *)

(* An interval of U that has a unit of a run lies in the run.                *)
LEMMA IntervalInRun ==
    ASSUME NEW U, NEW i, IsRun(i, U), NEW j \in AnInterval, Units(j) \subseteq U,
           NEW t \in Units(i), t \in Units(j)
    PROVE  i.start_ms <= j.start_ms /\ j.end_ms <= i.end_ms /\ Units(j) \subseteq Units(i)
<1>1. /\ i.start_ms \in Nat /\ i.end_ms \in Nat /\ j.start_ms \in Nat /\ j.end_ms \in Nat
      /\ i.start_ms - 1 \notin U /\ i.end_ms \notin U
  BY DEF IsRun, AnInterval
<1>2. t \in Nat /\ i.start_ms <= t /\ t < i.end_ms /\ j.start_ms <= t /\ t < j.end_ms
  BY <1>1 DEF Units
<1>3. i.start_ms <= j.start_ms
  <2>1. SUFFICES ASSUME j.start_ms < i.start_ms PROVE FALSE
    BY <1>1
  <2>2. i.start_ms - 1 \in Units(j)
    BY <1>1, <1>2, <2>1 DEF Units
  <2>3. QED
    BY <1>1, <2>2
<1>4. j.end_ms <= i.end_ms
  <2>1. SUFFICES ASSUME i.end_ms < j.end_ms PROVE FALSE
    BY <1>1
  <2>2. i.end_ms \in Units(j)
    BY <1>1, <1>2, <2>1 DEF Units
  <2>3. QED
    BY <1>1, <2>2
<1>5. QED
  BY <1>1, <1>3, <1>4 DEF Units

(* Where the speech that was sent ends, there is silence, or the audio ends. *)
Quiet(sound) ==
    \/ emitted_until = 0
    \/ emitted_until < Len(sound) /\ sound[emitted_until + 1] = Silence
    \/ emitted_until = Len(sound)

(* So a closed interval has not been sent in part.                           *)
LEMMA PendingWhole ==
    ASSUME NEW sound, NEW held, NEW force, Recorded(sound, held), Quiet(sound),
           NEW i \in ClosedRuns(sound, held, force)
    PROVE  emitted_until <= i.start_ms /\ Units(Pending(i)) = Units(i)
<1>0. IsRun(i, Speech(sound, held)) /\ Piece(i, Len(sound))
  BY ClosedFacts
<1>1. i.start_ms \in Nat /\ i.end_ms \in Nat /\ emitted_until < i.end_ms
  BY ClosedFacts
<1>2. emitted_until \in Nat /\ Len(sound) \in Nat /\ i.end_ms <= Len(sound)
  BY <1>0, <1>1, RecordedTurns DEF Recorded, Piece
<1>3. emitted_until <= i.start_ms
  <2>1. SUFFICES ASSUME i.start_ms < emitted_until PROVE FALSE
    BY <1>1, <1>2
  <2>2. emitted_until \in Units(i)
    BY <1>1, <1>2, <2>1, UnitsOf
  <2>3. emitted_until \in Speech(sound, held)
    BY <1>0, <2>2 DEF IsRun
  <2>4. sound[emitted_until + 1] # Silence
    BY <2>3 DEF Speech, SpeechUnits
  <2>5. QED
    BY <1>1, <1>2, <2>1, <2>4 DEF Quiet
<1>4. Pending(i).start_ms = i.start_ms /\ Pending(i).end_ms = i.end_ms
  BY <1>1, <1>2, <1>3 DEF Greater, Pending, Interval
<1>5. QED
  BY <1>3, <1>4 DEF Units

(* Several speakers at once are speech.                                      *)
LEMMA OverlapIsSpeech ==
    ASSUME NEW sound, sound \in Seq(Sounds), NEW units, units \subseteq 0 .. Len(sound) - 1
    PROVE  Overlapped(units, Turns(sound)) \subseteq SpeechUnits(sound, units)
<1>1. SUFFICES ASSUME NEW t \in Overlapped(units, Turns(sound)), sound[t + 1] = Silence
               PROVE  FALSE
  BY DEF Overlapped, SpeechUnits
<1>2. t \in units /\ Cardinality(Turns(sound)[t]) > 1
  BY <1>1 DEF Overlapped
<1>3. Turns(sound)[t] = {}
  BY <1>1, <1>2, RecordedTurns
<1>4. QED
  BY <1>2, <1>3, FS_EmptySet

(* Units of speech that a merge could connect have no silence between them.  *)
LongSilences(sound) ==
    \A a, b \in AllSpeech(sound) : b - a <= MergeGap + 1 => a .. b \subseteq AllSpeech(sound)

(* Where no gaps are closed, that is always so.                              *)
LEMMA NoGapsToClose ==
    ASSUME NEW sound, MergeGap = 0
    PROVE  LongSilences(sound)
<1>1. SUFFICES ASSUME NEW a \in AllSpeech(sound), NEW b \in AllSpeech(sound), b - a <= 1,
                      NEW t \in a .. b
               PROVE  t \in AllSpeech(sound)
  BY DEF LongSilences
<1>2. a \in Int /\ b \in Int
  BY DEF AllSpeech, SpeechUnits
<1>3. t = a \/ t = b
  BY <1>1, <1>2
<1>4. QED
  BY <1>3

(* The speech of a window is the speech of the recording that is in it.      *)
LEMMA WindowSpeech ==
    ASSUME NEW sound, NEW held, Recorded(sound, held), NEW t
    PROVE  t \in Speech(sound, held)
             <=> t \in AllSpeech(sound) /\ t \in WindowUnits(sound, held)
  BY WindowInside DEF Speech, AllSpeech, SpeechUnits

(* A window has no holes.                                                    *)
LEMMA WindowConvex ==
    ASSUME NEW sound, NEW held, Recorded(sound, held),
           NEW a \in WindowUnits(sound, held), NEW t \in Nat, a <= t, t < Len(sound)
    PROVE  t \in WindowUnits(sound, held)
<1> DEFINE low == Greater(0, Len(sound) - Lesser(Window, held))
<1>1. WindowUnits(sound, held) = low .. Len(sound) - 1
  BY DEF WindowUnits
<1>2. low \in Int /\ Len(sound) \in Nat
  BY RecordedTurns, WindowAssumption DEF Greater, Lesser, Recorded, StreamingConfig
<1> HIDE DEF low
<1>3. QED
  BY <1>1, <1>2

(* So a region is speech throughout.                                         *)
LEMMA RegionsAreSpeech ==
    ASSUME NEW sound, NEW held, Recorded(sound, held), LongSilences(sound),
           NEW r \in Regions(sound, held)
    PROVE  r \in AnInterval /\ Units(r) \subseteq Speech(sound, held)
<1> DEFINE units == WindowUnits(sound, held)
           O == Overlapped(units, Turns(sound))
           M == Merged(units, Turns(sound))
<1>1. /\ units \subseteq 0 .. Len(sound) - 1 /\ TurnsOf(Turns(sound), Len(sound))
      /\ Len(sound) \in Nat
  BY WindowInside, RecordedTurns DEF Recorded
<1>2. r \in Runs(M)
  BY <1>1, RegionsAre DEF Regions
<1>3. /\ M \subseteq 0 .. Len(sound) - 1
      /\ \A t \in M : \E a, b \in O : t \in a .. b /\ b - a <= MergeGap + 1
  BY <1>1, MergedBetween
<1>4. O \subseteq Speech(sound, held) /\ O \subseteq units
  BY <1>1, OverlapIsSpeech DEF Recorded, Speech, Overlapped
<1> HIDE DEF O, M
<1>5. IsRun(r, M)
  BY <1>1, <1>2, <1>3, BoundedUnits, RunsPartition
<1>6. ASSUME NEW t \in M PROVE t \in Speech(sound, held)
  <2>1. PICK a \in O : \E b \in O : t \in a .. b /\ b - a <= MergeGap + 1
    BY <1>3, <1>6
  <2>2. PICK b \in O : t \in a .. b /\ b - a <= MergeGap + 1
    BY <2>1
  <2>3. a \in AllSpeech(sound) /\ b \in AllSpeech(sound) /\ a \in units
    BY <1>4, WindowSpeech
  <2>4. t \in AllSpeech(sound)
    BY <2>2, <2>3 DEF LongSilences
  <2>5. t \in Nat /\ t < Len(sound) /\ a \in Nat /\ a <= t
    BY <1>1, <1>3, <1>6, <2>2, <2>3
  <2>6. t \in units
    BY <2>3, <2>5, WindowConvex
  <2>7. QED
    BY <2>4, <2>6, WindowSpeech
<1>7. QED
  BY <1>5, <1>6 DEF IsRun

(* And lies in one interval of speech.                                       *)
LEMMA RegionInRun ==
    ASSUME NEW sound, NEW held, Recorded(sound, held), LongSilences(sound),
           NEW r \in Regions(sound, held), NEW i, IsRun(i, Speech(sound, held)),
           NEW t \in Units(i), t \in Units(r)
    PROVE  Units(r) \subseteq Units(i)
<1>1. r \in AnInterval /\ Units(r) \subseteq Speech(sound, held)
  BY RegionsAreSpeech
<1>2. QED
  BY <1>1, IntervalInRun

(* A region is handled for an interval it has a unit of.                     *)
LEMMA HandledMeets ==
    ASSUME NEW sound, NEW held, NEW force, Recorded(sound, held),
           NEW i \in ClosedRuns(sound, held, force), NEW r \in Handled(sound, held, force, i)
    PROVE  /\ r \in Regions(sound, held)
           /\ \E t \in Units(Pending(i)) : t \in Units(r)
<1>1. r \in Regions(sound, held) /\ Clamp(r, Pending(i)) # {}
  BY DEF Handled
<1>2. Piece(r, Len(sound)) /\ Piece(Pending(i), Len(sound))
  BY <1>1, WindowInside, RecordedTurns, RegionsApart, ClosedFacts DEF Recorded, Regions
<1> DEFINE p == Pending(i)
<1> HIDE DEF p
<1>3. /\ r.start_ms \in Nat /\ r.end_ms \in Nat /\ r.start_ms < r.end_ms
      /\ p.start_ms \in Nat /\ p.end_ms \in Nat /\ p.start_ms < p.end_ms
  BY <1>2 DEF p, Piece, AnInterval
<1>4. Intersects(p, r)
  BY <1>1, <1>3 DEF p, Clamp, Intersects, Greater, Lesser
<1>5. QED
  BY <1>1, <1>3, <1>4, IntersectsHasUnit DEF p

(* What a closed interval gives lies in the interval.                        *)
LEMMA GivenInside ==
    ASSUME NEW sound, NEW held, NEW force, Recorded(sound, held), Quiet(sound),
           LongSilences(sound),
           NEW i \in ClosedRuns(sound, held, force), NEW x \in Given(sound, held, force, i)
    PROVE  Units(x) \subseteq Units(i)
<1>0. IsRun(i, Speech(sound, held))
  BY ClosedFacts
<1>1. Units(Pending(i)) = Units(i)
  BY PendingWhole
<1>2. \/ Units(x) \subseteq Units(Pending(i)) \ AllUnits(Regions(sound, held))
      \/ \E r \in Handled(sound, held, force, i) : x \in Sources(r, Turns(sound))
  BY GivenFacts DEF Transcribes
<1>3. ASSUME NEW r \in Handled(sound, held, force, i), x \in Sources(r, Turns(sound))
      PROVE  Units(x) \subseteq Units(i)
  <2>1. r \in Regions(sound, held) /\ \E t \in Units(i) : t \in Units(r)
    BY <1>1, HandledMeets
  <2>2. Units(r) \subseteq Units(i)
    BY <1>0, <2>1, RegionInRun
  <2>3. Piece(r, Len(sound)) /\ TurnsOf(Turns(sound), Len(sound))
    BY <2>1, WindowInside, RecordedTurns, RegionsApart DEF Recorded, Regions
  <2>4. Separated(Sources(r, Turns(sound)), r, Turns(sound))
    BY <2>3, SourcesSeparated
  <2>5. Units(x) \subseteq Units(r)
    BY <1>3, <2>4 DEF Separated
  <2>6. QED
    BY <2>2, <2>5
<1>4. QED
  BY <1>1, <1>2, <1>3

(* The segments of a pass are apart, and behind everything sent before.      *)
LEMMA GroupsApart ==
    ASSUME NEW sound, NEW held, NEW force, Recorded(sound, held), Quiet(sound),
           LongSilences(sound),
           emitted_until <= Len(sound),
           NEW g \in Groups(sound, held, force)
    PROVE  /\ g.segment \in BoundedSegments(Len(sound))
           /\ emitted_until <= g.segment.start_ms
           /\ g.segment.end_ms <= Process(sound, held, force).until
           /\ \A h \in Groups(sound, held, force) : \A t \in Units(g.segment) :
                 /\ t \in Units(h.segment)
                 /\ g.segment.speaker = h.segment.speaker \/ g.segment.track = 0
                 => g = h
<1>1. PICK i \in ClosedRuns(sound, held, force) :
          \E x \in Given(sound, held, force, i) : g = [closed |-> i.end_ms, segment |-> x]
  BY GroupsOf
<1>2. PICK x \in Given(sound, held, force, i) : g = [closed |-> i.end_ms, segment |-> x]
  BY <1>1
<1>3. g.segment = x /\ x \in BoundedSegments(Len(sound)) /\ Units(x) \subseteq Units(i)
  BY <1>2, GivenFacts, GivenInside DEF Transcribes
<1>4. x.start_ms \in Nat /\ x.end_ms \in Nat /\ x.start_ms < x.end_ms
  BY <1>3 DEF BoundedSegments, Segment
<1>5. /\ i.start_ms \in Nat /\ i.end_ms \in Nat /\ emitted_until <= i.start_ms
      /\ IsRun(i, Speech(sound, held))
  BY ClosedFacts, PendingWhole
<1>6. x.start_ms \in Units(x) /\ x.end_ms - 1 \in Units(x)
  BY <1>4, UnitsOf
<1>7. i.start_ms <= x.start_ms /\ x.end_ms <= i.end_ms
  <2>1. x.start_ms \in Units(i) /\ x.end_ms - 1 \in Units(i)
    BY <1>3, <1>6
  <2>2. i.start_ms <= x.start_ms /\ x.end_ms - 1 < i.end_ms
    BY <1>5, <2>1, UnitsOf
  <2>3. QED
    BY <1>4, <1>5, <2>2
<1>8. emitted_until \in Nat /\ emitted_until <= x.start_ms
  BY <1>4, <1>5, <1>7 DEF Recorded
<1>9. x.end_ms <= Process(sound, held, force).until
  <2>1. i.end_ms <= Process(sound, held, force).until
        /\ Process(sound, held, force).until \in emitted_until .. Len(sound)
    BY PassUntil
  <2>2. QED
    BY <1>4, <1>5, <1>7, <1>8, <2>1, RecordedTurns DEF Recorded
<1>10. ASSUME NEW h \in Groups(sound, held, force), NEW t \in Units(x),
              t \in Units(h.segment), x.speaker = h.segment.speaker \/ x.track = 0
       PROVE  g = h
  <2>1. PICK j \in ClosedRuns(sound, held, force) :
            \E y \in Given(sound, held, force, j) : h = [closed |-> j.end_ms, segment |-> y]
    BY <1>10, GroupsOf
  <2>2. PICK y \in Given(sound, held, force, j) : h = [closed |-> j.end_ms, segment |-> y]
    BY <2>1
  <2>3. h.segment = y /\ Units(y) \subseteq Units(j) /\ IsRun(j, Speech(sound, held))
    BY <2>2, GivenInside, ClosedFacts
  <2>4. i = j
    BY <1>3, <1>5, <1>10, <2>3, RunsMeet
  <2>5. Apart(Given(sound, held, force, i))
    BY GivenFacts DEF Transcribes
  <2>6. x = y
    BY <1>10, <2>3, <2>4, <2>5 DEF Apart
  <2>7. QED
    BY <1>2, <2>2, <2>4, <2>6
<1>11. QED
  BY <1>3, <1>8, <1>9, <1>10

(* The segments that were sent are over at the frontier, and no two of them  *)
(* say the same words.                                                       *)
Tidy(list, until) ==
    /\ \A n \in 1 .. Len(list) : /\ list[n].segment.start_ms < list[n].segment.end_ms
                                 /\ list[n].segment.end_ms <= until
    /\ \A m, n \in 1 .. Len(list) : \A t \in Units(list[m].segment) :
          /\ t \in Units(list[n].segment)
          /\ \/ list[m].segment.speaker = list[n].segment.speaker
             \/ list[m].segment.track = 0
          => m = n

(* The frontier is where silence begins, or where the recording ended.       *)
FrontInv ==
    /\ Tidy(emitted, emitted_until)
    /\ \/ emitted_until = 0
       \/ emitted_until < Now /\ audio[emitted_until + 1] = Silence
       \/ emitted_until = Now /\ state # "STREAMING"

(* What a pass sends keeps the list tidy: it begins behind the frontier.     *)
LEMMA PassTidy ==
    ASSUME TypeInv, Tidy(emitted, emitted_until), NEW force, Pass(force),
           Quiet(audio'), LongSilences(audio')
    PROVE  Tidy(emitted', emitted_until')
<1> DEFINE q == Process(audio', ring', force).sent
           L == Len(emitted)
           G == Groups(audio', ring', force)
<1>1. /\ Recorded(audio', ring') /\ emitted_until <= Len(audio')
      /\ Sends(q, language') /\ emitted_until' = Process(audio', ring', force).until
      /\ emitted_until' \in emitted_until .. Len(audio')
  BY DEF Pass
<1>2. Enumerates(q, G)
  BY <1>1, PassEnumerates
<1>3. /\ \A g \in G : /\ g.segment \in BoundedSegments(Len(audio'))
                      /\ emitted_until <= g.segment.start_ms
                      /\ g.segment.end_ms <= emitted_until'
      /\ \A g, h \in G : \A t \in Units(g.segment) :
            /\ t \in Units(h.segment)
            /\ g.segment.speaker = h.segment.speaker \/ g.segment.track = 0
            => g = h
  BY <1>1, GroupsApart
<1>4. L \in Nat /\ emitted_until \in Nat /\ emitted' \in Seq(Emitted)
  BY <1>1, Types DEF Sends
<1> HIDE DEF q, L, G
<1>5. /\ Len(q) \in Nat /\ \A k \in 1 .. Len(q) : q[k] \in G
      /\ \A j, k \in 1 .. Len(q) : q[j] = q[k] => j = k
  BY <1>2 DEF Enumerates
<1>6. /\ Len(emitted') = L + Len(q)
      /\ \A n \in 1 .. L : emitted'[n] = emitted[n]
      /\ \A k \in 1 .. Len(q) : emitted'[L + k].segment = q[k].segment
  BY <1>1 DEF Sends, L
<1>7. ASSUME NEW n \in 1 .. Len(emitted')
      PROVE  \/ n \in 1 .. L
             \/ \E k \in 1 .. Len(q) : n = L + k
  <2>1. CASE n <= L
    BY <1>4, <2>1
  <2>2. CASE L < n
    <3>1. n - L \in 1 .. Len(q) /\ n = L + (n - L)
      BY <1>4, <1>5, <1>6, <2>2
    <3>2. QED
      BY <3>1
  <2>3. QED
    BY <1>4, <1>5, <1>6, <2>1, <2>2
<1>8. ASSUME NEW n \in 1 .. L
      PROVE  /\ emitted'[n].segment.start_ms < emitted'[n].segment.end_ms
             /\ emitted'[n].segment.end_ms <= emitted_until
             /\ emitted'[n].segment.start_ms \in Nat /\ emitted'[n].segment.end_ms \in Nat
  BY <1>4, <1>6, Types DEF Tidy, L, Emitted, Segment
<1>9. ASSUME NEW k \in 1 .. Len(q)
      PROVE  /\ emitted'[L + k].segment.start_ms < emitted'[L + k].segment.end_ms
             /\ emitted_until <= emitted'[L + k].segment.start_ms
             /\ emitted'[L + k].segment.end_ms <= emitted_until'
             /\ emitted'[L + k].segment.start_ms \in Nat
             /\ emitted'[L + k].segment.end_ms \in Nat
  <2>1. q[k] \in G /\ emitted'[L + k].segment = q[k].segment
    BY <1>5, <1>6
  <2>2. /\ q[k].segment \in BoundedSegments(Len(audio'))
        /\ emitted_until <= q[k].segment.start_ms
        /\ q[k].segment.end_ms <= emitted_until'
    BY <1>3, <2>1
  <2>3. QED
    BY <2>1, <2>2 DEF BoundedSegments, Segment
<1>10. ASSUME NEW m \in 1 .. Len(emitted'), NEW n \in 1 .. Len(emitted'),
              NEW t \in Units(emitted'[m].segment), t \in Units(emitted'[n].segment),
              \/ emitted'[m].segment.speaker = emitted'[n].segment.speaker
              \/ emitted'[m].segment.track = 0
       PROVE  m = n
  <2>1. CASE m \in 1 .. L /\ n \in 1 .. L
    BY <1>6, <1>10, <2>1 DEF Tidy, L
  <2>2. ASSUME NEW a \in 1 .. L, NEW k \in 1 .. Len(q), NEW u,
               u \in Units(emitted'[a].segment), u \in Units(emitted'[L + k].segment)
        PROVE  FALSE
    <3>1. u \in Nat /\ u < emitted'[a].segment.end_ms
      BY <1>8, <2>2, UnitsOf
    <3>2. emitted'[L + k].segment.start_ms <= u
      BY <1>9, <2>2, UnitsOf
    <3>3. /\ emitted'[a].segment.end_ms <= emitted_until
          /\ emitted'[a].segment.end_ms \in Nat
      BY <1>8, <2>2
    <3>4. /\ emitted_until <= emitted'[L + k].segment.start_ms
          /\ emitted'[L + k].segment.start_ms \in Nat
      BY <1>9, <2>2
    <3> DEFINE x == emitted'[a].segment.end_ms
               y == emitted'[L + k].segment.start_ms
    <3>5. u \in Nat /\ x \in Nat /\ y \in Nat /\ u < x /\ x <= emitted_until
      BY <3>1, <3>3, <3>4
    <3>6. emitted_until <= y /\ y <= u /\ emitted_until \in Nat
      BY <1>4, <3>2, <3>4
    <3> HIDE DEF x, y
    <3>7. QED
      BY <3>5, <3>6
  <2>3. ASSUME NEW j \in 1 .. Len(q), NEW k \in 1 .. Len(q), m = L + j, n = L + k
        PROVE  m = n
    <3>1. /\ q[j] \in G /\ q[k] \in G /\ emitted'[m].segment = q[j].segment
          /\ emitted'[n].segment = q[k].segment
      BY <1>5, <1>6, <2>3
    <3>2. q[j] = q[k]
      BY <1>3, <1>10, <3>1
    <3>3. QED
      BY <1>5, <2>3, <3>2
  <2>4. QED
    BY <1>7, <1>10, <2>1, <2>2, <2>3
<1>11. ASSUME NEW n \in 1 .. Len(emitted')
       PROVE  /\ emitted'[n].segment.start_ms < emitted'[n].segment.end_ms
              /\ emitted'[n].segment.end_ms <= emitted_until'
  <2>1. emitted_until <= emitted_until' /\ emitted_until' \in Nat
    BY <1>1, <1>4
  <2>2. QED
    BY <1>4, <1>7, <1>8, <1>9, <2>1
<1>12. QED
  BY <1>10, <1>11 DEF Tidy

(* A pass leaves the frontier at silence, or where the recording ends.       *)
LEMMA PassQuiet ==
    ASSUME TypeInv, NEW force, Pass(force)
    PROVE  \/ emitted_until' = emitted_until
           \/ emitted_until' < Len(audio') /\ audio'[emitted_until' + 1] = Silence
           \/ emitted_until' = Len(audio') /\ force
<1>1. /\ Recorded(audio', ring') /\ emitted_until <= Len(audio')
      /\ emitted_until' = Process(audio', ring', force).until
      /\ emitted_until' \in emitted_until .. Len(audio')
  BY DEF Pass
<1>2. \/ emitted_until' = emitted_until
      \/ \E i \in ClosedRuns(audio', ring', force) : emitted_until' = i.end_ms
  BY <1>1, PassUntil
<1>3. SUFFICES ASSUME NEW i \in ClosedRuns(audio', ring', force), emitted_until' = i.end_ms
               PROVE  \/ i.end_ms < Len(audio') /\ audio'[i.end_ms + 1] = Silence
                      \/ i.end_ms = Len(audio') /\ force
  BY <1>2
<1>4. IsRun(i, Speech(audio', ring')) /\ Piece(i, Len(audio'))
  BY <1>1, ClosedFacts
<1>5. force \/ Len(audio') - i.end_ms >= CloseAfter
  BY DEF ClosedRuns, Closed
<1>6. /\ i.start_ms \in Nat /\ i.end_ms \in Nat /\ i.start_ms < i.end_ms
      /\ i.end_ms <= Len(audio') /\ Len(audio') \in Nat /\ CloseAfter \in Nat \ {0}
  BY <1>1, <1>4, RecordedTurns, Types DEF Recorded, Piece, AnInterval
<1>7. ASSUME i.end_ms < Len(audio') PROVE audio'[i.end_ms + 1] = Silence
  <2>1. i.end_ms - 1 \in Units(i)
    BY <1>6, UnitsOf
  <2>2. i.end_ms - 1 \in WindowUnits(audio', ring')
    BY <1>4, <2>1 DEF IsRun, Speech, SpeechUnits
  <2>3. i.end_ms \in WindowUnits(audio', ring')
    <3> DEFINE low == Greater(0, Len(audio') - Lesser(Window, ring'))
    <3>1. WindowUnits(audio', ring') = low .. Len(audio') - 1
      BY DEF WindowUnits
    <3>2. low \in Int
      BY <1>1, <1>6, Types DEF Greater, Lesser, Recorded
    <3> HIDE DEF low
    <3>3. QED
      BY <1>6, <1>7, <2>2, <3>1, <3>2
  <2>4. i.end_ms \notin Speech(audio', ring')
    BY <1>4 DEF IsRun
  <2>5. QED
    BY <2>3, <2>4 DEF Speech, SpeechUnits
<1>8. CASE i.end_ms < Len(audio')
  BY <1>7, <1>8
<1>9. CASE i.end_ms = Len(audio')
  BY <1>5, <1>6, <1>9
<1>10. QED
  BY <1>6, <1>8, <1>9

(* Each step keeps the frontier.                                             *)
LEMMA FrontKeeps ==
    ASSUME TypeInv, FrontInv, LongSilences(audio'), [Next]_vars
    PROVE  FrontInv'
<1>0. /\ Now \in Nat /\ Len(audio) = Now /\ emitted_until \in Nat
      /\ Tidy(emitted, emitted_until)
  BY Types DEF FrontInv
<1>1. CASE UNCHANGED vars
  BY <1>1 DEF vars, FrontInv, Tidy, Now
<1>2. ASSUME NEW kind \in Sounds, audio' = Append(audio, kind),
             ring' = Lesser(ring + 1, Ring), state = "STREAMING"
      PROVE  /\ Now' = Now + 1 /\ Len(audio') = Now'
             /\ emitted_until # 0 =>
                   emitted_until < Now' /\ audio'[emitted_until + 1] = Silence
             /\ Quiet(audio')
  <2>1. /\ Len(audio') = Now + 1 /\ Now' = Now + 1
        /\ \A n \in 1 .. Now : audio'[n] = audio[n]
    BY <1>2, AudioGrows
  <2>2. ASSUME emitted_until # 0
        PROVE  emitted_until < Now' /\ audio'[emitted_until + 1] = Silence
    BY <1>0, <1>2, <2>1, <2>2 DEF FrontInv
  <2>3. QED
    BY <2>1, <2>2 DEF Quiet
<1>3. ASSUME NEW kind \in Sounds, Push(kind) PROVE FrontInv'
  <2>1. /\ audio' = Append(audio, kind) /\ ring' = Lesser(ring + 1, Ring)
        /\ state = "STREAMING" /\ emitted' = emitted /\ emitted_until' = emitted_until
    BY <1>3 DEF Push
  <2>2. QED
    BY <1>0, <1>2, <2>1 DEF FrontInv
<1>4. ASSUME NEW kind \in Sounds, PushFails(kind) PROVE FrontInv'
  <2>1. /\ audio' = Append(audio, kind) /\ ring' = Lesser(ring + 1, Ring)
        /\ state = "STREAMING" /\ emitted' = emitted /\ emitted_until' = emitted_until
    BY <1>4 DEF PushFails
  <2>2. QED
    BY <1>0, <1>2, <2>1 DEF FrontInv
<1>5. ASSUME NEW kind \in Sounds, PushAndProcess(kind) PROVE FrontInv'
  <2>1. /\ audio' = Append(audio, kind) /\ ring' = Lesser(ring + 1, Ring)
        /\ state = "STREAMING"
    BY <1>5 DEF PushAndProcess
  <2>2. Pass(FALSE)
    BY <1>5, PushPasses
  <2>3. Tidy(emitted', emitted_until')
    BY <1>0, <1>2, <2>1, <2>2, PassTidy
  <2>4. \/ emitted_until' = emitted_until
        \/ emitted_until' < Len(audio') /\ audio'[emitted_until' + 1] = Silence
    BY <2>2, PassQuiet
  <2>5. QED
    BY <1>2, <2>1, <2>3, <2>4 DEF FrontInv
<1>6. ASSUME ForcedProcess, UNCHANGED <<audio, ring>>, state' # "STREAMING"
      PROVE  FrontInv'
  <2>1. Pass(TRUE) /\ Now' = Now /\ audio' = audio
    BY <1>6, ForcedPasses DEF Now
  <2>2. Quiet(audio')
    BY <1>0, <2>1 DEF Quiet, FrontInv
  <2>3. Tidy(emitted', emitted_until')
    BY <1>0, <2>1, <2>2, PassTidy
  <2>4. \/ emitted_until' = emitted_until
        \/ emitted_until' < Len(audio') /\ audio'[emitted_until' + 1] = Silence
        \/ emitted_until' = Len(audio')
    BY <2>1, PassQuiet
  <2>5. QED
    BY <1>0, <1>6, <2>1, <2>3, <2>4 DEF FrontInv
<1>7. CASE Finalize
  BY <1>6, <1>7 DEF Finalize
<1>8. CASE FinalizeFails
  <2>1. UNCHANGED <<audio, ring>> /\ state' # "STREAMING"
    BY <1>8 DEF FinalizeFails
  <2>2. CASE ForcedProcess
    BY <1>6, <2>1, <2>2
  <2>3. CASE ForcedProcessFails
    <3>1. emitted' = emitted /\ emitted_until' = emitted_until /\ Now' = Now
      BY <2>1, <2>3 DEF ForcedProcessFails, Now
    <3>2. QED
      BY <2>1, <3>1 DEF FrontInv
  <2>4. QED
    BY <1>8, <2>2, <2>3 DEF FinalizeFails
<1>9. QED
  BY <1>1, <1>3, <1>4, <1>5, <1>7, <1>8 DEF Next

(* The session starts with nothing sent.                                     *)
LEMMA FrontInit ==
    ASSUME Init
    PROVE  FrontInv
<1>1. Len(emitted) = 0 /\ emitted_until = 0
  BY DEF Init
<1>2. QED
  BY <1>1 DEF FrontInv, Tidy

(* The silences of the session so far are longer than the merge gap.         *)
SilencesLong == LongSilences(audio)

(* SentOnce: no word is sent twice as provisional, through overlapping       *)
(* windows, failing passes and repeated finalizes (_process,                 *)
(* _emitted_until_ms), as long as no silence is so short that the merge of   *)
(* overlap regions would close it (merge_gap_seconds against the VAD).       *)
THEOREM NoWordTwice == Spec /\ []SilencesLong => []SentOnce
<1>1. Init => TypeInv /\ FrontInv
  BY TypeInit, FrontInit
<1>2. TypeInv /\ FrontInv /\ SilencesLong' /\ [Next]_vars => (TypeInv /\ FrontInv)'
  BY TypeKeeps, FrontKeeps DEF SilencesLong
<1>3. TypeInv /\ FrontInv => SentOnce
  <2>1. SUFFICES ASSUME TypeInv, FrontInv, NEW m \in DOMAIN emitted, NEW n \in DOMAIN emitted,
                        m # n, emitted[m].segment.speaker = emitted[n].segment.speaker,
                        Intersects(emitted[m].segment, emitted[n].segment)
                 PROVE  FALSE
    BY DEF SentOnce
  <2>2. m \in 1 .. Len(emitted) /\ n \in 1 .. Len(emitted)
    BY <2>1, Types
  <2>3. emitted[m].segment \in Segment /\ emitted[n].segment \in Segment
    BY <2>1, <2>2, Types DEF Emitted
  <2>4. /\ emitted[m].segment.start_ms < emitted[m].segment.end_ms
        /\ emitted[n].segment.start_ms < emitted[n].segment.end_ms
    BY <2>1, <2>2 DEF FrontInv, Tidy
  <2>5. \E t \in Units(emitted[m].segment) : t \in Units(emitted[n].segment)
    BY <2>1, <2>3, <2>4, IntersectsHasUnit DEF Segment
  <2>6. QED
    BY <2>1, <2>2, <2>5 DEF FrontInv, Tidy
<1>4. QED
  BY <1>1, <1>2, <1>3, PTL DEF Spec

-----------------------------------------------------------------------------
(* The final transcript *)

(* The finals are the transcript of the whole recording.                     *)
FinalsInv ==
    state = "FINALIZED" => {finals[n].segment : n \in DOMAIN finals} = FinalSet(audio)

(* Finalize publishes them, and then nothing happens any more.               *)
LEMMA FinalsKept ==
    ASSUME TypeInv, FinalsInv, [Next]_vars
    PROVE  FinalsInv'
<1>1. CASE UNCHANGED vars
  BY <1>1 DEF vars, FinalsInv
<1>2. CASE \E kind \in Sounds : Push(kind) \/ PushAndProcess(kind) \/ PushFails(kind)
  BY <1>2 DEF FinalsInv, Push, PushAndProcess, PushFails
<1>3. CASE FinalizeFails
  BY <1>3 DEF FinalsInv, FinalizeFails
<1>4. CASE Finalize
  <2> DEFINE segments == SortSegments(FinalSet(audio))
  <2>1. audio' = audio
    BY <1>4 DEF Finalize
  <2>2. \E decoded : Published(decoded)
    BY <1>4, FinalizePublishes
  <2>3. /\ Enumerates(segments, FinalSet(audio)) /\ DOMAIN finals' = 1 .. Len(segments)
        /\ \A n \in 1 .. Len(segments) : finals'[n].segment = segments[n]
    BY <2>2 DEF Published
  <2> HIDE DEF segments
  <2>4. /\ DOMAIN segments = 1 .. Len(segments)
        /\ \A n \in DOMAIN segments : segments[n] \in FinalSet(audio)
        /\ \A x \in FinalSet(audio) : \E n \in DOMAIN segments : segments[n] = x
    BY <2>3 DEF Enumerates
  <2>5. {finals'[n].segment : n \in DOMAIN finals'} = FinalSet(audio)
    BY <2>3, <2>4
  <2>6. QED
    BY <2>1, <2>5 DEF FinalsInv
<1>5. QED
  BY <1>1, <1>2, <1>3, <1>4 DEF Next

(* A set of indices has as many members as what they stand for, if no two    *)
(* stand for the same.                                                       *)
LEMMA SameCount ==
    ASSUME NEW S, IsFiniteSet(S), NEW T, NEW f \in [S -> T],
           \A y \in T : \E n \in S : f[n] = y, \A m, n \in S : f[m] = f[n] => m = n
    PROVE  Cardinality(S) = Cardinality(T)
<1>1. f \in Injection(S, T)
  BY DEF Injection, IsInjective
<1>2. f \in Surjection(S, T)
  BY DEF Surjection
<1>3. QED
  BY <1>1, <1>2, FS_Surjection

(* A final segment with a unit outside the regions is a word of that unit;   *)
(* one with a unit of a region is a source of the region.                    *)
LEMMA FinalAt ==
    ASSUME NEW sound, sound \in Seq(Sounds), NEW x \in FinalSet(sound), NEW t \in Units(x)
    PROVE  /\ t \notin AllUnits(AllRegions(sound)) => x.track = 0 /\ t \in AllSpeech(sound)
           /\ \A r \in AllRegions(sound) : t \in Units(r) =>
                 x.track # 0 /\ x \in Sources(r, Turns(sound))
<1> DEFINE regions == AllRegions(sound)
           turns == Turns(sound)
           N == Len(sound)
<1>1. Transcribes(FinalSet(sound), N, AllSpeech(sound) \ AllUnits(regions), regions, turns)
  BY FinalSetFacts
<1>2. TurnsOf(turns, N) /\ 0 .. N - 1 \subseteq 0 .. N - 1
  BY RecordedTurns
<1>3. /\ \A r \in regions : Piece(r, N)
      /\ \A q, r \in regions : \A u \in Units(q) : u \in Units(r) => q = r
  BY <1>2, RegionsApart DEF AllRegions
<1> HIDE DEF regions, turns, N
<1>4. ASSUME NEW r \in regions, x \in Sources(r, turns)
      PROVE  t \in Units(r)
  <2>1. Separated(Sources(r, turns), r, turns)
    BY <1>2, <1>3, SourcesSeparated
  <2>2. QED
    BY <1>4, <2>1 DEF Separated
<1>5. \/ x.track = 0 /\ Units(x) \subseteq AllSpeech(sound) \ AllUnits(regions)
      \/ x.track # 0 /\ \E r \in regions : x \in Sources(r, turns)
  BY <1>1 DEF Transcribes
<1>6. \A r \in regions : t \in Units(r) => t \in AllUnits(regions)
  BY DEF AllUnits
<1>7. t \notin AllUnits(regions) => x.track = 0 /\ t \in AllSpeech(sound)
  BY <1>4, <1>5, <1>6
<1>8. ASSUME NEW r \in regions, t \in Units(r)
      PROVE  x.track # 0 /\ x \in Sources(r, turns)
  BY <1>3, <1>4, <1>5, <1>6, <1>8
<1>9. QED
  BY <1>7, <1>8 DEF regions, turns

(* Outside the regions there is one segment for a unit of speech.            *)
LEMMA OneOutside ==
    ASSUME NEW sound, sound \in Seq(Sounds), NEW q, Enumerates(q, FinalSet(sound)),
           NEW t \in 0 .. Len(sound) - 1, t \notin AllUnits(AllRegions(sound))
    PROVE  Cardinality(SentAt(q, t)) = IF sound[t + 1] = Silence THEN 0 ELSE 1
<1>1. /\ \A n \in DOMAIN q : q[n] \in FinalSet(sound)
      /\ \A x \in FinalSet(sound) : \E n \in DOMAIN q : q[n] = x
      /\ \A m, n \in DOMAIN q : q[m] = q[n] => m = n
  BY DEF Enumerates
<1>2. \A n \in SentAt(q, t) : n \in DOMAIN q /\ t \in Units(q[n])
  BY DEF SentAt
<1>3. CASE sound[t + 1] = Silence
  <2>1. t \notin AllSpeech(sound)
    BY <1>3 DEF AllSpeech, SpeechUnits
  <2>2. SentAt(q, t) = {}
    BY <1>1, <1>2, <2>1, FinalAt
  <2>3. QED
    BY <1>3, <2>2, FS_EmptySet
<1>4. CASE sound[t + 1] # Silence
  <2> DEFINE W == AllSpeech(sound) \ AllUnits(AllRegions(sound))
  <2>1. t \in W
    BY <1>4 DEF AllSpeech, SpeechUnits
  <2>2. Transcribes(FinalSet(sound), Len(sound), W, AllRegions(sound), Turns(sound))
    BY FinalSetFacts
  <2> HIDE DEF W
  <2>3. PICK x \in FinalSet(sound) : x.track = 0 /\ t \in Units(x)
    BY <2>1, <2>2 DEF Transcribes
  <2>4. Apart(FinalSet(sound))
    BY <2>2 DEF Transcribes
  <2>5. PICK n \in DOMAIN q : q[n] = x
    BY <1>1
  <2>6. n \in SentAt(q, t)
    BY <2>3, <2>5 DEF SentAt
  <2>7. ASSUME NEW m \in SentAt(q, t) PROVE m = n
    <3>1. q[m] \in FinalSet(sound) /\ t \in Units(q[m]) /\ m \in DOMAIN q
      BY <1>1, <1>2
    <3>2. x = q[m]
      BY <2>3, <2>4, <3>1 DEF Apart
    <3>3. QED
      BY <1>1, <2>5, <3>1, <3>2
  <2>8. SentAt(q, t) = {n}
    BY <2>6, <2>7
  <2>9. QED
    BY <1>4, <2>8, FS_Singleton
<1>5. QED
  BY <1>3, <1>4

(* In a region there is one segment for each of some of its speakers, all of *)
(* the unit's among them.                                                    *)
LEMMA OneForEachInside ==
    ASSUME NEW sound, sound \in Seq(Sounds), NEW q, Enumerates(q, FinalSet(sound)),
           NEW t \in 0 .. Len(sound) - 1, NEW r \in AllRegions(sound), t \in Units(r),
           NEW who, who = {q[n].speaker : n \in SentAt(q, t)}
    PROVE  /\ Turns(sound)[t] \subseteq who
           /\ who \subseteq ActiveIn(r, Turns(sound))
           /\ Cardinality(SentAt(q, t)) = Cardinality(who)
<1> DEFINE turns == Turns(sound)
           S == SentAt(q, t)
<1>1. /\ \A n \in DOMAIN q : q[n] \in FinalSet(sound)
      /\ \A x \in FinalSet(sound) : \E n \in DOMAIN q : q[n] = x
      /\ \A m, n \in DOMAIN q : q[m] = q[n] => m = n
      /\ DOMAIN q = 1 .. Len(q) /\ Len(q) \in Nat
  BY DEF Enumerates
<1>2. \A n \in S : n \in DOMAIN q /\ t \in Units(q[n])
  BY DEF SentAt
<1>3. TurnsOf(turns, Len(sound)) /\ 0 .. Len(sound) - 1 \subseteq 0 .. Len(sound) - 1
  BY RecordedTurns
<1>4. Piece(r, Len(sound))
  BY <1>3, RegionsApart DEF AllRegions
<1>5. Separated(Sources(r, turns), r, turns)
  BY <1>3, <1>4, SourcesSeparated
<1>6. Sources(r, turns) \subseteq FinalSet(sound)
  BY FinalSetFacts DEF Transcribes
<1>7. \A n \in S : q[n] \in Sources(r, turns)
  BY <1>1, <1>2, FinalAt
<1>8. IsFiniteSet(S)
  <2>1. IsFiniteSet(DOMAIN q) /\ S \subseteq DOMAIN q
    BY <1>1, <1>2, FS_Interval
  <2>2. QED
    BY <2>1, FS_Subset
<1>9. ASSUME NEW s \in turns[t] PROVE s \in who
  <2>1. PICK x \in Sources(r, turns) : x.speaker = s /\ t \in Units(x)
    BY <1>5, <1>9 DEF Separated
  <2>2. PICK n \in DOMAIN q : q[n] = x
    BY <1>1, <1>6, <2>1
  <2>3. n \in S
    BY <2>1, <2>2 DEF SentAt
  <2>4. QED
    BY <2>1, <2>2, <2>3
<1> DEFINE f == [n \in S |-> q[n].speaker]
<1>10. f \in [S -> who] /\ \A y \in who : \E n \in S : f[n] = y
  OBVIOUS
<1>11. \A m, n \in S : f[m] = f[n] => m = n
  BY <1>1, <1>2, <1>5, <1>7 DEF Separated
<1>12. who \subseteq ActiveIn(r, turns)
  BY <1>5, <1>7 DEF Separated
<1> HIDE DEF f, S
<1>13. Cardinality(S) = Cardinality(who)
  BY <1>8, <1>10, <1>11, SameCount
<1>14. QED
  BY <1>9, <1>12, <1>13 DEF S

(* FinalsComplete: the result of a session has every word, in an overlap     *)
(* region once for each of its speakers, and no silence (OfflinePipeline.run *)
(* under finalize, result).                                                  *)
THEOREM ResultComplete == Spec => []FinalsComplete
<1>1. Init => TypeInv /\ FinalsInv
  BY TypeInit DEF Init, FinalsInv
<1>2. TypeInv /\ FinalsInv /\ [Next]_vars => (TypeInv /\ FinalsInv)'
  BY TypeKeeps, FinalsKept
<1>3. TypeInv /\ FinalsInv => FinalsComplete
  <2>1. SUFFICES ASSUME TypeInv, FinalsInv, state = "FINALIZED" PROVE FinalsComplete
    BY DEF FinalsComplete
  <2>2. audio \in Seq(Sounds) /\ Now = Len(audio)
    BY <2>1, Types
  <2>3. Result = SortSegments(FinalSet(audio))
    BY <2>1 DEF Result, FinalsInv
  <2>4. Enumerates(Result, FinalSet(audio))
    BY <2>2, <2>3, FinalSetFacts
  <2>5. AllRegions(audio) = OverlapRegions(0 .. Now - 1, Turns(audio))
    BY <2>2 DEF AllRegions
  <2>6. ASSUME NEW t \in 0 .. Now - 1, t \notin AllUnits(AllRegions(audio))
        PROVE  Cardinality(SentAt(Result, t)) = IF audio[t + 1] = Silence THEN 0 ELSE 1
    BY <2>2, <2>4, <2>6, OneOutside
  <2>7. ASSUME NEW t \in 0 .. Now - 1, NEW r \in AllRegions(audio), t \in Units(r)
        PROVE  LET who == {Result[n].speaker : n \in SentAt(Result, t)}
               IN  /\ Turns(audio)[t] \subseteq who
                   /\ who \subseteq ActiveIn(r, Turns(audio))
                   /\ Cardinality(SentAt(Result, t)) = Cardinality(who)
    BY <2>2, <2>4, <2>7, OneForEachInside
  <2>8. QED
    BY <2>5, <2>6, <2>7 DEF FinalsComplete
<1>4. QED
  BY <1>1, <1>2, <1>3, PTL DEF Spec

-----------------------------------------------------------------------------
(* Speech that silence has closed is sent *)

(* More audio does not change speech that is over.                           *)
LEMMA RunStays ==
    ASSUME TypeInv, NEW kind \in Sounds, audio' = Append(audio, kind),
           ring' = Lesser(ring + 1, Ring), NEW i, IsRun(i, AllSpeech(audio')), i.end_ms < Now
    PROVE  IsRun(i, AllSpeech(audio))
<1>1. /\ Now \in Nat /\ Len(audio) = Now /\ Len(audio') = Now + 1
      /\ \A n \in 1 .. Now : audio'[n] = audio[n]
  BY Types, AudioGrows
<1>2. \A t \in 0 .. Now - 1 : t \in AllSpeech(audio) <=> t \in AllSpeech(audio')
  <2>1. \A t \in 0 .. Now - 1 : t + 1 \in 1 .. Now /\ t \in 0 .. (Now + 1) - 1
    BY <1>1
  <2>2. QED
    BY <1>1, <2>1 DEF AllSpeech, SpeechUnits
<1>3. AllSpeech(audio) \subseteq 0 .. Now - 1
  BY <1>1 DEF AllSpeech, SpeechUnits
<1>4. i.start_ms \in Nat /\ i.end_ms \in Nat
  BY DEF IsRun, AnInterval
<1>5. \A t \in Units(i) : t \in 0 .. Now - 1
  BY <1>1, <1>4, UnitsOf
<1>6. QED
  BY <1>2, <1>3, <1>5 DEF IsRun

(* The window reaches as far back as it is configured to.                    *)
LEMMA WindowReaches ==
    ASSUME NEW sound, sound \in Seq(Sounds), NEW held, held = Lesser(Len(sound), Ring),
           NEW t \in 0 .. Len(sound) - 1, Len(sound) - Window <= t
    PROVE  t \in WindowUnits(sound, held)
<1>1. Len(sound) \in Nat /\ Window \in Nat /\ Ring \in Nat /\ Window <= Ring
  BY WindowAssumption DEF StreamingConfig
<1>2. Greater(0, Len(sound) - Lesser(Window, held)) <= t
  BY <1>1 DEF Greater, Lesser
<1>3. Greater(0, Len(sound) - Lesser(Window, held)) \in Nat
  BY <1>1 DEF Greater, Lesser
<1>4. QED
  BY <1>1, <1>2, <1>3 DEF WindowUnits

(* A region that reaches into a closed interval is handled for it.           *)
LEMMA RegionHandledForIt ==
    ASSUME NEW sound, NEW held, NEW force, Recorded(sound, held),
           NEW j \in ClosedRuns(sound, held, force), NEW r \in Regions(sound, held),
           NEW t \in Units(r), t \in Units(Pending(j))
    PROVE  r \in Handled(sound, held, force, j)
<1> DEFINE p == Pending(j)
           start == Greater(r.start_ms, p.start_ms)
           end == Lesser(r.end_ms, p.end_ms)
<1>1. Piece(r, Len(sound))
  BY WindowInside, RecordedTurns, RegionsApart DEF Recorded, Regions
<1>2. Piece(p, Len(sound)) /\ p.end_ms = j.end_ms
  <2>1. Piece(Pending(j), Len(sound))
    BY ClosedFacts
  <2>2. QED
    BY <2>1 DEF Pending, Interval
<1>3. force \/ Len(sound) - j.end_ms >= CloseAfter
  BY DEF ClosedRuns, Closed
<1>4. Len(sound) \in Nat /\ CloseAfter \in Nat
  BY RecordedTurns, WindowAssumption DEF Recorded, StreamingConfig
<1> HIDE DEF p
<1>5. /\ r.start_ms \in Nat /\ r.end_ms \in Nat /\ p.start_ms \in Nat /\ p.end_ms \in Nat
  BY <1>1, <1>2 DEF Piece, AnInterval
<1>6. /\ t \in Nat /\ r.start_ms <= t /\ t < r.end_ms /\ p.start_ms <= t /\ t < p.end_ms
  BY <1>5, UnitsOf DEF p
<1>7. start \in Nat /\ end \in Nat /\ start < end /\ end <= j.end_ms
  BY <1>2, <1>5, <1>6 DEF Greater, Lesser
<1>8. Clamp(r, p) = {Interval(start, end)}
  <2>1. ~ (end <= start)
    BY <1>7
  <2>2. QED
    BY <2>1 DEF Clamp
<1> HIDE DEF start, end
<1>9. Interval(start, end).end_ms = end
  BY DEF Interval
<1>10. force \/ Len(sound) - end >= CloseAfter
  <2>1. j.end_ms \in Nat
    BY <1>2, <1>5
  <2>2. Len(sound) - j.end_ms >= CloseAfter => Len(sound) - end >= CloseAfter
    BY <1>4, <1>7, <2>1
  <2>3. QED
    BY <1>3, <2>2
<1>11. QED
  BY <1>8, <1>9, <1>10 DEF Handled, p

(* Every unit of a region is somebody's, unless a gap that was closed is     *)
(* speech no turn covers.                                                    *)
LEMMA RegionsSaid ==
    ASSUME NEW sound, NEW held, Recorded(sound, held), LongSilences(sound),
           MergeGap = 0 \/ {} \notin Sounds,
           NEW r \in Regions(sound, held), NEW t \in Units(r)
    PROVE  Turns(sound)[t] # {}
<1> DEFINE units == WindowUnits(sound, held)
           O == Overlapped(units, Turns(sound))
           M == Merged(units, Turns(sound))
<1>1. /\ units \subseteq 0 .. Len(sound) - 1 /\ TurnsOf(Turns(sound), Len(sound))
      /\ Len(sound) \in Nat /\ sound \in Seq(Sounds)
  BY WindowInside, RecordedTurns DEF Recorded
<1>2. t \in Speech(sound, held)
  BY RegionsAreSpeech
<1>3. t \in 0 .. Len(sound) - 1 /\ sound[t + 1] # Silence
  BY <1>1, <1>2 DEF Speech, SpeechUnits
<1>4. CASE {} \notin Sounds
  <2>1. t + 1 \in 1 .. Len(sound)
    BY <1>1, <1>3
  <2>2. sound[t + 1] \in Sounds
    BY <1>1, <2>1
  <2>3. QED
    BY <1>1, <1>3, <1>4, <2>2, RecordedTurns
<1>5. CASE MergeGap = 0
  <2>1. r \in Runs(M)
    BY <1>1, RegionsAre DEF Regions
  <2>2. /\ M \subseteq 0 .. Len(sound) - 1
        /\ \A u \in M : \E a, b \in O : u \in a .. b /\ b - a <= MergeGap + 1
    BY <1>1, MergedBetween
  <2>3. O \subseteq 0 .. Len(sound) - 1
    BY <1>1 DEF Overlapped
  <2> HIDE DEF O, M
  <2>4. IsRun(r, M)
    BY <1>1, <2>1, <2>2, BoundedUnits, RunsPartition
  <2>5. t \in M
    BY <2>4 DEF IsRun
  <2>6. PICK a \in O : \E b \in O : t \in a .. b /\ b - a <= MergeGap + 1
    BY <2>2, <2>5
  <2>7. PICK b \in O : t \in a .. b /\ b - a <= MergeGap + 1
    BY <2>6
  <2>8. a \in Nat /\ b \in Nat
    BY <2>3
  <2>9. t = a \/ t = b
    BY <1>5, <2>7, <2>8
  <2>10. Cardinality(Turns(sound)[t]) > 1
    BY <2>9 DEF O, Overlapped
  <2>11. QED
    BY <2>10, FS_EmptySet
<1>6. QED
  BY <1>4, <1>5

(* A closed interval gives all its units.                                    *)
LEMMA ClosedSent ==
    ASSUME NEW sound, NEW held, NEW force, Recorded(sound, held), Quiet(sound),
           LongSilences(sound), MergeGap = 0 \/ {} \notin Sounds,
           NEW j \in ClosedRuns(sound, held, force), NEW t \in Units(j)
    PROVE  \E g \in Groups(sound, held, force) : t \in Units(g.segment)
<1> DEFINE regions == Regions(sound, held)
           S == Given(sound, held, force, j)
<1>1. t \in Units(Pending(j))
  BY PendingWhole
<1>2. Transcribes(S, Len(sound), Units(Pending(j)) \ AllUnits(regions),
                  Handled(sound, held, force, j), Turns(sound))
  BY GivenFacts
<1>3. \E x \in S : t \in Units(x)
  <2>1. CASE t \notin AllUnits(regions)
    BY <1>1, <1>2, <2>1 DEF Transcribes
  <2>2. CASE t \in AllUnits(regions)
    <3>1. PICK r \in regions : t \in Units(r)
      BY <2>2 DEF AllUnits
    <3>2. r \in Handled(sound, held, force, j)
      BY <1>1, <3>1, RegionHandledForIt
    <3>3. Sources(r, Turns(sound)) \subseteq S
      BY <1>2, <3>2 DEF Transcribes
    <3>4. Piece(r, Len(sound)) /\ TurnsOf(Turns(sound), Len(sound))
      BY <3>1, WindowInside, RecordedTurns, RegionsApart DEF Recorded, Regions
    <3>5. Separated(Sources(r, Turns(sound)), r, Turns(sound))
      BY <3>4, SourcesSeparated
    <3>7. Turns(sound)[t] # {}
      BY <3>1, RegionsSaid
    <3>8. PICK s \in Turns(sound)[t] : TRUE
      BY <3>7
    <3>9. \E x \in Sources(r, Turns(sound)) : t \in Units(x)
      BY <3>1, <3>5, <3>8 DEF Separated
    <3>10. QED
      BY <3>3, <3>9
  <2>3. QED
    BY <2>1, <2>2
<1>4. PICK x \in S : t \in Units(x)
  BY <1>3
<1>5. [closed |-> j.end_ms, segment |-> x] \in Groups(sound, held, force)
  BY GroupsOf
<1>6. QED
  BY <1>4, <1>5

(* A pass sends all its groups, and what was sent before is still there.     *)
LEMMA PassSends ==
    ASSUME TypeInv, NEW force, Pass(force)
    PROVE  /\ Len(emitted) <= Len(emitted') /\ Len(emitted') \in Nat
           /\ \A n \in 1 .. Len(emitted) : emitted'[n] = emitted[n]
           /\ \A g \in Groups(audio', ring', force) :
                 \E n \in 1 .. Len(emitted') : emitted'[n].segment = g.segment
<1> DEFINE q == Process(audio', ring', force).sent
           L == Len(emitted)
           G == Groups(audio', ring', force)
<1>1. Recorded(audio', ring') /\ Sends(q, language') /\ L \in Nat
  BY Types DEF Pass
<1>2. Enumerates(q, G)
  BY <1>1, PassEnumerates
<1> HIDE DEF q, L, G
<1>3. /\ Len(q) \in Nat /\ DOMAIN q = 1 .. Len(q)
      /\ \A g \in G : \E k \in DOMAIN q : q[k] = g
  BY <1>2 DEF Enumerates
<1>4. /\ Len(emitted') = L + Len(q)
      /\ \A n \in 1 .. L : emitted'[n] = emitted[n]
      /\ \A k \in 1 .. Len(q) : emitted'[L + k].segment = q[k].segment
  BY <1>1 DEF Sends, L
<1>5. ASSUME NEW g \in G PROVE \E n \in 1 .. Len(emitted') : emitted'[n].segment = g.segment
  <2>1. PICK k \in 1 .. Len(q) : q[k] = g
    BY <1>3
  <2>2. L + k \in 1 .. Len(emitted')
    BY <1>1, <1>3, <1>4
  <2>3. QED
    BY <1>4, <2>1, <2>2
<1>6. QED
  BY <1>1, <1>3, <1>4, <1>5 DEF L, G

(* A unit of a closed utterance that the window reaches is sent by the pass. *)
LEMMA PassReaches ==
    ASSUME TypeInv, LongSilences(audio'), MergeGap = 0 \/ {} \notin Sounds, Pass(FALSE),
           Quiet(audio'),
           ring' = Lesser(Len(audio'), Ring),
           NEW i, IsRun(i, AllSpeech(audio')), emitted_until < i.end_ms,
           i.end_ms + CloseAfter <= Len(audio'),
           NEW t \in Units(i), Len(audio') - Window <= t
    PROVE  \E n \in 1 .. Len(emitted') : t \in Units(emitted'[n].segment)
<1> DEFINE sound == audio'
           held == ring'
           S == Speech(sound, held)
<1>1. Recorded(sound, held) /\ sound \in Seq(Sounds)
  BY DEF Pass, Recorded
<1>2. /\ Len(sound) \in Nat /\ CloseAfter \in Nat \ {0} /\ emitted_until \in Nat
      /\ i.start_ms \in Nat /\ i.end_ms \in Nat /\ i \in AnInterval
  BY <1>1, RecordedTurns, Types DEF IsRun, AnInterval
<1>3. t \in AllSpeech(sound) /\ t \in 0 .. Len(sound) - 1
  BY DEF IsRun, AllSpeech, SpeechUnits
<1>4. t \in WindowUnits(sound, held)
  BY <1>1, <1>3, WindowReaches
<1>5. t \in S
  BY <1>1, <1>3, <1>4, WindowSpeech
<1>6. S \subseteq Nat /\ IsFiniteSet(S)
  BY <1>1, WindowInside
<1> HIDE DEF sound, held, S
<1>7. PICK j \in Runs(S) : t \in Units(j)
  BY <1>5, <1>6, RunCovers
<1>8. IsRun(j, S)
  BY <1>6, RunsPartition
<1>9. S \subseteq AllSpeech(sound)
  BY <1>1, WindowSpeech DEF S
<1>10. j.end_ms <= i.end_ms /\ j.start_ms \in Nat /\ j.end_ms \in Nat /\ i.start_ms <= j.start_ms
  <2>1. j \in AnInterval /\ Units(j) \subseteq AllSpeech(sound)
    BY <1>8, <1>9 DEF IsRun
  <2>2. IsRun(i, AllSpeech(sound))
    BY DEF sound
  <2>3. QED
    BY <1>7, <2>1, <2>2, IntervalInRun DEF AnInterval
<1>11. j.end_ms = i.end_ms
  <2>1. SUFFICES ASSUME j.end_ms < i.end_ms PROVE FALSE
    BY <1>2, <1>10
  <2>2. t < j.end_ms /\ t \in Nat
    BY <1>7, <1>10, UnitsOf
  <2>3. i.start_ms <= t
    BY <1>2, UnitsOf
  <2>4. j.end_ms \in Units(i)
    BY <1>2, <1>10, <2>1, <2>2, <2>3, UnitsOf
  <2>5. j.end_ms \in AllSpeech(sound) /\ j.end_ms \in 0 .. Len(sound) - 1
    BY <2>4 DEF IsRun, AllSpeech, SpeechUnits, sound
  <2>6. Len(sound) - Window <= j.end_ms
    <3>1. Len(sound) - Window <= t /\ Window \in Nat
      BY Types DEF sound
    <3>2. QED
      BY <1>2, <1>10, <2>2, <3>1
  <2>7. held = Lesser(Len(sound), Ring)
    BY DEF held, sound
  <2>8. j.end_ms \in S
    BY <1>1, <2>5, <2>6, <2>7, WindowReaches, WindowSpeech DEF S
  <2>9. QED
    BY <1>8, <2>8 DEF IsRun
<1>12. j \in ClosedRuns(sound, held, FALSE)
  <2>1. Len(sound) - j.end_ms >= CloseAfter /\ j.end_ms > emitted_until
    BY <1>2, <1>10, <1>11 DEF sound
  <2>2. QED
    BY <1>7, <2>1 DEF ClosedRuns, Closed, S
<1>13. PICK g \in Groups(sound, held, FALSE) : t \in Units(g.segment)
  <2>1. Quiet(sound) /\ LongSilences(sound)
    BY DEF sound
  <2>2. QED
    BY <1>1, <1>7, <1>12, <2>1, ClosedSent
<1>14. \E n \in 1 .. Len(emitted') : emitted'[n].segment = g.segment
  BY <1>13, PassSends DEF sound, held
<1>15. QED
  BY <1>13, <1>14

(* The passes keep up with the audio, the frontier keeps its distance from   *)
(* the last pass, and what was closed before that pass has been sent.        *)
SpeechInv ==
    /\ state = "STREAMING" =>
          /\ Now - last_process < Hop
          /\ emitted_until = 0 \/ emitted_until + CloseAfter <= last_process
    /\ state = "STREAMING" /\ ~ failed =>
          \A i : IsRun(i, AllSpeech(audio)) /\ i.end_ms + CloseAfter <= last_process =>
             \A t \in Units(i) : t >= i.end_ms + CloseAfter + Hop - 1 - Window =>
                \E n \in 1 .. Len(emitted) : t \in Units(emitted[n].segment)

(* A pass that is due keeps up.                                              *)
LEMMA DuePassSpeech ==
    ASSUME TypeInv, FrontInv, SpeechInv, LongSilences(audio'),
           MergeGap = 0 \/ {} \notin Sounds, NEW kind \in Sounds, PushAndProcess(kind)
    PROVE  SpeechInv'
<1>0. /\ Now \in Nat /\ last_process \in Nat /\ Hop \in Nat \ {0} /\ CloseAfter \in Nat \ {0}
      /\ emitted_until \in Nat /\ Window \in Nat /\ Len(emitted) \in Nat
  BY Types
<1>1. /\ audio' = Append(audio, kind) /\ ring' = Lesser(ring + 1, Ring)
      /\ state = "STREAMING" /\ last_process' = Now + 1 /\ failed' = failed
      /\ Now + 1 - last_process >= Hop
  BY DEF PushAndProcess
<1>2. Pass(FALSE)
  BY PushPasses
<1>3. /\ Len(audio') = Now + 1 /\ Now' = Now + 1 /\ ring' = Lesser(Now', Ring)
      /\ \A n \in 1 .. Now : audio'[n] = audio[n]
  BY <1>1, AudioGrows
<1>4. Quiet(audio')
  <2>1. ASSUME emitted_until # 0
        PROVE  emitted_until < Len(audio') /\ audio'[emitted_until + 1] = Silence
    BY <1>0, <1>1, <1>3, <2>1 DEF FrontInv
  <2>2. QED
    BY <2>1 DEF Quiet
<1>5. /\ Now - last_process < Hop
      /\ emitted_until = 0 \/ emitted_until + CloseAfter <= last_process
  BY <1>1 DEF SpeechInv
<1>6. Now + 1 = last_process + Hop
  BY <1>0, <1>1, <1>5
<1>7. emitted_until' = 0 \/ emitted_until' + CloseAfter <= last_process'
  <2>1. /\ Recorded(audio', ring') /\ emitted_until <= Len(audio')
        /\ emitted_until' = Process(audio', ring', FALSE).until
    BY <1>2 DEF Pass
  <2>2. CASE emitted_until' = emitted_until
    BY <1>0, <1>1, <1>5, <1>6, <2>2
  <2>3. ASSUME NEW j \in ClosedRuns(audio', ring', FALSE), emitted_until' = j.end_ms
        PROVE  emitted_until' + CloseAfter <= last_process'
    <3>1. j.end_ms \in Nat
      BY <2>1, ClosedFacts
    <3>2. Len(audio') - j.end_ms >= CloseAfter
      BY DEF ClosedRuns, Closed
    <3>3. QED
      BY <1>0, <1>1, <1>3, <2>3, <3>1, <3>2
  <2>4. \/ emitted_until' = emitted_until
        \/ \E j \in ClosedRuns(audio', ring', FALSE) : emitted_until' = j.end_ms
    BY <2>1, PassUntil
  <2>5. QED
    BY <2>2, <2>3, <2>4
<1>8. Now' - last_process' < Hop
  BY <1>0, <1>1, <1>3
<1>9. ASSUME ~ failed, NEW i, IsRun(i, AllSpeech(audio')),
             i.end_ms + CloseAfter <= last_process', NEW t \in Units(i),
             t >= i.end_ms + CloseAfter + Hop - 1 - Window
      PROVE  \E n \in 1 .. Len(emitted') : t \in Units(emitted'[n].segment)
  <2>1. i.start_ms \in Nat /\ i.end_ms \in Nat /\ i.start_ms < i.end_ms
    BY <1>9 DEF IsRun, AnInterval
  <2>2. t \in Nat
    BY <1>9, <2>1, UnitsOf
  <2>3. CASE i.end_ms + CloseAfter <= last_process
    <3>1. i.end_ms < Now
      BY <1>0, <2>1, <2>3, Types
    <3>2. IsRun(i, AllSpeech(audio))
      BY <1>1, <1>9, <3>1, RunStays
    <3>3. PICK n \in 1 .. Len(emitted) : t \in Units(emitted[n].segment)
      BY <1>1, <1>9, <2>3, <3>2 DEF SpeechInv
    <3>4. /\ Len(emitted) <= Len(emitted') /\ Len(emitted') \in Nat
          /\ \A m \in 1 .. Len(emitted) : emitted'[m] = emitted[m]
      BY <1>2, PassSends
    <3>5. n \in 1 .. Len(emitted') /\ emitted'[n] = emitted[n]
      BY <1>0, <3>4
    <3>6. QED
      BY <3>3, <3>5
  <2>4. CASE ~ (i.end_ms + CloseAfter <= last_process)
    <3>1. emitted_until < i.end_ms
      BY <1>0, <1>5, <2>1, <2>4
    <3>2. i.end_ms + CloseAfter <= Len(audio')
      BY <1>1, <1>3, <1>9
    <3>3. Len(audio') - Window <= t
      BY <1>0, <1>3, <1>6, <1>9, <2>1, <2>2, <2>4
    <3>4. ring' = Lesser(Len(audio'), Ring)
      BY <1>3
    <3>5. QED
      BY <1>2, <1>4, <1>9, <3>1, <3>2, <3>3, <3>4, PassReaches
  <2>5. QED
    BY <2>3, <2>4
<1>10. QED
  BY <1>1, <1>7, <1>8, <1>9 DEF SpeechInv

(* Each step keeps it.                                                       *)
LEMMA SpeechKeeps ==
    ASSUME TypeInv, FrontInv, SpeechInv, LongSilences(audio'),
           MergeGap = 0 \/ {} \notin Sounds, [Next]_vars
    PROVE  SpeechInv'
<1>0. /\ Now \in Nat /\ last_process \in Nat /\ Hop \in Nat \ {0} /\ CloseAfter \in Nat \ {0}
      /\ emitted_until \in Nat /\ last_process <= Now
  BY Types
<1>1. CASE UNCHANGED vars
  BY <1>1 DEF vars, SpeechInv, Now
<1>2. ASSUME NEW kind \in Sounds, Push(kind) PROVE SpeechInv'
  <2>1. /\ audio' = Append(audio, kind) /\ ring' = Lesser(ring + 1, Ring)
        /\ state = "STREAMING" /\ state' = state /\ failed' = failed
        /\ emitted' = emitted /\ emitted_until' = emitted_until
        /\ last_process' = last_process /\ Now + 1 - last_process < Hop
    BY <1>2 DEF Push
  <2>2. Now' = Now + 1
    BY <2>1, AudioGrows
  <2>3. ASSUME ~ failed, NEW i, IsRun(i, AllSpeech(audio')),
               i.end_ms + CloseAfter <= last_process
        PROVE  IsRun(i, AllSpeech(audio))
    <3>1. i.end_ms \in Nat
      BY <2>3 DEF IsRun, AnInterval
    <3>2. i.end_ms < Now
      BY <1>0, <2>3, <3>1
    <3>3. QED
      BY <2>1, <2>3, <3>2, RunStays
  <2>4. Now' - last_process' < Hop
    BY <1>0, <2>1, <2>2
  <2>5. emitted_until' = 0 \/ emitted_until' + CloseAfter <= last_process'
    BY <2>1 DEF SpeechInv
  <2>6. ASSUME ~ failed, NEW i, IsRun(i, AllSpeech(audio')),
               i.end_ms + CloseAfter <= last_process', NEW t \in Units(i),
               t >= i.end_ms + CloseAfter + Hop - 1 - Window
        PROVE  \E n \in 1 .. Len(emitted') : t \in Units(emitted'[n].segment)
    <3>1. IsRun(i, AllSpeech(audio))
      BY <2>1, <2>3, <2>6
    <3>2. QED
      BY <2>1, <2>6, <3>1 DEF SpeechInv
  <2>7. QED
    BY <2>1, <2>4, <2>5, <2>6 DEF SpeechInv
<1>3. ASSUME NEW kind \in Sounds, PushAndProcess(kind) PROVE SpeechInv'
  BY <1>3, DuePassSpeech
<1>4. ASSUME NEW kind \in Sounds, PushFails(kind) PROVE SpeechInv'
  <2>1. /\ audio' = Append(audio, kind) /\ ring' = Lesser(ring + 1, Ring)
        /\ state = "STREAMING" /\ failed' = TRUE /\ emitted_until' = emitted_until
        /\ last_process' = Now + 1
    BY <1>4 DEF PushFails
  <2>2. Now' = Now + 1
    BY <2>1, AudioGrows
  <2>3. emitted_until = 0 \/ emitted_until + CloseAfter <= last_process
    BY <2>1 DEF SpeechInv
  <2>4. QED
    BY <1>0, <2>1, <2>2, <2>3 DEF SpeechInv
<1>5. CASE Finalize
  BY <1>5 DEF Finalize, SpeechInv
<1>6. CASE FinalizeFails
  BY <1>6 DEF FinalizeFails, SpeechInv
<1>7. QED
  BY <1>1, <1>2, <1>3, <1>4, <1>5, <1>6 DEF Next

(* ClosedSpeechSent: while no pass has failed, the speech that silence has   *)
(* closed is sent by the next pass, as far back as its window may be relied  *)
(* on to reach (push_pcm, _window_buffer, _process).  Merged regions must    *)
(* hold neither silence nor speech that no turn covers.                      *)
THEOREM ClosedSpeechIsSent ==
    ASSUME MergeGap = 0 \/ {} \notin Sounds
    PROVE  Spec /\ []SilencesLong => []ClosedSpeechSent
<1> DEFINE Inv == TypeInv /\ FrontInv /\ SpeechInv
<1>1. Init => Inv
  <2>1. SUFFICES ASSUME Init PROVE SpeechInv
    BY TypeInit, FrontInit
  <2>2. Now = 0 /\ last_process = 0 /\ emitted_until = 0
    BY <2>1 DEF Init, Now
  <2>3. Hop \in Nat \ {0} /\ CloseAfter \in Nat \ {0}
    BY WindowAssumption DEF StreamingConfig
  <2>4. ASSUME NEW i, IsRun(i, AllSpeech(audio)) PROVE ~ (i.end_ms + CloseAfter <= last_process)
    <3>1. i.end_ms \in Nat
      BY <2>4 DEF IsRun, AnInterval
    <3>2. QED
      BY <2>2, <2>3, <3>1
  <2>5. QED
    BY <2>2, <2>3, <2>4 DEF SpeechInv
<1>2. Inv /\ SilencesLong' /\ [Next]_vars => Inv'
  BY TypeKeeps, FrontKeeps, SpeechKeeps DEF SilencesLong
<1>3. Inv => ClosedSpeechSent
  <2>1. SUFFICES ASSUME Inv, state = "STREAMING", ~ failed,
                        NEW i \in Runs(SpeechUnits(audio, 0 .. Now - 1)),
                        Now >= i.end_ms + CloseAfter + Hop - 1,
                        NEW t \in Units(i), t >= i.end_ms + CloseAfter + Hop - 1 - Window
                 PROVE  SentAt(Sent, t) # {}
    BY DEF ClosedSpeechSent
  <2>2. /\ Now \in Nat /\ last_process \in Nat /\ Hop \in Nat \ {0}
        /\ CloseAfter \in Nat \ {0} /\ Len(audio) = Now /\ DOMAIN emitted = 1 .. Len(emitted)
    BY <2>1, Types
  <2>3. AllSpeech(audio) = SpeechUnits(audio, 0 .. Now - 1)
    BY <2>2 DEF AllSpeech
  <2>4. AllSpeech(audio) \subseteq 0 .. Now - 1
    BY <2>3 DEF SpeechUnits
  <2>5. IsRun(i, AllSpeech(audio))
    BY <2>1, <2>2, <2>3, <2>4, BoundedUnits, RunsPartition
  <2>6. i.end_ms \in Nat
    BY <2>5 DEF IsRun, AnInterval
  <2>7. Now - last_process < Hop
    BY <2>1 DEF SpeechInv
  <2>8. i.end_ms + CloseAfter <= last_process
    BY <2>1, <2>2, <2>6, <2>7
  <2>9. PICK n \in 1 .. Len(emitted) : t \in Units(emitted[n].segment)
    BY <2>1, <2>5, <2>8 DEF SpeechInv
  <2>10. n \in SentAt(Sent, t)
    BY <2>2, <2>9 DEF SentAt, Sent
  <2>11. QED
    BY <2>10
<1>4. QED
  BY <1>1, <1>2, <1>3, PTL DEF Spec

-----------------------------------------------------------------------------
(* The regions the provisional segments come from *)

(* The units with several speakers, and with the short gaps closed.          *)
Overlaps(sound) == Overlapped(0 .. Len(sound) - 1, Turns(sound))
Joined(sound) == Merged(0 .. Len(sound) - 1, Turns(sound))

(* r is a region a pass has handled: it reaches to where the overlap ends,   *)
(* and a segment was sent for each of its speakers.                          *)
Family(list, until, sound, r) ==
    /\ Piece(r, until)
    /\ Duration(r) >= MinDuration
    /\ Units(r) \subseteq Joined(sound)
    /\ r.end_ms \notin Joined(sound)
    /\ \A s \in ActiveIn(r, Turns(sound)) : \E m \in 1 .. Len(list) :
          list[m].segment = SegmentOf(Span(WordsOf(s, r, Turns(sound))), s, s)

(* Every separated segment that was sent belongs to a handled region.        *)
Families(list, until, sound) ==
    \A n \in 1 .. Len(list) : list[n].segment.track # 0 =>
        /\ list[n].segment.speaker = list[n].segment.track
        /\ \E r : Family(list, until, sound, r) /\ Units(list[n].segment) \subseteq Units(r)

(* A region stays handled when more is sent.                                 *)
LEMMA FamilyExtends ==
    ASSUME NEW list, NEW more, Len(list) \in Nat, Len(more) \in Nat, Len(list) <= Len(more),
           \A n \in 1 .. Len(list) : more[n] = list[n],
           NEW until \in Nat, NEW later \in Nat, until <= later,
           NEW sound, NEW r, Family(list, until, sound, r)
    PROVE  Family(more, later, sound, r)
<1>1. Piece(r, later)
  <2>1. r.end_ms \in Nat /\ r.end_ms <= until /\ Piece(r, until)
    BY DEF Family, Piece, AnInterval
  <2>2. r.end_ms <= later
    BY <2>1
  <2>3. QED
    BY <2>1, <2>2 DEF Piece
<1>2. ASSUME NEW s \in ActiveIn(r, Turns(sound))
      PROVE  \E m \in 1 .. Len(more) :
                more[m].segment = SegmentOf(Span(WordsOf(s, r, Turns(sound))), s, s)
  <2>1. PICK m \in 1 .. Len(list) :
            list[m].segment = SegmentOf(Span(WordsOf(s, r, Turns(sound))), s, s)
    BY DEF Family
  <2>2. m \in 1 .. Len(more) /\ more[m] = list[m]
    OBVIOUS
  <2>3. QED
    BY <2>1, <2>2
<1>3. QED
  BY <1>1, <1>2 DEF Family

(* What overlaps below the end of the audio is the same with more audio.     *)
LEMMA OverlapsStay ==
    ASSUME NEW sound, sound \in Seq(Sounds), NEW more, more \in Seq(Sounds),
           Len(sound) <= Len(more), \A n \in 1 .. Len(sound) : more[n] = sound[n],
           NEW t \in 0 .. Len(sound) - 1
    PROVE  /\ Turns(more)[t] = Turns(sound)[t]
           /\ t \in Overlaps(more) <=> t \in Overlaps(sound)
<1>1. Len(sound) \in Nat /\ Len(more) \in Nat
  OBVIOUS
<1>2. t \in 0 .. Len(more) - 1 /\ t + 1 \in 1 .. Len(sound)
  BY <1>1
<1>3. Turns(more)[t] = Turns(sound)[t]
  BY <1>2, RecordedTurns
<1>4. QED
  BY <1>2, <1>3 DEF Overlaps, Overlapped

(* A recording joins what two overlapped units close to each other hold      *)
(* between them.                                                             *)
LEMMA JoinedBetween ==
    ASSUME NEW sound, sound \in Seq(Sounds)
    PROVE  /\ Joined(sound) \subseteq 0 .. Len(sound) - 1 /\ Len(sound) \in Nat
           /\ Overlaps(sound) \subseteq 0 .. Len(sound) - 1
           /\ Overlaps(sound) \subseteq AllSpeech(sound)
           /\ \A t \in Joined(sound) : \E a, b \in Overlaps(sound) :
                 t \in a .. b /\ b - a <= MergeGap + 1
           /\ \A a, b \in Overlaps(sound) : b - a <= MergeGap + 1
                 => a .. b \subseteq Joined(sound)
<1>1. Len(sound) \in Nat /\ 0 .. Len(sound) - 1 \subseteq 0 .. Len(sound) - 1
  OBVIOUS
<1>2. Overlaps(sound) \subseteq AllSpeech(sound)
  BY <1>1, OverlapIsSpeech DEF Overlaps, AllSpeech
<1>3. Overlaps(sound) \subseteq 0 .. Len(sound) - 1
  BY DEF Overlaps, Overlapped
<1>4. QED
  BY <1>1, <1>2, <1>3, MergedBetween DEF Joined, Overlaps

(* A region stays handled when there is more audio behind the silence.       *)
LEMMA FamilyStays ==
    ASSUME NEW list, NEW until \in Nat, NEW sound, sound \in Seq(Sounds),
           NEW more, more \in Seq(Sounds), Len(sound) <= Len(more),
           \A n \in 1 .. Len(sound) : more[n] = sound[n], until < Len(sound),
           sound[until + 1] = Silence, LongSilences(more),
           NEW r, Family(list, until, sound, r)
    PROVE  Family(list, until, more, r)
<1>1. /\ r.start_ms \in Nat /\ r.end_ms \in Nat /\ r.end_ms <= until
      /\ Len(sound) \in Nat /\ Len(more) \in Nat
  BY DEF Family, Piece, AnInterval
<1>2. r.end_ms \in 0 .. Len(sound) - 1
  BY <1>1
<1>3. \A t \in Units(r) : t \in 0 .. Len(sound) - 1
  BY <1>1, <1>2 DEF Units
<1>4. \A t \in 0 .. Len(sound) - 1 : /\ Turns(more)[t] = Turns(sound)[t]
                                     /\ t \in Overlaps(more) <=> t \in Overlaps(sound)
  BY OverlapsStay
<1>5. r.end_ms \notin Joined(more)
  <2>1. SUFFICES ASSUME r.end_ms \in Joined(more) PROVE FALSE
    OBVIOUS
  <2>2. PICK a \in Overlaps(more) : \E b \in Overlaps(more) :
            r.end_ms \in a .. b /\ b - a <= MergeGap + 1
    BY <2>1, JoinedBetween
  <2>3. PICK b \in Overlaps(more) : r.end_ms \in a .. b /\ b - a <= MergeGap + 1
    BY <2>2
  <2>4. /\ a \in Nat /\ b \in Nat /\ a <= r.end_ms /\ r.end_ms <= b
        /\ a \in AllSpeech(more) /\ b \in AllSpeech(more)
    BY <1>1, <2>3, JoinedBetween
  <2>5. a \in Overlaps(sound)
    BY <1>2, <1>4, <2>4
  <2>6. CASE b < Len(sound)
    <3>1. b \in Overlaps(sound)
      BY <1>1, <1>4, <2>4, <2>6
    <3>2. r.end_ms \in Joined(sound)
      BY <2>3, <2>5, <3>1, JoinedBetween
    <3>3. QED
      BY <3>2 DEF Family
  <2>7. CASE Len(sound) <= b
    <3>1. until \in a .. b
      BY <1>1, <2>4, <2>7
    <3>2. until \in AllSpeech(more)
      BY <2>3, <2>4, <3>1 DEF LongSilences
    <3>3. until + 1 \in 1 .. Len(sound)
      BY <1>1
    <3>4. QED
      BY <3>2, <3>3 DEF AllSpeech, SpeechUnits
  <2>8. QED
    BY <1>1, <2>4, <2>6, <2>7
<1>6. ActiveIn(r, Turns(more)) = ActiveIn(r, Turns(sound))
  BY <1>3, <1>4 DEF ActiveIn
<1>7. \A s : WordsOf(s, r, Turns(more)) = WordsOf(s, r, Turns(sound))
  BY <1>3, <1>4 DEF WordsOf
<1>8. Units(r) \subseteq Joined(more)
  <2>1. SUFFICES ASSUME NEW t \in Joined(sound) PROVE t \in Joined(more)
    BY DEF Family
  <2>2. PICK a \in Overlaps(sound) : \E b \in Overlaps(sound) :
            t \in a .. b /\ b - a <= MergeGap + 1
    BY <2>1, JoinedBetween
  <2>3. PICK b \in Overlaps(sound) : t \in a .. b /\ b - a <= MergeGap + 1
    BY <2>2
  <2>4. a \in Overlaps(more) /\ b \in Overlaps(more)
    BY <1>4, JoinedBetween
  <2>5. QED
    BY <2>3, <2>4, JoinedBetween
<1>9. QED
  BY <1>5, <1>6, <1>7, <1>8 DEF Family

(* Where a region ends in the window, it ends in the recording.              *)
LEMMA RegionEnds ==
    ASSUME NEW sound, NEW held, Recorded(sound, held), NEW r \in Regions(sound, held)
    PROVE  /\ Piece(r, Len(sound)) /\ Duration(r) >= MinDuration
           /\ Units(r) \subseteq Joined(sound) /\ r.end_ms \notin Joined(sound)
<1> DEFINE units == WindowUnits(sound, held)
           O == Overlapped(units, Turns(sound))
           M == Merged(units, Turns(sound))
<1>1. /\ units \subseteq 0 .. Len(sound) - 1 /\ TurnsOf(Turns(sound), Len(sound))
      /\ Len(sound) \in Nat /\ sound \in Seq(Sounds)
  BY WindowInside, RecordedTurns DEF Recorded
<1>2. Piece(r, Len(sound)) /\ Duration(r) >= MinDuration
  BY <1>1, RegionsApart DEF Regions
<1>3. r \in Runs(M)
  BY <1>1, RegionsAre DEF Regions
<1>4. /\ M \subseteq 0 .. Len(sound) - 1
      /\ \A t \in M : \E a, b \in O : t \in a .. b /\ b - a <= MergeGap + 1
      /\ \A a, b \in O : b - a <= MergeGap + 1 => a .. b \subseteq M
  BY <1>1, MergedBetween
<1>5. /\ O \subseteq Overlaps(sound) /\ O \subseteq units
      /\ \A t \in Overlaps(sound) : t \in units => t \in O
  BY <1>1 DEF Overlapped, Overlaps
<1> HIDE DEF O, M
<1>6. IsRun(r, M)
  BY <1>1, <1>3, <1>4, BoundedUnits, RunsPartition
<1>7. r.start_ms \in Nat /\ r.end_ms \in Nat /\ r.start_ms < r.end_ms
  BY <1>6 DEF IsRun, AnInterval
<1>8. Units(r) \subseteq Joined(sound)
  <2>1. SUFFICES ASSUME NEW t \in M PROVE t \in Joined(sound)
    BY <1>6 DEF IsRun
  <2>2. PICK a \in O : \E b \in O : t \in a .. b /\ b - a <= MergeGap + 1
    BY <1>4, <2>1
  <2>3. PICK b \in O : t \in a .. b /\ b - a <= MergeGap + 1
    BY <2>2
  <2>4. QED
    BY <1>1, <1>5, <2>3, JoinedBetween
<1>9. r.end_ms \notin Joined(sound)
  <2>1. SUFFICES ASSUME r.end_ms \in Joined(sound) PROVE FALSE
    OBVIOUS
  <2>2. PICK a \in Overlaps(sound) : \E b \in Overlaps(sound) :
            r.end_ms \in a .. b /\ b - a <= MergeGap + 1
    BY <1>1, <2>1, JoinedBetween
  <2>3. PICK b \in Overlaps(sound) : r.end_ms \in a .. b /\ b - a <= MergeGap + 1
    BY <2>2
  <2>4. /\ a \in Nat /\ b \in Nat /\ a <= r.end_ms /\ r.end_ms <= b /\ b < Len(sound)
        /\ MergeGap \in Nat
    BY <1>1, <1>7, <2>3, JoinedBetween, RegionAssumption DEF OverlapDetectionConfig
  <2>5. r.end_ms - 1 \in M
    <3>1. r.end_ms - 1 \in Units(r)
      BY <1>7, UnitsOf
    <3>2. QED
      BY <1>6, <3>1 DEF IsRun
  <2>6. PICK c \in O : \E d \in O : r.end_ms - 1 \in c .. d
    BY <1>4, <2>5
  <2>7. c \in Nat /\ c <= r.end_ms - 1 /\ c \in units
    BY <1>1, <1>5, <1>7, <2>6
  <2>8. b \in O
    <3>1. c <= b
      BY <1>7, <2>4, <2>7
    <3>2. b \in units
      BY <2>4, <2>7, <3>1, WindowConvex
    <3>3. QED
      BY <1>5, <3>2
  <2>9. CASE c <= a
    <3>1. a \in units
      BY <1>7, <2>4, <2>7, <2>9, WindowConvex
    <3>2. a \in O
      BY <1>5, <3>1
    <3>3. r.end_ms \in M
      BY <1>4, <2>3, <2>8, <3>2
    <3>4. QED
      BY <1>6, <3>3 DEF IsRun
  <2>10. CASE a < c
    <3>1. b - c <= MergeGap + 1 /\ r.end_ms \in c .. b
      BY <1>7, <2>3, <2>4, <2>7, <2>10
    <3>2. r.end_ms \in M
      BY <1>4, <2>6, <2>8, <3>1
    <3>3. QED
      BY <1>6, <3>2 DEF IsRun
  <2>11. QED
    BY <2>4, <2>7, <2>9, <2>10
<1>10. QED
  BY <1>2, <1>8, <1>9

(* A region that a pass handles becomes a family.                            *)
LEMMA NewFamily ==
    ASSUME NEW sound, NEW held, NEW force, Recorded(sound, held), Quiet(sound),
           LongSilences(sound),
           emitted_until <= Len(sound), NEW i \in ClosedRuns(sound, held, force),
           NEW r \in Handled(sound, held, force, i),
           NEW list, \A g \in Groups(sound, held, force) : \E n \in 1 .. Len(list) :
                        list[n].segment = g.segment,
           NEW until, until = Process(sound, held, force).until
    PROVE  Family(list, until, sound, r)
<1>1. r \in Regions(sound, held) /\ \E t \in Units(Pending(i)) : t \in Units(r)
  BY HandledMeets
<1>2. /\ Piece(r, Len(sound)) /\ Duration(r) >= MinDuration
      /\ Units(r) \subseteq Joined(sound) /\ r.end_ms \notin Joined(sound)
  BY <1>1, RegionEnds
<1>3. IsRun(i, Speech(sound, held))
  BY ClosedFacts
<1>4. i.end_ms \in Nat /\ i.start_ms \in Nat
  BY <1>3 DEF IsRun, AnInterval
<1>5. Units(r) \subseteq Units(i)
  BY <1>1, <1>3, PendingWhole, RegionInRun
<1>6. r.end_ms <= i.end_ms
  <2>1. r.start_ms \in Nat /\ r.end_ms \in Nat /\ r.start_ms < r.end_ms
    BY <1>2 DEF Piece, AnInterval
  <2>2. r.end_ms - 1 \in Units(i)
    BY <1>5, <2>1, UnitsOf
  <2>3. r.end_ms - 1 < i.end_ms
    BY <1>4, <2>2, UnitsOf
  <2>4. QED
    BY <1>4, <2>1, <2>3
<1>7. i.end_ms <= until /\ until \in Nat
  <2>1. i.end_ms <= until /\ until \in emitted_until .. Len(sound)
    BY PassUntil
  <2>2. QED
    BY <2>1, RecordedTurns DEF Recorded
<1>8. Piece(r, until)
  BY <1>2, <1>4, <1>6, <1>7 DEF Piece, AnInterval
<1>9. ASSUME NEW s \in ActiveIn(r, Turns(sound))
      PROVE  \E m \in 1 .. Len(list) :
                list[m].segment = SegmentOf(Span(WordsOf(s, r, Turns(sound))), s, s)
  <2> DEFINE x == SegmentOf(Span(WordsOf(s, r, Turns(sound))), s, s)
  <2>1. x \in Sources(r, Turns(sound))
    BY DEF Sources, WordsOf
  <2>2. Sources(r, Turns(sound)) \subseteq Given(sound, held, force, i)
    BY GivenFacts DEF Transcribes
  <2> HIDE DEF x
  <2>3. [closed |-> i.end_ms, segment |-> x] \in Groups(sound, held, force)
    BY <2>1, <2>2, GroupsOf
  <2>4. \E n \in 1 .. Len(list) : list[n].segment = x
    BY <2>3
  <2>5. QED
    BY <2>4 DEF x
<1>10. QED
  BY <1>2, <1>8, <1>9 DEF Family

(* A pass keeps the families.                                                *)
LEMMA PassFamilies ==
    ASSUME TypeInv, Families(emitted, emitted_until, audio'), NEW force, Pass(force),
           Quiet(audio'), LongSilences(audio')
    PROVE  Families(emitted', emitted_until', audio')
<1> DEFINE q == Process(audio', ring', force).sent
           L == Len(emitted)
           G == Groups(audio', ring', force)
<1>1. /\ Recorded(audio', ring') /\ emitted_until <= Len(audio')
      /\ Sends(q, language') /\ emitted_until' = Process(audio', ring', force).until
      /\ emitted_until' \in emitted_until .. Len(audio')
  BY DEF Pass
<1>2. L \in Nat /\ emitted_until \in Nat /\ emitted_until' \in Nat
      /\ emitted_until <= emitted_until'
  BY <1>1, Types
<1>3. /\ L <= Len(emitted') /\ Len(emitted') \in Nat
      /\ \A n \in 1 .. L : emitted'[n] = emitted[n]
      /\ \A g \in G : \E n \in 1 .. Len(emitted') : emitted'[n].segment = g.segment
  BY PassSends
<1>4. Enumerates(q, G)
  BY <1>1, PassEnumerates
<1> HIDE DEF q, L, G
<1>5. Len(q) \in Nat /\ \A k \in 1 .. Len(q) : q[k] \in G
  BY <1>4 DEF Enumerates
<1>6. /\ Len(emitted') = L + Len(q)
      /\ \A k \in 1 .. Len(q) : emitted'[L + k].segment = q[k].segment
  BY <1>1 DEF Sends, L
<1>7. ASSUME NEW n \in 1 .. Len(emitted'), emitted'[n].segment.track # 0
      PROVE  /\ emitted'[n].segment.speaker = emitted'[n].segment.track
             /\ \E r : /\ Family(emitted', emitted_until', audio', r)
                       /\ Units(emitted'[n].segment) \subseteq Units(r)
  <2>1. CASE n <= L
    <3>1. n \in 1 .. L /\ emitted'[n] = emitted[n]
      BY <1>2, <1>3, <2>1
    <3>2. /\ emitted[n].segment.speaker = emitted[n].segment.track
          /\ \E r : /\ Family(emitted, emitted_until, audio', r)
                    /\ Units(emitted[n].segment) \subseteq Units(r)
      BY <1>7, <3>1 DEF Families, L
    <3>3. \A r : Family(emitted, emitted_until, audio', r)
                 => Family(emitted', emitted_until', audio', r)
      BY <1>2, <1>3, FamilyExtends DEF L
    <3>4. QED
      BY <3>1, <3>2, <3>3
  <2>2. CASE L < n
    <3>1. n - L \in 1 .. Len(q) /\ n = L + (n - L)
      BY <1>2, <1>5, <1>6, <2>2
    <3>2. PICK k \in 1 .. Len(q) : n = L + k
      BY <3>1
    <3>3. q[k] \in G /\ emitted'[n].segment = q[k].segment
      BY <1>5, <1>6, <3>2
    <3>4. PICK i \in ClosedRuns(audio', ring', force) :
              \E x \in Given(audio', ring', force, i) :
                 q[k] = [closed |-> i.end_ms, segment |-> x]
      BY <3>3, GroupsOf DEF G
    <3>5. PICK x \in Given(audio', ring', force, i) :
              q[k] = [closed |-> i.end_ms, segment |-> x]
      BY <3>4
    <3>6. emitted'[n].segment = x
      BY <3>3, <3>5
    <3>7. PICK r \in Handled(audio', ring', force, i) : x \in Sources(r, Turns(audio'))
      <4>1. x.track # 0
        BY <1>7, <3>6
      <4>2. QED
        BY <1>1, <4>1, GivenFacts DEF Transcribes
    <3>8. r \in Regions(audio', ring')
      BY DEF Handled
    <3>9. Piece(r, Len(audio')) /\ TurnsOf(Turns(audio'), Len(audio'))
      BY <1>1, <3>8, RegionEnds, RecordedTurns DEF Recorded
    <3>10. Separated(Sources(r, Turns(audio')), r, Turns(audio'))
      BY <3>9, SourcesSeparated
    <3>11. x.track = x.speaker /\ Units(x) \subseteq Units(r)
      BY <3>7, <3>10 DEF Separated
    <3>12. Family(emitted', emitted_until', audio', r)
      BY <1>1, <1>3, NewFamily DEF G
    <3>13. QED
      BY <3>6, <3>11, <3>12
  <2>3. QED
    BY <1>2, <1>3, <2>1, <2>2
<1>8. QED
  BY <1>7 DEF Families

(* Of the events that were sent.                                             *)
FamilyInv == Families(emitted, emitted_until, audio)

(* More audio keeps the families: what was sent is behind it.                *)
LEMMA AudioKeepsFamilies ==
    ASSUME TypeInv, FrontInv, FamilyInv, NEW kind \in Sounds, audio' = Append(audio, kind),
           ring' = Lesser(ring + 1, Ring), state = "STREAMING", LongSilences(audio')
    PROVE  Families(emitted, emitted_until, audio') /\ Quiet(audio')
<1>1. /\ Now \in Nat /\ Len(audio) = Now /\ emitted_until \in Nat /\ audio \in Seq(Sounds)
      /\ \A n \in 1 .. Len(emitted) : emitted[n] \in Emitted
  BY Types
<1>2. /\ audio' \in Seq(Sounds) /\ Len(audio') = Now + 1
      /\ \A n \in 1 .. Now : audio'[n] = audio[n]
  BY AudioGrows
<1>3. emitted_until = 0 \/ (emitted_until < Now /\ audio[emitted_until + 1] = Silence)
  BY DEF FrontInv
<1>4. Quiet(audio')
  BY <1>1, <1>2, <1>3 DEF Quiet
<1>5. CASE emitted_until = 0
  <2>1. ASSUME NEW n \in 1 .. Len(emitted) PROVE FALSE
    <3>1. /\ emitted[n].segment.start_ms \in Nat /\ emitted[n].segment.end_ms \in Nat
      BY <1>1 DEF Emitted, Segment
    <3>2. /\ emitted[n].segment.start_ms < emitted[n].segment.end_ms
          /\ emitted[n].segment.end_ms <= 0
      BY <1>5 DEF FrontInv, Tidy
    <3>3. QED
      BY <3>1, <3>2
  <2>2. QED
    BY <1>4, <2>1 DEF Families
<1>6. CASE emitted_until < Now /\ audio[emitted_until + 1] = Silence
  <2>1. /\ Len(audio) <= Len(audio') /\ emitted_until < Len(audio)
        /\ audio[emitted_until + 1] = Silence
        /\ \A n \in 1 .. Len(audio) : audio'[n] = audio[n]
    BY <1>1, <1>2, <1>6
  <2>2. \A r : Family(emitted, emitted_until, audio, r)
               => Family(emitted, emitted_until, audio', r)
    BY <1>1, <1>2, <2>1, FamilyStays
  <2>3. QED
    BY <1>4, <2>2 DEF Families, FamilyInv
<1>7. QED
  BY <1>3, <1>5, <1>6

(* Each step keeps the families.                                             *)
LEMMA FamilyKeeps ==
    ASSUME TypeInv, FrontInv, FamilyInv, LongSilences(audio'), [Next]_vars
    PROVE  FamilyInv'
<1>1. CASE UNCHANGED vars
  BY <1>1 DEF vars, FamilyInv
<1>2. ASSUME NEW kind \in Sounds, Push(kind) PROVE FamilyInv'
  <2>1. /\ audio' = Append(audio, kind) /\ ring' = Lesser(ring + 1, Ring)
        /\ state = "STREAMING" /\ emitted' = emitted /\ emitted_until' = emitted_until
    BY <1>2 DEF Push
  <2>2. QED
    BY <2>1, AudioKeepsFamilies DEF FamilyInv
<1>3. ASSUME NEW kind \in Sounds, PushFails(kind) PROVE FamilyInv'
  <2>1. /\ audio' = Append(audio, kind) /\ ring' = Lesser(ring + 1, Ring)
        /\ state = "STREAMING" /\ emitted' = emitted /\ emitted_until' = emitted_until
    BY <1>3 DEF PushFails
  <2>2. QED
    BY <2>1, AudioKeepsFamilies DEF FamilyInv
<1>4. ASSUME NEW kind \in Sounds, PushAndProcess(kind) PROVE FamilyInv'
  <2>1. /\ audio' = Append(audio, kind) /\ ring' = Lesser(ring + 1, Ring)
        /\ state = "STREAMING"
    BY <1>4 DEF PushAndProcess
  <2>2. Families(emitted, emitted_until, audio') /\ Quiet(audio')
    BY <2>1, AudioKeepsFamilies
  <2>3. Pass(FALSE)
    BY <1>4, PushPasses
  <2>4. QED
    BY <2>2, <2>3, PassFamilies DEF FamilyInv
<1>5. ASSUME ForcedProcess, UNCHANGED <<audio, ring>> PROVE FamilyInv'
  <2>1. Pass(TRUE) /\ audio' = audio
    BY <1>5, ForcedPasses
  <2>2. Quiet(audio') /\ Families(emitted, emitted_until, audio')
    BY <2>1, Types DEF Quiet, FrontInv, FamilyInv
  <2>3. QED
    BY <2>1, <2>2, PassFamilies DEF FamilyInv
<1>6. CASE Finalize
  BY <1>5, <1>6 DEF Finalize
<1>7. CASE FinalizeFails
  <2>1. UNCHANGED <<audio, ring>>
    BY <1>7 DEF FinalizeFails
  <2>2. CASE ForcedProcess
    BY <1>5, <2>1, <2>2
  <2>3. CASE ForcedProcessFails
    BY <2>1, <2>3 DEF ForcedProcessFails, FamilyInv
  <2>4. QED
    BY <1>7, <2>2, <2>3 DEF FinalizeFails
<1>8. QED
  BY <1>1, <1>2, <1>3, <1>4, <1>6, <1>7 DEF Next

(* With the whole recording the region of a family may begin earlier, but it *)
(* ends where it ended.                                                      *)
LEMMA FamilyRegion ==
    ASSUME NEW sound, sound \in Seq(Sounds), NEW list, NEW until,
           NEW r, Family(list, until, sound, r)
    PROVE  \E f \in AllRegions(sound) : Units(r) \subseteq Units(f) /\ f.end_ms = r.end_ms
<1> DEFINE O == Joined(sound)
           N == Len(sound)
<1>1. TurnsOf(Turns(sound), N) /\ N \in Nat
  BY RecordedTurns
<1>2. O \subseteq 0 .. N - 1
  BY JoinedBetween
<1>3. O \subseteq Nat /\ IsFiniteSet(O)
  BY <1>1, <1>2, BoundedUnits
<1>4. AllRegions(sound) = {f \in Runs(O) : Duration(f) >= MinDuration}
  BY <1>1, RegionsAre DEF AllRegions, Joined
<1> HIDE DEF O, N
<1>5. /\ r \in AnInterval /\ r.start_ms \in Nat /\ r.end_ms \in Nat /\ r.start_ms < r.end_ms
      /\ Units(r) \subseteq O /\ r.end_ms \notin O /\ Duration(r) >= MinDuration
  BY DEF Family, Piece, AnInterval, O
<1>6. r.start_ms \in Units(r)
  BY <1>5, UnitsOf
<1>7. PICK f \in Runs(O) : r.start_ms \in Units(f)
  BY <1>3, <1>5, <1>6, RunCovers
<1>8. IsRun(f, O)
  BY <1>3, RunsPartition
<1>9. f.start_ms <= r.start_ms /\ r.end_ms <= f.end_ms /\ Units(r) \subseteq Units(f)
  BY <1>5, <1>6, <1>7, <1>8, IntervalInRun
<1>10. f.start_ms \in Nat /\ f.end_ms \in Nat
  BY <1>8 DEF IsRun, AnInterval
<1>11. f.end_ms = r.end_ms
  <2>1. SUFFICES ASSUME r.end_ms < f.end_ms PROVE FALSE
    BY <1>5, <1>9, <1>10
  <2>2. r.end_ms \in Units(f)
    BY <1>5, <1>9, <1>10, <2>1, UnitsOf
  <2>3. QED
    BY <1>5, <1>8, <2>2 DEF IsRun
<1>12. Duration(f) >= MinDuration
  <2>1. MinDuration \in Nat
    BY RegionAssumption DEF OverlapDetectionConfig
  <2>2. QED
    BY <1>5, <1>9, <1>10, <2>1 DEF Duration
<1>13. QED
  BY <1>4, <1>7, <1>9, <1>11, <1>12

(* The segment of a speaker of an interval lies in it, with all her words.   *)
LEMMA SpeakerSegment ==
    ASSUME NEW turns, NEW N, TurnsOf(turns, N), NEW r, Piece(r, N), NEW s \in Speakers,
           NEW w \in Units(r), s \in turns[w],
           NEW x, x = SegmentOf(Span(WordsOf(s, r, turns)), s, s)
    PROVE  x \in Segment /\ x.track = s /\ w \in Units(x) /\ Units(x) \subseteq Units(r)
<1> DEFINE words == WordsOf(s, r, turns)
<1>1. /\ r.start_ms \in Nat /\ r.end_ms \in Nat /\ r.end_ms <= N /\ N \in Nat
  BY DEF Piece, AnInterval, TurnsOf
<1>2. Units(r) \subseteq 0 .. N - 1
  BY <1>1 DEF Units
<1>3. words \subseteq Units(r) /\ w \in words
  BY DEF WordsOf
<1>4. words \subseteq 0 .. N - 1 /\ words # {}
  BY <1>2, <1>3
<1> HIDE DEF words
<1>5. /\ Span(words) \in AnInterval /\ Span(words).start_ms \in words
      /\ Span(words).end_ms - 1 \in words /\ words \subseteq Units(Span(words))
  BY <1>1, <1>4, SpanOf
<1>6. s \in Nat
  BY SpeakerAssumption
<1>7. x \in Segment /\ x.track = s /\ Units(x) = Units(Span(words))
  BY <1>5, <1>6, SegmentOfFields DEF words
<1> DEFINE p == Span(words)
<1> HIDE DEF p
<1>8. p.start_ms \in Nat /\ p.end_ms \in Nat
  BY <1>5 DEF AnInterval, p
<1>9. p.start_ms \in Units(r) /\ p.end_ms - 1 \in Units(r)
  BY <1>3, <1>5 DEF p
<1>10. r.start_ms <= p.start_ms /\ p.end_ms - 1 < r.end_ms
  BY <1>1, <1>9, UnitsOf
<1>11. Units(p) \subseteq Units(r)
  BY <1>1, <1>8, <1>10 DEF Units
<1>12. QED
  BY <1>3, <1>5, <1>7, <1>11 DEF p

-----------------------------------------------------------------------------
(* What the finals supersede *)

(* done are the finals of a recording, each with the best event that was     *)
(* left for it.                                                              *)
Chosen(done, list, sound) ==
    /\ \E K \in Nat : DOMAIN done = 1 .. K
    /\ \A f \in DOMAIN done : done[f].segment \in FinalSet(sound)
    /\ \A f, g \in DOMAIN done : done[f].segment = done[g].segment => f = g
    /\ \A f \in DOMAIN done :
          \/ /\ Available(list, done[f].segment, Used(done, f)) = {}
             /\ done[f].supersedes = 0
          \/ Best(list, done[f].segment, Used(done, f), done[f].supersedes)

(* f supersedes a segment of another source.                                 *)
Crosses(done, list, f) ==
    /\ done[f].supersedes # 0
    /\ list[done[f].supersedes].segment.track # 0
    /\ list[done[f].supersedes].segment.track # done[f].segment.track

(* Everything a final supersedes has a unit in common with it.               *)
LEMMA SupersededMeets ==
    ASSUME NEW sound, sound \in Seq(Sounds), NEW list, list \in Seq(Emitted),
           NEW until, Tidy(list, until), NEW done, Chosen(done, list, sound),
           NEW f \in DOMAIN done, done[f].supersedes # 0
    PROVE  LET m == done[f].supersedes
           IN  /\ m \in 1 .. Len(list) /\ m \notin Used(done, f)
               /\ Best(list, done[f].segment, Used(done, f), m)
               /\ \E u \in Units(list[m].segment) : u \in Units(done[f].segment)
<1> DEFINE m == done[f].supersedes
           y == done[f].segment
<1>1. Best(list, y, Used(done, f), m)
  BY DEF Chosen
<1> HIDE DEF m
<1>2. m \in 1 .. Len(list) /\ m \notin Used(done, f) /\ Common(list, y, m) > 0
  BY <1>1 DEF Best, Available
<1>3. y \in Segment /\ y.start_ms < y.end_ms
  <2>1. y \in FinalSet(sound)
    BY DEF Chosen
  <2>2. y \in BoundedSegments(Len(sound))
    BY <2>1, FinalSetFacts DEF Transcribes
  <2>3. QED
    BY <2>2 DEF BoundedSegments
<1>4. list[m].segment \in Segment /\ list[m].segment.start_ms < list[m].segment.end_ms
  <2>1. list[m] \in Emitted
    BY <1>2
  <2>2. list[m].segment.start_ms < list[m].segment.end_ms
    BY <1>2 DEF Tidy
  <2>3. QED
    BY <2>1, <2>2 DEF Emitted
<1>5. Intersection(list[m].segment, y) > 0
  BY <1>2 DEF Common
<1> HIDE DEF y
<1>6. \E u \in Units(list[m].segment) : u \in Units(y)
  BY <1>3, <1>4, <1>5, IntersectsHasUnit DEF Segment
<1>7. QED
  BY <1>1, <1>2, <1>6 DEF m, y

(* No final supersedes a segment of another source: the first one that did   *)
(* would have had a segment of its own source to choose.                     *)
LEMMA NoFirstCross ==
    ASSUME NEW sound, sound \in Seq(Sounds), NEW list, list \in Seq(Emitted),
           NEW until, Tidy(list, until), until \in 0 .. Len(sound),
           Families(list, until, sound), NEW done, Chosen(done, list, sound),
           NEW f \in DOMAIN done, Crosses(done, list, f),
           \A g \in 1 .. f - 1 : ~ Crosses(done, list, g)
    PROVE  FALSE
<1> DEFINE m == done[f].supersedes
           y == done[f].segment
           turns == Turns(sound)
           N == Len(sound)
<1>1. m # 0 /\ list[m].segment.track # 0 /\ list[m].segment.track # y.track
  BY DEF Crosses
<1>2. /\ m \in 1 .. Len(list) /\ Best(list, y, Used(done, f), m)
      /\ \E u \in Units(list[m].segment) : u \in Units(y)
  BY <1>1, SupersededMeets
<1>3. y \in FinalSet(sound)
  BY DEF Chosen
<1>4. TurnsOf(turns, N) /\ N \in Nat
  BY RecordedTurns
<1> HIDE DEF m, y, turns, N
<1>5. PICK u \in Units(list[m].segment) : u \in Units(y)
  BY <1>2
<1>6. PICK r : Family(list, until, sound, r) /\ Units(list[m].segment) \subseteq Units(r)
  BY <1>1, <1>2 DEF Families
<1>7. PICK R \in AllRegions(sound) : Units(r) \subseteq Units(R) /\ R.end_ms = r.end_ms
  BY <1>6, FamilyRegion
<1>8. u \in Units(r) /\ u \in Units(R)
  BY <1>5, <1>6, <1>7
<1>9. y.track # 0 /\ y \in Sources(R, turns)
  BY <1>3, <1>5, <1>7, <1>8, FinalAt DEF turns
<1>10. Piece(R, N)
  BY <1>4, <1>7, RegionsApart DEF AllRegions, N, turns
<1>11. Separated(Sources(R, turns), R, turns)
  BY <1>4, <1>10, SourcesSeparated
<1> DEFINE s == y.track
           w == y.end_ms - 1
<1>12. /\ y \in Segment /\ y.start_ms < y.end_ms /\ Units(y) \subseteq Units(R)
       /\ y.speaker = s /\ s \in Speakers /\ s \in turns[w]
  BY <1>9, <1>11 DEF Separated
<1>13. /\ y.start_ms \in Nat /\ y.end_ms \in Nat
       /\ R.start_ms \in Nat /\ R.end_ms \in Nat
       /\ r.start_ms \in Nat /\ r.end_ms \in Nat
  BY <1>6, <1>10, <1>12 DEF Segment, Piece, AnInterval, Family
<1>14. Piece(r, N)
  BY <1>4, <1>6, <1>13 DEF Family, Piece, N
<1>15. w \in Units(y) /\ w \in Units(R) /\ w \in Units(r)
  <2>1. w \in Units(y)
    <3>1. y.start_ms \in Nat /\ y.end_ms \in Nat /\ y.start_ms < y.end_ms
      BY <1>12, <1>13
    <3>2. w \in y.start_ms .. y.end_ms - 1
      BY <3>1
    <3>3. QED
      BY <3>2 DEF Units
  <2>2. w \in Units(R)
    BY <1>12, <2>1
  <2>3. u \in Nat /\ u < y.end_ms
    BY <1>5, <1>13, UnitsOf
  <2>4. r.start_ms <= u
    BY <1>8, <1>13, UnitsOf
  <2>5. w \in Nat /\ w < R.end_ms
    BY <1>13, <2>2, UnitsOf
  <2>6. r.start_ms <= w /\ w < r.end_ms
    BY <1>7, <1>13, <2>3, <2>4, <2>5
  <2>7. QED
    BY <1>13, <2>1, <2>2, <2>5, <2>6, UnitsOf
<1> HIDE DEF s, w
<1>16. s \in ActiveIn(r, turns)
  BY <1>12, <1>15 DEF ActiveIn
<1>17. PICK k \in 1 .. Len(list) :
           list[k].segment = SegmentOf(Span(WordsOf(s, r, turns)), s, s)
  BY <1>6, <1>16 DEF Family, turns
<1>18. /\ list[k].segment \in Segment /\ list[k].segment.track = s
       /\ w \in Units(list[k].segment) /\ Units(list[k].segment) \subseteq Units(r)
  BY <1>4, <1>12, <1>14, <1>15, <1>17, SpeakerSegment
<1>19. Common(list, y, k) > 0
  <2>1. list[k].segment.start_ms < list[k].segment.end_ms
    BY <1>17 DEF Tidy
  <2>2. Intersects(list[k].segment, y)
    BY <1>12, <1>15, <1>18, <2>1, IntersectsHasUnit DEF Segment
  <2>3. QED
    BY <1>12, <1>18, <2>1, <2>2, IntersectsHasUnit DEF Segment, Common
<1>20. SameTrack(list, y, k) /\ ~ SameTrack(list, y, m)
  BY <1>1, <1>18 DEF SameTrack, s
<1>21. ~ Preferred(list, y, m, k)
  BY <1>20 DEF Preferred
<1>22. k \in Used(done, f)
  BY <1>2, <1>17, <1>19, <1>21 DEF Best, Available
<1>23. PICK g \in 1 .. f - 1 : done[g].supersedes = k
  BY <1>22 DEF Used
<1>24. g \in DOMAIN done /\ g # f
  <2>1. PICK K \in Nat : DOMAIN done = 1 .. K
    BY DEF Chosen
  <2>2. QED
    BY <1>23, <2>1
<1> DEFINE z == done[g].segment
<1>25. z \in FinalSet(sound)
  BY <1>24 DEF Chosen
<1>26. k # 0
  BY <1>17
<1>27. PICK v \in Units(list[k].segment) : v \in Units(z)
  BY <1>23, <1>24, <1>26, SupersededMeets
<1>28. z.track = s
  <2>1. ~ Crosses(done, list, g)
    BY <1>23
  <2>2. s # 0
    BY <1>9 DEF s
  <2>3. QED
    BY <1>18, <1>23, <1>26, <2>1, <2>2 DEF Crosses
<1> HIDE DEF z
<1>29. z \in Sources(R, turns)
  <2>1. v \in Units(R)
    BY <1>7, <1>18, <1>27
  <2>2. QED
    BY <1>7, <1>25, <1>27, <2>1, FinalAt DEF turns
<1>30. z = y
  BY <1>9, <1>11, <1>12, <1>28, <1>29 DEF Separated
<1>31. QED
  BY <1>24, <1>30 DEF Chosen, z, y

(* By the first that would: no final segment supersedes a provisional one    *)
(* of another source.                                                        *)
LEMMA NoneCrosses ==
    ASSUME NEW sound, sound \in Seq(Sounds), NEW list, list \in Seq(Emitted),
           NEW until, Tidy(list, until), until \in 0 .. Len(sound),
           Families(list, until, sound), NEW done, Chosen(done, list, sound),
           NEW f \in DOMAIN done
    PROVE  ~ Crosses(done, list, f)
<1> DEFINE S == {g \in DOMAIN done : Crosses(done, list, g)}
<1>1. SUFFICES ASSUME S # {} PROVE FALSE
  OBVIOUS
<1>2. PICK K \in Nat : DOMAIN done = 1 .. K
  BY DEF Chosen
<1>3. S \subseteq Nat
  BY <1>2
<1> HIDE DEF S
<1>4. PICK g \in S : \A k \in S : g <= k
  BY <1>1, <1>3, LeastNumber
<1>5. g \in 1 .. K /\ Crosses(done, list, g)
  BY <1>2 DEF S
<1>6. ASSUME NEW k \in 1 .. g - 1 PROVE ~ Crosses(done, list, k)
  <2>1. k \in DOMAIN done /\ ~ (g <= k)
    BY <1>2, <1>5
  <2>2. QED
    BY <1>4, <2>1 DEF S
<1>7. QED
  BY <1>2, <1>5, <1>6, NoFirstCross

(* No event is superseded twice, and what is confirmed is superseded by its  *)
(* confirmation.                                                             *)
LEMMA Confirming ==
    ASSUME NEW sound, sound \in Seq(Sounds), NEW list, list \in Seq(Emitted),
           NEW until, Tidy(list, until), until \in 0 .. Len(sound),
           Families(list, until, sound), NEW done, Chosen(done, list, sound),
           NEW n \in 1 .. Len(list), NEW f \in DOMAIN done,
           list[n].segment = done[f].segment
    PROVE  done[f].supersedes = n
<1> DEFINE x == done[f].segment
<1>1. PICK K \in Nat : DOMAIN done = 1 .. K
  BY DEF Chosen
<1>2. x \in FinalSet(sound) /\ list[n].segment = x
  BY DEF Chosen
<1>3. Apart(FinalSet(sound)) /\ FinalSet(sound) \subseteq BoundedSegments(Len(sound))
  BY FinalSetFacts DEF Transcribes
<1> HIDE DEF x
<1>4. x \in Segment /\ x.start_ms \in Nat /\ x.end_ms \in Nat /\ x.start_ms < x.end_ms
  BY <1>2, <1>3 DEF BoundedSegments, Segment
<1>5. n \notin Used(done, f)
  <2>1. SUFFICES ASSUME n \in Used(done, f) PROVE FALSE
    OBVIOUS
  <2>2. PICK g \in 1 .. f - 1 : done[g].supersedes = n
    BY <2>1 DEF Used
  <2>3. g \in DOMAIN done /\ g # f /\ n # 0
    BY <1>1, <2>2
  <2> DEFINE y == done[g].segment
  <2>4. y \in FinalSet(sound) /\ y # x
    BY <2>3 DEF Chosen, x
  <2>5. PICK u \in Units(x) : u \in Units(y)
    BY <1>2, <2>2, <2>3, SupersededMeets
  <2>6. ~ Crosses(done, list, g)
    BY <2>3, NoneCrosses
  <2>7. x.track = 0 \/ x.track = y.track
    BY <1>2, <2>2, <2>3, <2>6 DEF Crosses
  <2> HIDE DEF y
  <2>8. x.track # 0 /\ x.speaker # y.speaker
    BY <1>2, <1>3, <2>4, <2>5 DEF Apart
  <2>9. y.track # 0 /\ y.track = x.track
    BY <2>7, <2>8
  <2>10. \A z \in FinalSet(sound) : z.track # 0 => z.speaker = z.track
    <3>1. SUFFICES ASSUME NEW z \in FinalSet(sound), z.track # 0 PROVE z.speaker = z.track
      OBVIOUS
    <3>2. PICK r \in AllRegions(sound) : z \in Sources(r, Turns(sound))
      BY <3>1, FinalSetFacts DEF Transcribes
    <3>3. TurnsOf(Turns(sound), Len(sound)) /\ 0 .. Len(sound) - 1 \subseteq 0 .. Len(sound) - 1
      BY RecordedTurns
    <3>4. Piece(r, Len(sound))
      BY <3>3, RegionsApart DEF AllRegions
    <3>5. Separated(Sources(r, Turns(sound)), r, Turns(sound))
      BY <3>3, <3>4, SourcesSeparated
    <3>6. QED
      BY <3>2, <3>5 DEF Separated
  <2>11. QED
    BY <1>2, <2>4, <2>8, <2>9, <2>10
<1>6. Common(list, x, n) > 0 /\ SameTrack(list, x, n)
  <2>1. Intersects(x, x)
    BY <1>4 DEF Intersects
  <2>2. QED
    BY <1>2, <1>4, <2>1, IntersectsHasUnit DEF Common, SameTrack
<1>7. n \in Available(list, x, Used(done, f))
  BY <1>5, <1>6 DEF Available
<1>8. Best(list, x, Used(done, f), done[f].supersedes)
  BY <1>7 DEF Chosen, x
<1> DEFINE m == done[f].supersedes
<1> HIDE DEF m
<1>9. m \in Available(list, x, Used(done, f)) /\ Preferred(list, x, m, n)
  BY <1>7, <1>8 DEF Best, m
<1>10. m \in 1 .. Len(list) /\ m # 0
  BY <1>9 DEF Available
<1>11. list[m].segment.track = x.track
  BY <1>6, <1>9 DEF Preferred, SameTrack
<1>12. PICK u \in Units(list[m].segment) : u \in Units(x)
  BY <1>10, SupersededMeets DEF m, x
<1>13. \/ list[n].segment.speaker = list[m].segment.speaker
       \/ list[n].segment.track = 0
  BY <1>2, <1>10, <1>11 DEF Families
<1>14. n = m
  BY <1>2, <1>10, <1>12, <1>13 DEF Tidy
<1>15. QED
  BY <1>14 DEF m

(* _match_provisional marks an event as used: no two final segments          *)
(* supersede the same one.                                                   *)
LEMMA NotTwice ==
    ASSUME NEW sound, sound \in Seq(Sounds), NEW list, list \in Seq(Emitted),
           NEW until, Tidy(list, until), NEW done, Chosen(done, list, sound),
           NEW f \in DOMAIN done, NEW g \in DOMAIN done, f # g, done[f].supersedes # 0
    PROVE  done[f].supersedes # done[g].supersedes
<1>1. PICK K \in Nat : DOMAIN done = 1 .. K
  BY DEF Chosen
<1>2. SUFFICES ASSUME NEW h \in DOMAIN done, NEW k \in DOMAIN done, h < k,
                      done[k].supersedes # 0
               PROVE  done[h].supersedes # done[k].supersedes
  BY <1>1
<1>3. done[k].supersedes \notin Used(done, k)
  BY <1>2, SupersededMeets
<1>4. h \in 1 .. k - 1
  BY <1>1, <1>2
<1>5. QED
  BY <1>3, <1>4 DEF Used

(* finalize() chooses so.                                                    *)
LEMMA FinalizeChooses ==
    ASSUME TypeInv, Finalize
    PROVE  Chosen(finals', emitted', audio')
<1> DEFINE segments == SortSegments(FinalSet(audio))
<1>1. audio' = audio /\ emitted' \in Seq(Emitted)
  BY FinalizePublishes DEF Finalize, Pass, Sends
<1>2. \E decoded : Published(decoded)
  BY FinalizePublishes
<1>3. /\ Enumerates(segments, FinalSet(audio)) /\ FinalSet(audio) \subseteq Segment
      /\ DOMAIN finals' = 1 .. Len(segments)
      /\ \A n \in 1 .. Len(segments) :
            /\ finals'[n].segment = segments[n]
            /\ finals'[n].supersedes
                 = Superseded(emitted', finals'[n].segment, Used(finals', n))
  BY <1>2 DEF Published
<1> HIDE DEF segments
<1>4. /\ Len(segments) \in Nat /\ DOMAIN segments = 1 .. Len(segments)
      /\ \A n \in 1 .. Len(segments) : segments[n] \in FinalSet(audio)
      /\ \A m, n \in 1 .. Len(segments) : segments[m] = segments[n] => m = n
  BY <1>3 DEF Enumerates
<1>5. \A f \in DOMAIN finals' : finals'[f].segment \in FinalSet(audio)
  BY <1>3, <1>4
<1>6. \A f, g \in DOMAIN finals' : finals'[f].segment = finals'[g].segment => f = g
  BY <1>3, <1>4
<1>7. ASSUME NEW f \in DOMAIN finals'
      PROVE  \/ /\ Available(emitted', finals'[f].segment, Used(finals', f)) = {}
                /\ finals'[f].supersedes = 0
             \/ Best(emitted', finals'[f].segment, Used(finals', f), finals'[f].supersedes)
  <2>1. finals'[f].segment \in Segment
    BY <1>3, <1>5
  <2>2. finals'[f].supersedes = Superseded(emitted', finals'[f].segment, Used(finals', f))
    BY <1>3
  <2>3. QED
    BY <1>1, <2>1, <2>2, SupersededBest
<1>8. QED
  BY <1>1, <1>3, <1>4, <1>5, <1>6, <1>7 DEF Chosen

(* Each step keeps what ConfirmedReplaced says.                              *)
LEMMA ConfirmedKeeps ==
    ASSUME TypeInv, FrontInv, FamilyInv, ConfirmedReplaced, LongSilences(audio'),
           [Next]_vars
    PROVE  ConfirmedReplaced'
<1>1. CASE UNCHANGED vars
  BY <1>1 DEF vars, ConfirmedReplaced
<1>2. TypeInv' /\ FrontInv' /\ FamilyInv'
  BY TypeKeeps, FrontKeeps, FamilyKeeps
<1>3. CASE state' # "FINALIZED"
  <2>1. finals' = <<>>
    BY <1>2, <1>3 DEF TypeInv
  <2>2. DOMAIN finals' = {}
    BY <2>1
  <2>3. QED
    BY <1>3, <2>2 DEF ConfirmedReplaced
<1>4. CASE Finalize
  <2>1. Chosen(finals', emitted', audio')
    BY <1>4, FinalizeChooses
  <2>2. /\ audio' \in Seq(Sounds) /\ emitted' \in Seq(Emitted)
        /\ DOMAIN emitted' = 1 .. Len(emitted') /\ emitted_until' \in 0 .. Len(audio')
    <3>1. Pass(TRUE)
      BY <1>4, FinalizePublishes
    <3>2. emitted' \in Seq(Emitted) /\ audio' \in Seq(Sounds)
      BY <3>1 DEF Pass, Sends, Recorded
    <3>3. emitted_until' \in 0 .. Len(audio')
      BY <3>1, PassTypes
    <3>4. QED
      BY <3>2, <3>3
  <2>3. Tidy(emitted', emitted_until') /\ Families(emitted', emitted_until', audio')
    BY <1>2 DEF FrontInv, FamilyInv
  <2>4. ASSUME NEW f \in DOMAIN finals', NEW g \in DOMAIN finals', f # g,
               finals'[f].supersedes # 0
        PROVE  finals'[f].supersedes # finals'[g].supersedes
    BY <2>1, <2>2, <2>3, <2>4, NotTwice
  <2>5. ASSUME NEW n \in DOMAIN emitted', NEW f \in DOMAIN finals',
               emitted'[n].segment = finals'[f].segment
        PROVE  finals'[f].supersedes = n
    BY <2>1, <2>2, <2>3, <2>5, Confirming
  <2>6. QED
    BY <2>4, <2>5 DEF ConfirmedReplaced
<1>5. CASE \E kind \in Sounds : Push(kind) \/ PushAndProcess(kind) \/ PushFails(kind)
  BY <1>3, <1>5 DEF Push, PushAndProcess, PushFails
<1>6. CASE FinalizeFails
  BY <1>3, <1>6 DEF FinalizeFails
<1>7. QED
  BY <1>1, <1>4, <1>5, <1>6 DEF Next

(* ConfirmedReplaced: no provisional segment is superseded twice, and one    *)
(* that the final pass confirms is superseded by its confirmation, although  *)
(* the loop of _final_pass takes the finals one by one and each takes the    *)
(* best event that is left (_superseded_event_id); again as long as no       *)
(* silence is so short that merging regions would close it.                  *)
THEOREM ConfirmedAreReplaced == Spec /\ []SilencesLong => []ConfirmedReplaced
<1> DEFINE Inv == TypeInv /\ FrontInv /\ FamilyInv /\ ConfirmedReplaced
<1>1. Init => Inv
  <2>1. SUFFICES ASSUME Init PROVE FamilyInv /\ ConfirmedReplaced
    BY TypeInit, FrontInit
  <2>2. Len(emitted) = 0 /\ DOMAIN finals = {} /\ state # "FINALIZED"
    BY <2>1 DEF Init
  <2>3. QED
    BY <2>2 DEF FamilyInv, Families, ConfirmedReplaced
<1>2. Inv /\ SilencesLong' /\ [Next]_vars => Inv'
  BY TypeKeeps, FrontKeeps, FamilyKeeps, ConfirmedKeeps DEF SilencesLong
<1>3. QED
  BY <1>1, <1>2, PTL DEF Spec

(* The three together without a condition on the recording, for a merge that *)
(* closes no gap (merge_gap_seconds below one unit of time): no word is sent *)
(* twice, closed speech is sent, confirmed provisionals are replaced.        *)
THEOREM SoundWithoutMerging ==
    ASSUME MergeGap = 0
    PROVE  Spec => [](SentOnce /\ ClosedSpeechSent /\ ConfirmedReplaced)
<1>1. SilencesLong
  BY NoGapsToClose DEF SilencesLong
<1>2. Spec /\ []SilencesLong => []ClosedSpeechSent
  BY ClosedSpeechIsSent
<1>3. QED
  BY <1>1, <1>2, NoWordTwice, ConfirmedAreReplaced, PTL
=============================================================================
