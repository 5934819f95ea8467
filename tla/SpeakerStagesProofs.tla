------------------------- MODULE SpeakerStagesProofs -------------------------
(***************************************************************************)
(* What the methods of SessionSpeakerState and the stages both pipelines    *)
(* share keep of the roster, for every number of clusters, enrolled people  *)
(* and sources and every max_session_speakers.                              *)
(***************************************************************************)
EXTENDS SpeakerStages, FiniteSetTheorems, SequenceTheorems, NaturalsInduction,
        WellFoundedInduction, TLAPS

-----------------------------------------------------------------------------
(* A sound roster *)

(* Where get() ends when merges are one hop deep.                            *)
Canonical(r, s) == IF r.merged[s] = None THEN s ELSE r.merged[s]

(* A place that nobody has taken holds no merge, evidence or person.         *)
Blank(r, s) == r.merged[s] = None /\ r.proto[s] = None /\ r.registry[s] = None

(* Only a MERGED speaker points elsewhere, at one who stays: neither merged  *)
(* nor provisional, since only provisional identities are merged away.       *)
MergedOnce(r, s) ==
    /\ r.merged[s] # None <=> r.state[s] = "MERGED"
    /\ r.merged[s] # None =>
          /\ r.merged[s] \in Speakers(r)
          /\ r.merged[r.merged[s]] = None
          /\ r.state[r.merged[s]] # "PROVISIONAL"

(* A prototype carries the key of its speaker or of one merged into it.      *)
Keyed(r, s) ==
    r.proto[s] # None =>
        /\ r.state[s] # "UNKNOWN"
        /\ r.proto[s] \in Speakers(r)
        /\ r.merged[s] = None => Canonical(r, r.proto[s]) = s

(* Whoever was created for a cluster is not provisional and stays.           *)
Clustered(r, s) ==
    r.cluster[s] # None =>
        /\ r.merged[s] = None /\ r.state[s] # "PROVISIONAL"
        /\ \A t \in Speakers(r) : r.cluster[t] = r.cluster[s] => t = s

(* The sink alone is called Unknown.                                         *)
Sunk(r, s) == r.label[s] = UnattributedLabel <=> s = r.sink

Sound(r) ==
    /\ r \in Roster
    /\ \A s \in Ids : s > r.count => Blank(r, s)
    /\ \A s \in Speakers(r) : MergedOnce(r, s) /\ Keyed(r, s) /\ Clustered(r, s) /\ Sunk(r, s)
    /\ \A s \in Ids : r.cannot[s] \subseteq Speakers(r)
    /\ r.sink # None => r.sink \in Speakers(r) /\ r.merged[r.sink] = None

(* The two sides of a constraint, wherever they were merged to.              *)
Apart(r, p, q) ==
    LET a == Canonical(r, p)
        b == Canonical(r, q)
    IN  a = b \/ \E x \in r.cannot[a] : Canonical(r, x) = b

(* The roster and the sets of speakers that refer to it.                     *)
StageInv ==
    /\ Sound(roster)
    /\ window \subseteq Clusters
    /\ tracks \in Nat
    /\ links \subseteq Speakers(roster)
    /\ crop \subseteq Speakers(roster)
    /\ region \subseteq Speakers(roster)
    /\ heard \subseteq Speakers(roster)
    /\ together \subseteq Speakers(roster) \X Speakers(roster)
    /\ \A p \in together : Apart(roster, p[1], p[2])
    /\ \A c \in window : ByCluster(roster, c) # None

(* While speakers are created nobody has been merged, so that the number of  *)
(* speakers is the number of active ones; the sink comes on top.             *)
NoMerge(r) == \A s \in Speakers(r) : r.merged[s] = None
Bounded(r) == r.count <= MaxSessionSpeakers + (IF r.sink = None THEN 0 ELSE 1)

-----------------------------------------------------------------------------
(* Lookup *)

(* Every set of natural numbers that is not empty has a least one, which     *)
(* First finds.                                                              *)
LEMMA FirstIsLeast ==
    ASSUME NEW S, S \subseteq Nat, S # {}
    PROVE  First(S) \in S /\ \A t \in S : First(S) <= t
<1> DEFINE less == {p \in Nat \X Nat : p[1] < p[2]}
<1>1. IsWellFoundedOn(less, Nat)
  BY NatLessThanWellFounded DEF OpToRel
<1>2. \A k, n \in Nat : <<k, n>> \in less <=> k < n
  OBVIOUS
<1> HIDE DEF less
<1>3. \E n \in S : \A k \in S : ~ (<<k, n>> \in less)
  BY <1>1, WFMin, Zenon
<1>4. \A k, n \in Nat : ~ (<<k, n>> \in less) => n <= k
  BY <1>2
<1>5. \E n \in S : \A k \in S : n <= k
  BY <1>3, <1>4, Zenon
<1>6. QED
  BY <1>5, Zenon DEF First

(* The fields of a roster.                                                   *)
LEMMA RosterFields ==
    ASSUME NEW r \in Roster
    PROVE  /\ r.count \in Nat /\ r.count <= MaxSessionSpeakers + 1
           /\ r.state \in [Ids -> IdentityState]
           /\ r.merged \in [Ids -> Ids \union {None}]
           /\ r.cannot \in [Ids -> SUBSET Ids]
           /\ r.cluster \in [Ids -> Clusters \union {None}]
           /\ r.proto \in [Ids -> Ids \union {None}]
           /\ r.label \in [Ids -> Labels]
           /\ r.registry \in [Ids -> Registry \union {None}]
           /\ r.labels \in Nat /\ r.temps \in Nat
           /\ r.sink \in Ids \union {None}
           /\ r.pending \in Seq(Ids \X Labels)
           /\ Speakers(r) \subseteq Ids
           /\ Ids \subseteq Nat /\ None \notin Ids /\ MaxSessionSpeakers \in Nat
<1>1. MaxSessionSpeakers \in Nat
  BY BoundAssumption
<1>2. QED
  BY <1>1 DEF Roster, Ids, None, Speakers

(* get() on a sound roster: one hop at most, to a speaker who is active.     *)
LEMMA GetIsCanonical ==
    ASSUME NEW r, Sound(r), NEW s \in Ids
    PROVE  /\ Get(r, s) = Canonical(r, s)
           /\ r.merged[Canonical(r, s)] = None
           /\ s \in Speakers(r) => Canonical(r, s) \in Active(r)
<1> DEFINE g == [x \in Ids |-> Canonical(r, x)]
           Item(f, x) == IF r.merged[x] = None THEN x ELSE f[r.merged[x]]
           Solves(f) == f = [x \in Ids |-> Item(f, x)]
           h == CHOOSE f : Solves(f)
<1>0. /\ r.merged \in [Ids -> Ids \union {None}] /\ r.count \in Nat
      /\ Speakers(r) \subseteq Ids /\ Ids \subseteq Nat /\ None \notin Ids
  BY RosterFields DEF Sound
<1>1. \A x \in Ids : r.merged[x] # None =>
          /\ r.merged[x] \in Ids /\ x \in Speakers(r) /\ r.merged[x] \in Speakers(r)
          /\ r.merged[r.merged[x]] = None
  <2> SUFFICES ASSUME NEW x \in Ids, r.merged[x] # None
               PROVE  /\ r.merged[x] \in Ids /\ x \in Speakers(r) /\ r.merged[x] \in Speakers(r)
                      /\ r.merged[r.merged[x]] = None
    OBVIOUS
  <2>1. ~ (x > r.count)
    BY DEF Sound, Blank
  <2>2. x \in Speakers(r)
    BY <1>0, <2>1 DEF Speakers, Ids
  <2>3. QED
    BY <1>0, <2>2 DEF Sound, MergedOnce
<1>2. Get(r, s) = h[s]
  BY DEF Get
<1>3. \A x \in Ids : g[x] = Item(g, x)
  BY <1>0, <1>1 DEF Canonical
<1>4. Solves(h)
  <2>1. Solves(g)
    <3>1. g = [x \in Ids |-> g[x]]
      OBVIOUS
    <3> HIDE DEF g, Item
    <3>2. QED
      BY <1>3, <3>1
  <2> HIDE DEF Solves, g
  <2>2. \E f : Solves(f)
    BY <2>1
  <2>3. QED
    BY <2>2
<1>5. \A x \in Ids : h[x] = Item(h, x)
  BY <1>4
<1> HIDE DEF h, g, Solves
<1>6. CASE r.merged[s] = None
  BY <1>0, <1>2, <1>5, <1>6 DEF Canonical, Active
<1>7. CASE r.merged[s] # None
  <2>1. h[s] = h[r.merged[s]] /\ h[r.merged[s]] = r.merged[s]
    BY <1>1, <1>5, <1>7
  <2>2. QED
    BY <1>1, <1>2, <1>7, <2>1 DEF Canonical, Active
<1>8. QED
  BY <1>6, <1>7

(* by_cluster() finds an active speaker of the cluster, or there is none.    *)
LEMMA ClusterHolder ==
    ASSUME NEW r, Sound(r), NEW c
    PROVE  /\ ByCluster(r, c) # None =>
                 ByCluster(r, c) \in Active(r) /\ r.cluster[ByCluster(r, c)] = c
           /\ ByCluster(r, c) = None => \A s \in Active(r) : r.cluster[s] # c
<1> DEFINE holders == {s \in Active(r) : r.cluster[s] = c}
<1>1. holders \subseteq Nat /\ None \notin holders
  BY RosterFields DEF Sound, Active
<1>2. ByCluster(r, c) = IF holders = {} THEN None ELSE First(holders)
  BY DEF ByCluster
<1>3. holders # {} => First(holders) \in holders
  BY <1>1, FirstIsLeast
<1>4. QED
  BY <1>1, <1>2, <1>3

-----------------------------------------------------------------------------
(* What the methods keep *)

(* A roster with one more speaker: everybody else is as before, the new one  *)
(* is not yet merged and has no evidence.                                    *)
Joined(r, q, n) ==
    /\ q \in Roster /\ n = r.count + 1 /\ q.count = n
    /\ q.merged = r.merged /\ q.cannot = r.cannot /\ q.proto = r.proto
    /\ q.registry = r.registry
    /\ \A s \in Ids \ {n} : /\ q.state[s] = r.state[s] /\ q.label[s] = r.label[s]
                            /\ q.cluster[s] = r.cluster[s]
    /\ q.state[n] # "MERGED"
    /\ q.cluster[n] # None =>
          /\ q.state[n] # "PROVISIONAL"
          /\ \A s \in Active(r) : r.cluster[s] # q.cluster[n]
    /\ q.sink = r.sink \/ (r.sink = None /\ q.sink = n)
    /\ q.label[n] = UnattributedLabel <=> q.sink = n

(* Such a roster is sound.                                                   *)
LEMMA NewSpeakerSound ==
    ASSUME NEW r, Sound(r), NEW q, NEW n, Joined(r, q, n)
    PROVE  /\ Sound(q)
           /\ n \in Ids \ Speakers(r) /\ Speakers(q) = Speakers(r) \union {n}
           /\ q.merged[n] = None /\ q.proto[n] = None /\ q.registry[n] = None
<1> USE DEF Joined
<1>1. /\ r.count \in Nat /\ n \in Ids /\ Speakers(r) \subseteq Ids /\ Ids \subseteq Nat
      /\ None \notin Ids /\ n \notin Speakers(r) /\ Speakers(q) = Speakers(r) \union {n}
      /\ Speakers(q) \subseteq Ids
  <2>1. r \in Roster /\ r.count \in Nat
    BY RosterFields DEF Sound
  <2>2. q.count <= MaxSessionSpeakers + 1 /\ MaxSessionSpeakers \in Nat
    BY RosterFields
  <2>3. QED
    BY <2>1, <2>2 DEF Speakers, Ids, None
<1>2. Blank(r, n)
  BY <1>1 DEF Sound
<1>3. \A s \in Ids : s > q.count => Blank(q, s)
  <2> SUFFICES ASSUME NEW s \in Ids, s > q.count PROVE Blank(q, s)
    OBVIOUS
  <2>1. s > r.count
    BY <1>1
  <2>2. QED
    BY <2>1 DEF Sound, Blank
<1>4. ASSUME NEW s \in Speakers(r)
      PROVE  /\ MergedOnce(r, s) /\ Keyed(r, s) /\ Clustered(r, s) /\ Sunk(r, s)
             /\ s # n /\ q.state[s] = r.state[s] /\ q.label[s] = r.label[s]
             /\ q.cluster[s] = r.cluster[s]
  BY <1>1, <1>4 DEF Sound
<1>5. ASSUME NEW s \in Speakers(r) PROVE MergedOnce(q, s)
  BY <1>1, <1>4, <1>5 DEF MergedOnce
<1>6. ASSUME NEW s \in Speakers(r) PROVE Keyed(q, s)
  BY <1>1, <1>4, <1>6 DEF Keyed, Canonical
<1>7. ASSUME NEW s \in Speakers(r) PROVE Clustered(q, s)
  <2> SUFFICES ASSUME q.cluster[s] # None
               PROVE  /\ q.merged[s] = None /\ q.state[s] # "PROVISIONAL"
                      /\ \A t \in Speakers(q) : q.cluster[t] = q.cluster[s] => t = s
    BY DEF Clustered
  <2>1. /\ r.merged[s] = None /\ r.state[s] # "PROVISIONAL" /\ r.cluster[s] # None
        /\ \A t \in Speakers(r) : r.cluster[t] = r.cluster[s] => t = s
    BY <1>4 DEF Clustered
  <2>2. s \in Active(r)
    BY <2>1 DEF Active
  <2>3. q.cluster[n] # q.cluster[s]
    BY <1>4, <2>2
  <2>4. QED
    BY <1>1, <1>4, <2>1, <2>3
<1>8. ASSUME NEW s \in Speakers(r) PROVE Sunk(q, s)
  BY <1>1, <1>4, <1>8 DEF Sunk
<1>9. MergedOnce(q, n) /\ Keyed(q, n) /\ Sunk(q, n)
  BY <1>2 DEF MergedOnce, Keyed, Sunk, Blank
<1>10. Clustered(q, n)
  <2> SUFFICES ASSUME q.cluster[n] # None, NEW t \in Speakers(q), q.cluster[t] = q.cluster[n]
               PROVE  t = n
    BY <1>2 DEF Clustered, Blank
  <2>1. CASE t \in Speakers(r)
    <3>1. r.cluster[t] # None
      BY <1>4, <2>1
    <3>2. t \in Active(r)
      BY <1>4, <2>1, <3>1 DEF Clustered, Active
    <3>3. QED
      BY <1>4, <2>1, <3>2
  <2>2. QED
    BY <1>1, <2>1
<1>11. \A s \in Ids : q.cannot[s] \subseteq Speakers(q)
  BY <1>1 DEF Sound
<1>12. q.sink # None => q.sink \in Speakers(q) /\ q.merged[q.sink] = None
  BY <1>1, <1>2 DEF Sound, Blank
<1>13. \A s \in Speakers(q) : MergedOnce(q, s) /\ Keyed(q, s) /\ Clustered(q, s) /\ Sunk(q, s)
  BY <1>1, <1>5, <1>6, <1>7, <1>8, <1>9, <1>10
<1>14. Sound(q)
  BY <1>3, <1>11, <1>12, <1>13 DEF Sound
<1>15. QED
  BY <1>1, <1>2, <1>14 DEF Blank

(* A speaker gets its first evidence, under its own key.                     *)
LEMMA EvidenceSound ==
    ASSUME NEW r, Sound(r), NEW s \in Active(r), r.state[s] # "UNKNOWN", r.proto[s] = None,
           NEW q \in Roster, q.count = r.count, q.state = r.state, q.merged = r.merged,
           q.cannot = r.cannot, q.cluster = r.cluster, q.label = r.label,
           q.registry = r.registry, q.sink = r.sink, q.proto = [r.proto EXCEPT ![s] = s]
    PROVE  Sound(q)
<1>1. /\ Speakers(q) = Speakers(r) /\ s \in Speakers(r) /\ r.merged[s] = None
      /\ r.proto \in [Ids -> Ids \union {None}] /\ Speakers(r) \subseteq Ids
      /\ r.count \in Nat /\ Ids \subseteq Nat
  BY RosterFields DEF Sound, Active, Speakers
<1>2. \A t \in Ids : t > q.count => Blank(q, t)
  <2>1. ~ (s > r.count)
    BY <1>1 DEF Speakers
  <2>2. QED
    BY <1>1, <2>1 DEF Sound, Blank
<1>3. ASSUME NEW t \in Speakers(r)
      PROVE  MergedOnce(q, t) /\ Clustered(q, t) /\ Sunk(q, t)
  <2>1. MergedOnce(r, t) /\ Clustered(r, t) /\ Sunk(r, t)
    BY <1>3 DEF Sound
  <2>2. QED
    BY <1>1, <2>1 DEF MergedOnce, Clustered, Sunk
<1>4. ASSUME NEW t \in Speakers(r) PROVE Keyed(q, t)
  <2>1. Keyed(r, t)
    BY <1>4 DEF Sound
  <2>2. CASE t = s
    BY <1>1, <2>2 DEF Keyed, Canonical
  <2>3. CASE t # s
    BY <1>1, <2>1, <2>3 DEF Keyed, Canonical
  <2>4. QED
    BY <2>2, <2>3
<1>5. QED
  BY <1>1, <1>2, <1>3, <1>4 DEF Sound

(* Constraints among speakers can be added freely.                           *)
LEMMA ConstraintSound ==
    ASSUME NEW r, Sound(r), NEW q \in Roster, q.count = r.count, q.state = r.state,
           q.merged = r.merged, q.cluster = r.cluster, q.label = r.label,
           q.registry = r.registry, q.sink = r.sink, q.proto = r.proto,
           \A s \in Ids : q.cannot[s] \subseteq Speakers(r)
    PROVE  Sound(q)
<1>1. Speakers(q) = Speakers(r)
  BY DEF Speakers
<1>2. \A t \in Ids : t > q.count => Blank(q, t)
  BY DEF Sound, Blank
<1>3. ASSUME NEW t \in Speakers(r)
      PROVE  MergedOnce(q, t) /\ Keyed(q, t) /\ Clustered(q, t) /\ Sunk(q, t)
  <2>1. MergedOnce(r, t) /\ Keyed(r, t) /\ Clustered(r, t) /\ Sunk(r, t)
    BY <1>3 DEF Sound
  <2>2. QED
    BY <1>1, <2>1 DEF MergedOnce, Clustered, Sunk, Keyed, Canonical
<1>4. QED
  BY <1>1, <1>2, <1>3 DEF Sound

(* An active speaker is promoted, enrolled or given up; nobody becomes       *)
(* provisional or merged by it, and the sink keeps its label to itself.      *)
LEMMA ResolvedSound ==
    ASSUME NEW r, Sound(r), NEW s \in Active(r), NEW q \in Roster,
           q.count = r.count, q.merged = r.merged, q.cannot = r.cannot,
           q.cluster = r.cluster, q.sink = r.sink, q.proto = r.proto,
           \A t \in Ids \ {s} : /\ q.state[t] = r.state[t] /\ q.label[t] = r.label[t]
                                /\ q.registry[t] = r.registry[t],
           q.state[s] # "MERGED",
           q.state[s] = r.state[s] \/ q.state[s] # "PROVISIONAL",
           q.state[s] = "UNKNOWN" => q.proto[s] = None,
           q.label[s] = UnattributedLabel <=> s = q.sink
    PROVE  Sound(q)
<1>1. /\ Speakers(q) = Speakers(r) /\ s \in Speakers(r) /\ r.merged[s] = None
      /\ Speakers(r) \subseteq Ids /\ r.count \in Nat /\ Ids \subseteq Nat
  BY RosterFields DEF Sound, Active, Speakers
<1>2. \A t \in Ids : t > q.count => Blank(q, t)
  <2>1. ~ (s > r.count)
    BY <1>1 DEF Speakers
  <2>2. QED
    BY <2>1 DEF Sound, Blank
<1>3. ASSUME NEW t \in Speakers(r), t # s
      PROVE  q.state[t] = r.state[t] /\ q.label[t] = r.label[t]
  BY <1>1, <1>3
<1>4. ASSUME NEW t \in Speakers(r)
      PROVE  MergedOnce(q, t) /\ Keyed(q, t) /\ Clustered(q, t) /\ Sunk(q, t)
  <2>1. MergedOnce(r, t) /\ Keyed(r, t) /\ Clustered(r, t) /\ Sunk(r, t)
    BY <1>4 DEF Sound
  <2>2. MergedOnce(q, t)
    <3>1. q.merged[t] # None <=> q.state[t] = "MERGED"
      BY <1>1, <1>3, <2>1 DEF MergedOnce
    <3>2. q.merged[t] # None =>
              q.merged[t] \in Speakers(q) /\ q.merged[q.merged[t]] = None
      BY <1>1, <2>1 DEF MergedOnce
    <3>3. q.merged[t] # None => q.state[q.merged[t]] # "PROVISIONAL"
      BY <1>1, <1>3, <2>1 DEF MergedOnce
    <3>4. QED
      BY <3>1, <3>2, <3>3 DEF MergedOnce
  <2>3. Keyed(q, t)
    BY <1>1, <1>3, <2>1 DEF Keyed, Canonical
  <2>4. Clustered(q, t)
    BY <1>1, <1>3, <2>1 DEF Clustered
  <2>5. Sunk(q, t)
    BY <1>3, <2>1 DEF Sunk
  <2>6. QED
    BY <2>2, <2>3, <2>4, <2>5
<1>5. QED
  BY <1>1, <1>2, <1>4 DEF Sound

(* A provisional speaker is merged into one who stays.                       *)
MergedInto(r, q, a, b) ==
    /\ a \in Active(r) /\ b \in Active(r) /\ a # b
    /\ r.state[a] = "PROVISIONAL" /\ r.state[b] \notin {"PROVISIONAL", "UNKNOWN"}
    /\ a # r.sink /\ b # r.sink
    /\ q \in Roster /\ q.count = r.count /\ q.cluster = r.cluster
    /\ q.registry = r.registry /\ q.sink = r.sink
    /\ q.state = [r.state EXCEPT ![a] = "MERGED"]
    /\ q.merged = [r.merged EXCEPT ![a] = b]
    /\ q.proto = [r.proto EXCEPT ![b] = IF r.proto[b] = None THEN r.proto[a] ELSE r.proto[b]]
    /\ q.cannot = [r.cannot EXCEPT ![b] = r.cannot[b] \union (r.cannot[a] \ {b})]
    /\ q.label = [r.label EXCEPT ![a] = r.label[b]]

(* The merge is one hop deep, keys of the merged speaker lead to the other,  *)
(* and whoever was kept apart from either is kept apart from the other now.  *)
LEMMA MergeSound ==
    ASSUME NEW r, Sound(r), NEW q, NEW a, NEW b, MergedInto(r, q, a, b)
    PROVE  /\ Sound(q)
           /\ \A x, y \in Speakers(r) : Apart(r, x, y) => Apart(q, x, y)
<1> USE DEF MergedInto
<1>1. /\ Speakers(q) = Speakers(r) /\ Speakers(r) \subseteq Ids /\ Ids \subseteq Nat
      /\ None \notin Ids /\ r.count \in Nat
      /\ a \in Speakers(r) /\ b \in Speakers(r) /\ r.merged[a] = None /\ r.merged[b] = None
      /\ a \in Ids /\ b \in Ids
  BY RosterFields DEF Sound, Active, Speakers
<1>2. /\ r.state \in [Ids -> IdentityState] /\ r.merged \in [Ids -> Ids \union {None}]
      /\ r.cannot \in [Ids -> SUBSET Ids] /\ r.proto \in [Ids -> Ids \union {None}]
      /\ r.label \in [Ids -> Labels]
  BY RosterFields DEF Sound
<1>3. ASSUME NEW s \in Speakers(r)
      PROVE  MergedOnce(r, s) /\ Keyed(r, s) /\ Clustered(r, s) /\ Sunk(r, s) /\ s \in Ids
  BY <1>1, <1>3 DEF Sound
<1>4. \A s \in Speakers(r) : r.merged[s] # a
  BY <1>1, <1>3 DEF MergedOnce
<1>5. ASSUME NEW s \in Speakers(r)
      PROVE  /\ Canonical(q, s) = IF Canonical(r, s) = a THEN b ELSE Canonical(r, s)
             /\ Canonical(r, s) = a <=> s = a
  BY <1>1, <1>2, <1>3, <1>4, <1>5 DEF Canonical
<1>6. \A s \in Ids : s > q.count => Blank(q, s)
  <2>1. ~ (a > r.count) /\ ~ (b > r.count)
    BY <1>1 DEF Speakers
  <2>2. QED
    BY <1>1, <1>2, <2>1 DEF Sound, Blank
<1>7. ASSUME NEW s \in Speakers(r) PROVE MergedOnce(q, s)
  <2>1. CASE s = a
    BY <1>1, <1>2, <2>1 DEF MergedOnce
  <2>2. CASE s # a
    <3>1. q.merged[s] = r.merged[s] /\ q.state[s] = r.state[s]
      BY <1>1, <1>2, <1>3, <2>2
    <3>2. ASSUME r.merged[s] # None
          PROVE  /\ q.merged[r.merged[s]] = r.merged[r.merged[s]]
                 /\ q.state[r.merged[s]] = r.state[r.merged[s]]
      BY <1>1, <1>2, <1>3, <1>4, <3>2 DEF MergedOnce
    <3>3. MergedOnce(r, s)
      BY <1>3
    <3>4. QED
      BY <1>1, <3>1, <3>2, <3>3 DEF MergedOnce
  <2>3. QED
    BY <2>1, <2>2
<1>8. ASSUME NEW s \in Speakers(r) PROVE Keyed(q, s)
  <2> SUFFICES ASSUME q.proto[s] # None
               PROVE  /\ q.state[s] # "UNKNOWN" /\ q.proto[s] \in Speakers(q)
                      /\ q.merged[s] = None => Canonical(q, q.proto[s]) = s
    BY DEF Keyed
  <2>1. CASE s = a
    <3>1. q.proto[s] = r.proto[s] /\ q.state[s] = "MERGED" /\ q.merged[s] = b
      BY <1>1, <1>2, <2>1
    <3>2. r.proto[s] \in Speakers(r)
      BY <1>3, <3>1 DEF Keyed
    <3>3. QED
      BY <1>1, <3>1, <3>2
  <2>2. CASE s = b
    <3>1. q.state[s] = r.state[s] /\ r.state[s] # "UNKNOWN"
      BY <1>1, <1>2, <2>2
    <3>2. CASE r.proto[b] = None
      <4>1. q.proto[s] = r.proto[a]
        BY <1>1, <1>2, <2>2, <3>2
      <4>2. r.proto[a] \in Speakers(r) /\ Canonical(r, r.proto[a]) = a
        BY <1>1, <1>3, <4>1 DEF Keyed
      <4>3. QED
        BY <1>1, <1>5, <2>2, <3>1, <4>1, <4>2
    <3>3. CASE r.proto[b] # None
      <4>1. q.proto[s] = r.proto[b]
        BY <1>1, <1>2, <2>2, <3>3
      <4>2. r.proto[b] \in Speakers(r) /\ Canonical(r, r.proto[b]) = b
        BY <1>1, <1>3, <3>3 DEF Keyed
      <4>3. QED
        BY <1>1, <1>5, <2>2, <3>1, <4>1, <4>2
    <3>4. QED
      BY <3>2, <3>3
  <2>3. CASE s # a /\ s # b
    <3>1. q.proto[s] = r.proto[s] /\ q.state[s] = r.state[s] /\ q.merged[s] = r.merged[s]
      BY <1>1, <1>2, <1>3, <2>3
    <3>2. Keyed(r, s)
      BY <1>3
    <3>3. /\ q.state[s] # "UNKNOWN" /\ q.proto[s] \in Speakers(r)
          /\ q.merged[s] = None => Canonical(r, q.proto[s]) = s
      BY <3>1, <3>2 DEF Keyed
    <3>4. QED
      BY <1>1, <1>5, <2>3, <3>3
  <2>4. QED
    BY <2>1, <2>2, <2>3
<1>9. ASSUME NEW s \in Speakers(r) PROVE Clustered(q, s)
  <2>1. r.cluster[s] # None => s # a
    BY <1>3 DEF Clustered
  <2>2. s # a => q.merged[s] = r.merged[s] /\ q.state[s] = r.state[s]
    BY <1>1, <1>2, <1>3
  <2>3. QED
    BY <1>1, <1>3, <2>1, <2>2 DEF Clustered
<1>10. ASSUME NEW s \in Speakers(r) PROVE Sunk(q, s)
  <2>1. r.label[b] # UnattributedLabel
    BY <1>1, <1>3 DEF Sunk
  <2>2. q.label[s] = IF s = a THEN r.label[b] ELSE r.label[s]
    BY <1>1, <1>2, <1>3
  <2>3. QED
    BY <1>3, <2>1, <2>2 DEF Sunk
<1>11. \A s \in Ids : q.cannot[s] \subseteq Speakers(q)
  <2>1. r.cannot[a] \subseteq Speakers(r) /\ r.cannot[b] \subseteq Speakers(r)
    BY <1>1 DEF Sound
  <2>2. QED
    BY <1>1, <1>2, <2>1 DEF Sound
<1>12. q.sink # None => q.sink \in Speakers(q) /\ q.merged[q.sink] = None
  BY <1>1, <1>2 DEF Sound
<1>13. Sound(q)
  <2>1. \A s \in Speakers(q) : MergedOnce(q, s) /\ Keyed(q, s) /\ Clustered(q, s) /\ Sunk(q, s)
    BY <1>1, <1>7, <1>8, <1>9, <1>10
  <2>2. QED
    BY <1>6, <1>11, <1>12, <2>1 DEF Sound
<1>14. ASSUME NEW x \in Speakers(r), NEW y \in Speakers(r), Apart(r, x, y)
       PROVE  Apart(q, x, y)
  <2> DEFINE A == Canonical(r, x)
             B == Canonical(r, y)
             to(s) == IF s = a THEN b ELSE s
  <2>1. Canonical(q, x) = to(A) /\ Canonical(q, y) = to(B)
    BY <1>5
  <2>2. A \in Ids
    BY <1>1, <1>3 DEF Canonical, MergedOnce
  <2>3. CASE A = B
    BY <2>1, <2>3 DEF Apart
  <2>4. CASE A # B
    <3>1. PICK z \in r.cannot[A] : Canonical(r, z) = B
      BY <1>14, <2>4 DEF Apart
    <3>2. z \in Speakers(r)
      BY <2>2, <3>1 DEF Sound
    <3>3. Canonical(q, z) = to(B)
      BY <1>5, <3>1, <3>2
    <3>4. to(A) = to(B) \/ z \in q.cannot[to(A)]
      <4>1. CASE A = a
        <5>1. z # b \/ B = b
          BY <1>1, <3>1 DEF Canonical
        <5>2. QED
          BY <1>1, <1>2, <3>1, <4>1, <5>1
      <4>2. CASE A # a
        BY <1>1, <1>2, <2>2, <3>1, <4>2
      <4>3. QED
        BY <4>1, <4>2
    <3> HIDE DEF to, A, B
    <3>5. QED
      BY <2>1, <3>3, <3>4 DEF Apart
  <2>5. QED
    BY <2>3, <2>4
<1>15. QED
  BY <1>13, <1>14

-----------------------------------------------------------------------------
(* The methods *)

(* What every method keeps: nobody is forgotten, a cluster keeps its         *)
(* speaker, and whoever is kept apart stays apart.                           *)
Later(r, q) ==
    /\ Speakers(r) \subseteq Speakers(q)
    /\ \A s \in Active(r) : r.cluster[s] # None => s \in Active(q) /\ q.cluster[s] = r.cluster[s]
    /\ \A x, y \in Speakers(r) : Apart(r, x, y) => Apart(q, x, y)

(* Without a merge constraints only grow.                                    *)
LEMMA LaterWithoutMerge ==
    ASSUME NEW r, Sound(r), NEW q, Speakers(r) \subseteq Speakers(q), q.merged = r.merged,
           \A s \in Ids : r.cannot[s] \subseteq q.cannot[s],
           \A s \in Speakers(r) : q.cluster[s] = r.cluster[s]
    PROVE  Later(r, q)
<1>1. \A s \in Active(r) : r.cluster[s] # None => s \in Active(q) /\ q.cluster[s] = r.cluster[s]
  BY DEF Active
<1>2. ASSUME NEW x \in Speakers(r), NEW y \in Speakers(r), Apart(r, x, y)
      PROVE  Apart(q, x, y)
  <2>1. Canonical(r, x) \in Ids
    BY RosterFields DEF Sound, Canonical
  <2>2. \A z : Canonical(q, z) = Canonical(r, z)
    BY DEF Canonical
  <2>3. QED
    BY <1>2, <2>1, <2>2 DEF Apart
<1>3. QED
  BY <1>1, <1>2 DEF Later

(* A roster with one more speaker is a later one.                            *)
LEMMA JoinedLater ==
    ASSUME NEW r, Sound(r), NEW q, NEW n, Joined(r, q, n)
    PROVE  Later(r, q)
<1>1. Speakers(r) \subseteq Ids /\ n \notin Speakers(r) /\ Speakers(r) \subseteq Speakers(q)
  BY NewSpeakerSound, RosterFields DEF Sound
<1>2. \A s \in Ids : r.cannot[s] \subseteq q.cannot[s]
  BY DEF Joined
<1>3. \A s \in Speakers(r) : q.cluster[s] = r.cluster[s]
  BY <1>1 DEF Joined
<1>4. q.merged = r.merged
  BY DEF Joined
<1>5. QED
  BY <1>1, <1>2, <1>3, <1>4, LaterWithoutMerge

(* As long as nobody was merged, the bound on active speakers is one on IDs. *)
LEMMA RoomLeft ==
    ASSUME NEW r, Sound(r), NoMerge(r), CanAdmitSpeaker(r)
    PROVE  r.count + 1 <= MaxSessionSpeakers
<1>1. r.count \in Nat /\ MaxSessionSpeakers \in Nat
  BY RosterFields DEF Sound
<1>2. Active(r) = 1 .. r.count
  BY DEF Active, NoMerge, Speakers
<1>3. Cardinality(1 .. r.count) = r.count
  BY <1>1, FS_Interval
<1>4. QED
  BY <1>1, <1>2, <1>3 DEF CanAdmitSpeaker

(* Labels of different kinds differ.                                         *)
LEMMA LabelKinds ==
    /\ \A k \in Nat : /\ SpeakerLabel(k) \in Labels /\ SpeakerLabel(k) # UnattributedLabel
                      /\ TemporaryLabel(k) \in Labels /\ TemporaryLabel(k) # UnattributedLabel
    /\ \A person \in Registry : NameLabel(person) \in Labels /\ NameLabel(person) # UnattributedLabel
    /\ UnattributedLabel \in Labels
<1>1. /\ \A k : SpeakerLabel(k)[1] = "Speaker" /\ TemporaryLabel(k)[1] = "Temporary Speaker"
      /\ \A person : NameLabel(person)[1] = "Name"
      /\ UnattributedLabel[1] = "Unknown"
  BY DEF SpeakerLabel, TemporaryLabel, NameLabel, UnattributedLabel
<1>2. /\ \A k : SpeakerLabel(k) # UnattributedLabel /\ TemporaryLabel(k) # UnattributedLabel
      /\ \A person : NameLabel(person) # UnattributedLabel
  BY <1>1
<1>3. \A k \in Nat : SpeakerLabel(k) \in Labels /\ TemporaryLabel(k) \in Labels
  BY DEF SpeakerLabel, TemporaryLabel, Labels
<1>4. UnattributedLabel \in Labels /\ \A person \in Registry : NameLabel(person) \in Labels
  BY DEF Labels
<1>5. QED
  BY <1>2, <1>3, <1>4

(* _register(): the next ID, and nothing else.                               *)
Registered(r, q, state, cluster, label) ==
    LET n == r.count + 1
    IN  /\ q \in Roster /\ q.count = n /\ q.merged = r.merged
        /\ q.cannot = r.cannot /\ q.proto = r.proto /\ q.registry = r.registry
        /\ q.sink = r.sink /\ q.pending = r.pending
        /\ q.state = [r.state EXCEPT ![n] = state]
        /\ q.cluster = [r.cluster EXCEPT ![n] = cluster]
        /\ q.label = [r.label EXCEPT ![n] = label]

(* That is what _register() does while there is an ID left.                  *)
LEMMA RegisterFields ==
    ASSUME NEW r \in Roster, r.count + 1 <= MaxSessionSpeakers + 1,
           NEW state \in IdentityState, NEW cluster \in Clusters \union {None},
           NEW label \in Labels
    PROVE  Registered(r, Register(r, state, cluster, label), state, cluster, label)
<1>1. r.count \in Nat /\ MaxSessionSpeakers \in Nat
  BY RosterFields
<1>2. /\ r.count + 1 \in 0 .. (MaxSessionSpeakers + 1) /\ r.count + 1 \in Ids
  BY <1>1 DEF Ids
<1>3. QED
  BY <1>1, <1>2 DEF Register, Registered, Roster

(* ensure_cluster_speaker() for a cluster nobody holds yet.                  *)
LEMMA CreateSessionSpeakerSound ==
    ASSUME NEW r, Sound(r), NoMerge(r), CanAdmitSpeaker(r), NEW c \in Clusters,
           ByCluster(r, c) = None,
           NEW q, q = CreateSessionSpeaker(r, c)
    PROVE  /\ Sound(q) /\ Later(r, q) /\ q.count = r.count + 1 /\ q.count <= MaxSessionSpeakers
           /\ q.merged = r.merged /\ q.sink = r.sink /\ q.registry = r.registry
           /\ q.merged[q.count] = None /\ q.registry[q.count] = None
           /\ q.state = [r.state EXCEPT ![q.count] = "SESSION_ANONYMOUS"]
           /\ q.cluster = [r.cluster EXCEPT ![q.count] = c]
           /\ q.pending = r.pending
           /\ q.label = [r.label EXCEPT ![q.count] = SpeakerLabel(r.labels + 1)]
<1> DEFINE n == r.count + 1
<1>1. /\ r \in Roster /\ r.count \in Nat /\ MaxSessionSpeakers \in Nat /\ r.labels \in Nat
      /\ r.state \in [Ids -> IdentityState] /\ r.cluster \in [Ids -> Clusters \union {None}]
      /\ r.label \in [Ids -> Labels] /\ r.sink \in Ids \union {None} /\ None \notin Ids
  BY RosterFields DEF Sound
<1>2. n \in Ids /\ n \in 0 .. (MaxSessionSpeakers + 1) /\ n <= MaxSessionSpeakers
  BY <1>1, RoomLeft DEF Ids
<1>3. SpeakerLabel(r.labels + 1) \in Labels /\ SpeakerLabel(r.labels + 1) # UnattributedLabel
  BY <1>1, LabelKinds
<1>4. "SESSION_ANONYMOUS" \in IdentityState
  BY DEF IdentityState
<1>5. /\ q \in Roster /\ q.count = n /\ q.merged = r.merged /\ q.cannot = r.cannot
      /\ q.proto = r.proto /\ q.registry = r.registry /\ q.sink = r.sink /\ q.pending = r.pending
      /\ q.state = [r.state EXCEPT ![n] = "SESSION_ANONYMOUS"]
      /\ q.cluster = [r.cluster EXCEPT ![n] = c]
      /\ q.label = [r.label EXCEPT ![n] = SpeakerLabel(r.labels + 1)]
  <2> DEFINE t == [r EXCEPT !.labels = @ + 1]
  <2>1. /\ t \in Roster /\ t.count = r.count /\ t.merged = r.merged /\ t.cannot = r.cannot
        /\ t.proto = r.proto /\ t.registry = r.registry /\ t.sink = r.sink
        /\ t.pending = r.pending /\ t.state = r.state /\ t.cluster = r.cluster
        /\ t.label = r.label
    <3>1. r.labels + 1 \in Nat
      BY <1>1
    <3>2. t \in Roster
      BY <1>1, <3>1 DEF Roster
    <3>3. QED
      BY <1>1, <3>2 DEF Roster
  <2>2. q = Register(t, "SESSION_ANONYMOUS", c, SpeakerLabel(r.labels + 1))
    BY DEF CreateSessionSpeaker
  <2> HIDE DEF t
  <2>3. t.count + 1 <= MaxSessionSpeakers + 1
    BY <1>1, <1>2, <2>1
  <2>4. Registered(t, q, "SESSION_ANONYMOUS", c, SpeakerLabel(r.labels + 1))
    BY <1>3, <1>4, <2>1, <2>2, <2>3, RegisterFields
  <2>5. QED
    BY <2>1, <2>4 DEF Registered
<1>6. r.sink # n
  <2>1. r.sink # None => r.sink \in Speakers(r)
    BY DEF Sound
  <2>2. QED
    BY <1>1, <2>1 DEF Speakers, None
<1>7. /\ \A s \in Ids \ {n} : /\ q.state[s] = r.state[s] /\ q.label[s] = r.label[s]
                              /\ q.cluster[s] = r.cluster[s]
      /\ q.state[n] = "SESSION_ANONYMOUS" /\ q.cluster[n] = c
      /\ q.label[n] = SpeakerLabel(r.labels + 1)
  BY <1>1, <1>2, <1>5
<1>8. \A s \in Active(r) : r.cluster[s] # c
  BY ClusterHolder
<1> HIDE DEF n
<1>9. Joined(r, q, n)
  <2>1. /\ n = r.count + 1 /\ q.state[n] # "MERGED" /\ q.state[n] # "PROVISIONAL"
        /\ q.label[n] = UnattributedLabel <=> q.sink = n
    BY <1>3, <1>5, <1>6, <1>7 DEF n
  <2>2. QED
    BY <1>5, <1>7, <1>8, <2>1 DEF Joined
<1>10. /\ Sound(q) /\ n \in Ids \ Speakers(r) /\ Speakers(q) = Speakers(r) \union {n}
       /\ q.merged[n] = None /\ q.proto[n] = None /\ q.registry[n] = None /\ Later(r, q)
  BY <1>9, NewSpeakerSound, JoinedLater
<1>11. QED
  BY <1>2, <1>5, <1>10 DEF n

(* create_temporary_speaker() *)
LEMMA CreateTemporarySpeakerSound ==
    ASSUME NEW r, Sound(r), NoMerge(r), CanAdmitSpeaker(r),
           NEW q, q = CreateTemporarySpeaker(r)
    PROVE  /\ Sound(q) /\ Later(r, q) /\ q.count = r.count + 1 /\ q.count <= MaxSessionSpeakers
           /\ q.merged = r.merged /\ q.sink = r.sink /\ q.registry = r.registry
           /\ q.merged[q.count] = None /\ q.registry[q.count] = None
           /\ q.state = [r.state EXCEPT ![q.count] = "PROVISIONAL"]
           /\ q.pending = r.pending
           /\ q.label = [r.label EXCEPT ![q.count] = TemporaryLabel(r.temps + 1)]
<1> DEFINE n == r.count + 1
<1>1. /\ r \in Roster /\ r.count \in Nat /\ MaxSessionSpeakers \in Nat /\ r.temps \in Nat
      /\ r.state \in [Ids -> IdentityState] /\ r.cluster \in [Ids -> Clusters \union {None}]
      /\ r.label \in [Ids -> Labels] /\ r.sink \in Ids \union {None} /\ None \notin Ids
  BY RosterFields DEF Sound
<1>2. n \in Ids /\ n \in 0 .. (MaxSessionSpeakers + 1) /\ n <= MaxSessionSpeakers
  BY <1>1, RoomLeft DEF Ids
<1>3. TemporaryLabel(r.temps + 1) \in Labels /\ TemporaryLabel(r.temps + 1) # UnattributedLabel
  BY <1>1, LabelKinds
<1>4. "PROVISIONAL" \in IdentityState
  BY DEF IdentityState
<1>5. /\ q \in Roster /\ q.count = n /\ q.merged = r.merged /\ q.cannot = r.cannot
      /\ q.proto = r.proto /\ q.registry = r.registry /\ q.sink = r.sink /\ q.pending = r.pending
      /\ q.state = [r.state EXCEPT ![n] = "PROVISIONAL"]
      /\ q.cluster = [r.cluster EXCEPT ![n] = None]
      /\ q.label = [r.label EXCEPT ![n] = TemporaryLabel(r.temps + 1)]
  <2> DEFINE t == [r EXCEPT !.temps = @ + 1]
  <2>1. /\ t \in Roster /\ t.count = r.count /\ t.merged = r.merged /\ t.cannot = r.cannot
        /\ t.proto = r.proto /\ t.registry = r.registry /\ t.sink = r.sink
        /\ t.pending = r.pending /\ t.state = r.state /\ t.cluster = r.cluster
        /\ t.label = r.label
    <3>1. r.temps + 1 \in Nat
      BY <1>1
    <3>2. t \in Roster
      BY <1>1, <3>1 DEF Roster
    <3>3. QED
      BY <1>1, <3>2 DEF Roster
  <2>2. q = Register(t, "PROVISIONAL", None, TemporaryLabel(r.temps + 1))
    BY DEF CreateTemporarySpeaker
  <2> HIDE DEF t
  <2>3. t.count + 1 <= MaxSessionSpeakers + 1
    BY <1>1, <1>2, <2>1
  <2>4. Registered(t, q, "PROVISIONAL", None, TemporaryLabel(r.temps + 1))
    BY <1>3, <1>4, <2>1, <2>2, <2>3, RegisterFields
  <2>5. QED
    BY <2>1, <2>4 DEF Registered
<1>6. r.sink # n
  <2>1. r.sink # None => r.sink \in Speakers(r)
    BY DEF Sound
  <2>2. QED
    BY <1>1, <2>1 DEF Speakers, None
<1>7. /\ \A s \in Ids \ {n} : /\ q.state[s] = r.state[s] /\ q.label[s] = r.label[s]
                              /\ q.cluster[s] = r.cluster[s]
      /\ q.state[n] = "PROVISIONAL" /\ q.cluster[n] = None
      /\ q.label[n] = TemporaryLabel(r.temps + 1)
  BY <1>1, <1>2, <1>5
<1> HIDE DEF n
<1>8. Joined(r, q, n)
  <2>1. /\ n = r.count + 1 /\ q.state[n] # "MERGED"
        /\ q.label[n] = UnattributedLabel <=> q.sink = n
    BY <1>3, <1>5, <1>6, <1>7 DEF n
  <2>2. QED
    BY <1>5, <1>7, <2>1 DEF Joined
<1>9. /\ Sound(q) /\ n \in Ids \ Speakers(r) /\ Speakers(q) = Speakers(r) \union {n}
      /\ q.merged[n] = None /\ q.proto[n] = None /\ q.registry[n] = None /\ Later(r, q)
  BY <1>8, NewSpeakerSound, JoinedLater
<1>10. QED
  BY <1>2, <1>5, <1>9 DEF n

(* unattributed_speaker(): the first time the sink is registered, beyond the *)
(* bound; afterwards nothing changes.                                        *)
SinkAdded(r, q) ==
    /\ Sound(q) /\ Later(r, q) /\ Bounded(q) /\ q.sink # None
    /\ q.merged = r.merged /\ q.registry = r.registry /\ q.proto = r.proto
    /\ q.pending = r.pending
    /\ r.sink # None => q = r
    /\ r.sink = None =>
          /\ q.count = r.count + 1 /\ q.sink = q.count
          /\ q.merged[q.count] = None /\ q.registry[q.count] = None
          /\ q.proto[q.count] = None
          /\ q.state = [r.state EXCEPT ![q.count] = "UNKNOWN"]
          /\ q.label = [r.label EXCEPT ![q.count] = UnattributedLabel]

(* That is what it does to a roster within its bound.                        *)
LEMMA UnattributedSpeakerSound ==
    ASSUME NEW r, Sound(r), Bounded(r)
    PROVE  SinkAdded(r, UnattributedSpeaker(r))
<1> DEFINE q == UnattributedSpeaker(r)
<1>0. q = UnattributedSpeaker(r)
  OBVIOUS
<1> SUFFICES SinkAdded(r, q)
  OBVIOUS
<1> HIDE DEF q
<1>1. /\ r \in Roster /\ r.count \in Nat /\ MaxSessionSpeakers \in Nat
      /\ r.state \in [Ids -> IdentityState] /\ r.cluster \in [Ids -> Clusters \union {None}]
      /\ r.label \in [Ids -> Labels] /\ r.sink \in Ids \union {None} /\ None \notin Ids
  BY RosterFields DEF Sound
<1>2. CASE r.sink # None
  <2>1. q = r
    BY <1>0, <1>2 DEF UnattributedSpeaker
  <2>2. Later(r, r)
    BY DEF Later
  <2>3. QED
    BY <1>2, <2>1, <2>2 DEF SinkAdded
<1>3. CASE r.sink = None
  <2> DEFINE n == r.count + 1
             t == Register(r, "UNKNOWN", None, UnattributedLabel)
  <2>1. n \in Ids /\ n <= MaxSessionSpeakers + 1
    BY <1>1, <1>3 DEF Ids, Bounded
  <2>2. UnattributedLabel \in Labels /\ "UNKNOWN" \in IdentityState
    BY LabelKinds DEF IdentityState
  <2>3. /\ t \in Roster /\ t.count = n /\ t.merged = r.merged /\ t.cannot = r.cannot
        /\ t.proto = r.proto /\ t.registry = r.registry /\ t.pending = r.pending
        /\ t.state = [r.state EXCEPT ![n] = "UNKNOWN"]
        /\ t.cluster = [r.cluster EXCEPT ![n] = None]
        /\ t.label = [r.label EXCEPT ![n] = UnattributedLabel]
    <3>1. r.count + 1 <= MaxSessionSpeakers + 1 /\ None \in Clusters \union {None}
      BY <2>1
    <3>2. Registered(r, t, "UNKNOWN", None, UnattributedLabel)
      BY <1>1, <2>2, <3>1, RegisterFields
    <3> HIDE DEF t
    <3>3. QED
      BY <3>2 DEF Registered
  <2>4. q = [t EXCEPT !.sink = n]
    BY <1>0, <1>3 DEF UnattributedSpeaker
  <2> HIDE DEF t
  <2>5. /\ q \in Roster /\ q.count = n /\ q.merged = r.merged /\ q.cannot = r.cannot
        /\ q.proto = r.proto /\ q.registry = r.registry /\ q.pending = r.pending /\ q.sink = n
        /\ q.state = [r.state EXCEPT ![n] = "UNKNOWN"]
        /\ q.cluster = [r.cluster EXCEPT ![n] = None]
        /\ q.label = [r.label EXCEPT ![n] = UnattributedLabel]
    BY <2>1, <2>3, <2>4 DEF Roster
  <2>6. /\ \A s \in Ids \ {n} : /\ q.state[s] = r.state[s] /\ q.label[s] = r.label[s]
                                /\ q.cluster[s] = r.cluster[s]
        /\ q.state[n] = "UNKNOWN" /\ q.cluster[n] = None /\ q.label[n] = UnattributedLabel
    BY <1>1, <2>1, <2>5
  <2>7. Joined(r, q, n)
    BY <1>3, <2>5, <2>6 DEF Joined
  <2> HIDE DEF n
  <2>8. /\ Sound(q) /\ n \in Ids \ Speakers(r) /\ Speakers(q) = Speakers(r) \union {n}
        /\ q.merged[n] = None /\ q.proto[n] = None /\ q.registry[n] = None /\ Later(r, q)
    BY <2>7, NewSpeakerSound, JoinedLater
  <2>9. Bounded(q) /\ q.sink # None
    BY <1>1, <1>3, <2>1, <2>5 DEF Bounded
  <2>10. QED
    BY <1>3, <2>5, <2>8, <2>9 DEF n, SinkAdded
<1>4. QED
  BY <1>2, <1>3

(* Evidence and constraints are added, and nobody's identity is touched.     *)
SameIdentities(r, q) ==
    /\ q \in Roster /\ q.count = r.count /\ q.state = r.state /\ q.merged = r.merged
    /\ q.cluster = r.cluster /\ q.label = r.label /\ q.registry = r.registry
    /\ q.sink = r.sink /\ q.pending = r.pending

(* update_prototype() and buffer_provisional_embedding()                     *)
LEMMA PrototypeSound ==
    ASSUME NEW r, Sound(r), NEW id \in Speakers(r), NEW q,
           q = UpdatePrototype(r, id) \/ q = BufferProvisionalEmbedding(r, id)
    PROVE  Sound(q) /\ Later(r, q) /\ SameIdentities(r, q)
<1> DEFINE s == Get(r, id)
<1>1. /\ r \in Roster /\ Speakers(r) \subseteq Ids /\ id \in Ids
      /\ r.proto \in [Ids -> Ids \union {None}]
  BY RosterFields DEF Sound
<1>2. s \in Active(r) /\ s \in Ids
  BY <1>1, GetIsCanonical DEF Active
<1> HIDE DEF s
<1>3. CASE q = r
  <2>1. Later(r, r)
    BY DEF Later
  <2>2. SameIdentities(r, r)
    BY <1>1 DEF SameIdentities
  <2>3. QED
    BY <1>3, <2>1, <2>2
<1>4. CASE q # r
  <2>1. q = [r EXCEPT !.proto[s] = s] /\ r.proto[s] = None /\ r.state[s] # "UNKNOWN"
    BY <1>4 DEF UpdatePrototype, BufferProvisionalEmbedding, Embed, s
  <2>2. /\ SameIdentities(r, q) /\ q.cannot = r.cannot
        /\ q.proto = [r.proto EXCEPT ![s] = s]
    BY <1>1, <1>2, <2>1 DEF SameIdentities, Roster
  <2>3. Sound(q)
    BY <1>2, <2>1, <2>2, EvidenceSound DEF SameIdentities
  <2>4. /\ Speakers(r) \subseteq Speakers(q) /\ q.merged = r.merged
        /\ \A t \in Ids : r.cannot[t] \subseteq q.cannot[t]
        /\ \A t \in Speakers(r) : q.cluster[t] = r.cluster[t]
    BY <2>2 DEF SameIdentities, Speakers
  <2>5. QED
    BY <2>2, <2>3, <2>4, LaterWithoutMerge
<1>5. QED
  BY <1>3, <1>4

(* Constraints between speakers: the roster stays sound and who was apart    *)
(* stays apart.                                                              *)
LEMMA ConstraintLater ==
    ASSUME NEW r, Sound(r), NEW q, SameIdentities(r, q), q.proto = r.proto,
           \A s \in Ids : r.cannot[s] \subseteq q.cannot[s] /\ q.cannot[s] \subseteq Speakers(r)
    PROVE  Sound(q) /\ Later(r, q)
<1>1. Sound(q)
  BY ConstraintSound DEF SameIdentities
<1>2. /\ Speakers(r) \subseteq Speakers(q) /\ q.merged = r.merged
      /\ \A t \in Ids : r.cannot[t] \subseteq q.cannot[t]
      /\ \A t \in Speakers(r) : q.cluster[t] = r.cluster[t]
  BY DEF SameIdentities, Speakers
<1>3. QED
  BY <1>1, <1>2, LaterWithoutMerge

(* add_cannot_link() keeps the two apart from then on.                       *)
LEMMA CannotLinkSound ==
    ASSUME NEW r, Sound(r), NEW x \in Speakers(r), NEW y \in Speakers(r),
           NEW q, q = AddCannotLink(r, x, y)
    PROVE  /\ Sound(q) /\ Later(r, q) /\ SameIdentities(r, q)
           /\ Apart(q, x, y) /\ Apart(q, y, x)
<1> DEFINE a == Canonical(r, x)
           b == Canonical(r, y)
<1>1. /\ r \in Roster /\ Speakers(r) \subseteq Ids /\ x \in Ids /\ y \in Ids
      /\ r.cannot \in [Ids -> SUBSET Ids]
  BY RosterFields DEF Sound
<1>2. /\ a \in Active(r) /\ b \in Active(r) /\ Get(r, x) = a /\ Get(r, y) = b
      /\ r.merged[a] = None /\ r.merged[b] = None
  BY <1>1, GetIsCanonical
<1>3. a \in Speakers(r) /\ b \in Speakers(r) /\ a \in Ids /\ b \in Ids
  BY <1>1, <1>2 DEF Active
<1>4. \A s \in Ids : r.cannot[s] \subseteq Speakers(r)
  BY DEF Sound
<1>5. \A z : q.merged = r.merged => Canonical(q, z) = Canonical(r, z)
  BY DEF Canonical
<1>6. Canonical(r, a) = a /\ Canonical(r, b) = b
  BY <1>2 DEF Canonical
<1> HIDE DEF a, b
<1>7. CASE a = b
  <2>1. q = r
    BY <1>2, <1>7 DEF AddCannotLink
  <2>2. Later(r, r) /\ SameIdentities(r, r)
    BY <1>1 DEF Later, SameIdentities
  <2>3. Apart(r, x, y) /\ Apart(r, y, x)
    BY <1>7 DEF Apart, a, b
  <2>4. QED
    BY <2>1, <2>2, <2>3
<1>8. CASE a # b
  <2>1. q = [r EXCEPT !.cannot[a] = @ \union {b}, !.cannot[b] = @ \union {a}]
    BY <1>2, <1>8 DEF AddCannotLink
  <2>2. /\ SameIdentities(r, q) /\ q.proto = r.proto
        /\ q.cannot = [r.cannot EXCEPT ![a] = @ \union {b}, ![b] = @ \union {a}]
    <3> DEFINE f == [r.cannot EXCEPT ![a] = @ \union {b}, ![b] = @ \union {a}]
    <3>1. f \in [Ids -> SUBSET Ids]
      BY <1>1, <1>3
    <3>2. q = [r EXCEPT !.cannot = f]
      BY <1>1, <1>3, <1>8, <2>1 DEF Roster
    <3> HIDE DEF f
    <3>3. q \in Roster
      BY <1>1, <3>1, <3>2 DEF Roster
    <3>4. SameIdentities(r, q) /\ q.proto = r.proto /\ q.cannot = f
      BY <1>1, <3>2, <3>3 DEF SameIdentities, Roster
    <3>5. QED
      BY <3>4 DEF f
  <2>3. \A s \in Ids : r.cannot[s] \subseteq q.cannot[s] /\ q.cannot[s] \subseteq Speakers(r)
    BY <1>1, <1>3, <1>4, <2>2
  <2>4. b \in q.cannot[a] /\ a \in q.cannot[b]
    BY <1>1, <1>3, <2>2
  <2>5. Canonical(q, x) = a /\ Canonical(q, y) = b /\ Canonical(q, a) = a /\ Canonical(q, b) = b
    BY <1>5, <1>6, <2>2 DEF SameIdentities, a, b
  <2>6. Apart(q, x, y) /\ Apart(q, y, x)
    BY <2>4, <2>5 DEF Apart
  <2>7. QED
    BY <2>2, <2>3, <2>6, ConstraintLater
<1>9. QED
  BY <1>7, <1>8

(* A source's speaker and every speaker of its crop are kept apart.          *)
LEMMA AssignSound ==
    ASSUME NEW r, Sound(r), NEW id \in Speakers(r), crop \subseteq Speakers(r),
           NEW q, q = AssignInCrop(r, id)
    PROVE  /\ Sound(q) /\ Later(r, q) /\ SameIdentities(r, q)
           /\ \A x \in crop : Apart(q, id, x) /\ Apart(q, x, id)
<1> DEFINE a == Canonical(r, id)
           others == {Get(r, other) : other \in crop} \ {a}
<1>1. /\ r \in Roster /\ Speakers(r) \subseteq Ids /\ id \in Ids /\ crop \subseteq Ids
      /\ r.cannot \in [Ids -> SUBSET Ids]
  BY RosterFields DEF Sound
<1>2. /\ Get(r, id) = a /\ a \in Active(r) /\ a \in Speakers(r) /\ a \in Ids
      /\ Canonical(r, a) = a
  <2>1. Get(r, id) = a /\ a \in Active(r)
    BY <1>1, GetIsCanonical
  <2>2. QED
    BY <1>1, <2>1 DEF Active, Canonical
<1>3. ASSUME NEW x \in crop
      PROVE  /\ Get(r, x) = Canonical(r, x) /\ Canonical(r, x) \in Speakers(r)
             /\ Canonical(r, x) \in Ids /\ Canonical(r, Canonical(r, x)) = Canonical(r, x)
  <2>1. Get(r, x) = Canonical(r, x) /\ Canonical(r, x) \in Active(r)
    BY <1>1, <1>3, GetIsCanonical
  <2>2. QED
    BY <1>1, <2>1 DEF Active, Canonical
<1>4. others \subseteq Speakers(r) /\ a \notin others
  BY <1>3
<1>5. \A s \in Ids : r.cannot[s] \subseteq Speakers(r)
  BY DEF Sound
<1>6. q = [r EXCEPT !.cannot =
              [s \in Ids |-> CASE s = a        -> r.cannot[s] \union others
                               [] s \in others -> r.cannot[s] \union {a}
                               [] OTHER        -> r.cannot[s]]]
  BY <1>2 DEF AssignInCrop
<1>7. \A x \in crop : Canonical(r, x) # a => Canonical(r, x) \in others
  BY <1>3
<1> HIDE DEF a, others
<1>8. /\ q.count = r.count /\ q.state = r.state /\ q.merged = r.merged /\ q.cluster = r.cluster
      /\ q.label = r.label /\ q.registry = r.registry /\ q.sink = r.sink
      /\ q.pending = r.pending /\ q.proto = r.proto
      /\ \A s \in Ids : q.cannot[s] = CASE s = a        -> r.cannot[s] \union others
                                        [] s \in others -> r.cannot[s] \union {a}
                                        [] OTHER        -> r.cannot[s]
  BY <1>1, <1>6 DEF Roster
<1>9. /\ \A s \in Ids : r.cannot[s] \subseteq q.cannot[s] /\ q.cannot[s] \subseteq Speakers(r)
      /\ others \subseteq q.cannot[a] /\ \A s \in others : a \in q.cannot[s]
  <2>1. q.cannot[a] = r.cannot[a] \union others
    BY <1>2, <1>4, <1>8
  <2>2. ASSUME NEW s \in others PROVE q.cannot[s] = r.cannot[s] \union {a}
    BY <1>1, <1>4, <1>8
  <2>3. ASSUME NEW s \in Ids, s # a, s \notin others PROVE q.cannot[s] = r.cannot[s]
    BY <1>8, <2>3
  <2>4. QED
    BY <1>2, <1>4, <1>5, <2>1, <2>2, <2>3
<1>10. q \in Roster
  <2> DEFINE f == [s \in Ids |-> CASE s = a        -> r.cannot[s] \union others
                                   [] s \in others -> r.cannot[s] \union {a}
                                   [] OTHER        -> r.cannot[s]]
  <2>1. f \in [Ids -> SUBSET Ids]
    BY <1>1, <1>2, <1>4
  <2>2. q = [r EXCEPT !.cannot = f]
    BY <1>6
  <2> HIDE DEF f
  <2>3. QED
    BY <1>1, <2>1, <2>2 DEF Roster
<1>11. SameIdentities(r, q)
  BY <1>8, <1>10 DEF SameIdentities
<1>12. ASSUME NEW x \in crop PROVE Apart(q, id, x) /\ Apart(q, x, id)
  <2>1. \A z : Canonical(q, z) = Canonical(r, z)
    BY <1>8 DEF Canonical
  <2>2. Canonical(q, id) = a
    BY <2>1 DEF a
  <2>3. CASE Canonical(r, x) = a
    BY <2>1, <2>2, <2>3 DEF Apart
  <2>4. CASE Canonical(r, x) # a
    <3>1. Canonical(r, x) \in others
      BY <1>7, <2>4
    <3>2. Canonical(r, x) \in q.cannot[a] /\ a \in q.cannot[Canonical(r, x)]
      BY <1>9, <3>1
    <3>3. Canonical(q, Canonical(r, x)) = Canonical(r, x) /\ Canonical(q, a) = a
      BY <1>2, <1>3, <2>1
    <3>4. QED
      BY <2>1, <2>2, <3>2, <3>3 DEF Apart
  <2>5. QED
    BY <2>3, <2>4
<1>13. QED
  BY <1>8, <1>9, <1>11, <1>12, ConstraintLater

(* merge(): the speaker is gone from the active ones, its new label queued.  *)
MergedAway(r, q, a, b) ==
    /\ Sound(q) /\ Later(r, q) /\ q.count = r.count /\ q.sink = r.sink
    /\ q.registry = r.registry /\ q.cluster = r.cluster
    /\ q.state = [r.state EXCEPT ![a] = "MERGED"]
    /\ q.merged = [r.merged EXCEPT ![a] = b]
    /\ q.label = [r.label EXCEPT ![a] = r.label[b]]
    /\ q.pending = Append(r.pending, <<a, r.label[b]>>)
    /\ Active(q) = Active(r) \ {a}

(* That is what it does to a provisional speaker and one who is not.         *)
LEMMA MergeLater ==
    ASSUME NEW r, Sound(r), NEW x \in Speakers(r), NEW y \in Speakers(r),
           Canonical(r, x) # Canonical(r, y), r.state[Canonical(r, x)] = "PROVISIONAL",
           r.state[Canonical(r, y)] \notin {"PROVISIONAL", "UNKNOWN"},
           Canonical(r, x) # r.sink, Canonical(r, y) # r.sink
    PROVE  MergedAway(r, Merge(r, x, y), Canonical(r, x), Canonical(r, y))
<1> DEFINE a == Canonical(r, x)
           b == Canonical(r, y)
           q == Merge(r, x, y)
<1>1. /\ r \in Roster /\ Speakers(r) \subseteq Ids /\ x \in Ids /\ y \in Ids
      /\ r.state \in [Ids -> IdentityState] /\ r.merged \in [Ids -> Ids \union {None}]
      /\ r.cannot \in [Ids -> SUBSET Ids] /\ r.proto \in [Ids -> Ids \union {None}]
      /\ r.label \in [Ids -> Labels] /\ r.pending \in Seq(Ids \X Labels) /\ None \notin Ids
  BY RosterFields DEF Sound
<1>2. /\ Get(r, x) = a /\ Get(r, y) = b /\ a \in Active(r) /\ b \in Active(r)
      /\ a # b /\ r.state[a] = "PROVISIONAL" /\ r.state[b] \notin {"PROVISIONAL", "UNKNOWN"}
      /\ a # r.sink /\ b # r.sink
  BY <1>1, GetIsCanonical
<1> HIDE DEF a, b
<1>3. a \in Ids /\ b \in Ids /\ a \in Speakers(r)
  BY <1>1, <1>2 DEF Active
<1> DEFINE state == [r.state EXCEPT ![a] = "MERGED"]
           merged == [r.merged EXCEPT ![a] = b]
           proto == [r.proto EXCEPT ![b] = IF r.proto[b] = None THEN r.proto[a] ELSE r.proto[b]]
           cannot == [r.cannot EXCEPT ![b] = r.cannot[b] \union (r.cannot[a] \ {b})]
           label == [r.label EXCEPT ![a] = r.label[b]]
           pending == Append(r.pending, <<a, r.label[b]>>)
<1>4. /\ state \in [Ids -> IdentityState] /\ merged \in [Ids -> Ids \union {None}]
      /\ proto \in [Ids -> Ids \union {None}] /\ label \in [Ids -> Labels]
  BY <1>1, <1>3 DEF IdentityState
<1>5. cannot \in [Ids -> SUBSET Ids]
  BY <1>1, <1>3
<1>6. pending \in Seq(Ids \X Labels)
  <2>1. <<a, r.label[b]>> \in Ids \X Labels
    BY <1>1, <1>3
  <2>2. QED
    BY <1>1, <2>1, AppendProperties
<1>7. q = [r EXCEPT !.state = state, !.merged = merged, !.proto = proto, !.cannot = cannot,
                    !.label = label, !.pending = pending]
  BY <1>1, <1>2, <1>3 DEF Merge, Roster, q
<1> HIDE DEF state, merged, proto, cannot, label, pending, q
<1>8. /\ q.count = r.count /\ q.cluster = r.cluster /\ q.registry = r.registry /\ q.sink = r.sink
      /\ q.state = state /\ q.merged = merged /\ q.proto = proto /\ q.cannot = cannot
      /\ q.label = label /\ q.pending = pending
  BY <1>1, <1>7 DEF Roster
<1>9. q \in Roster
  BY <1>1, <1>4, <1>5, <1>6, <1>7 DEF Roster
<1> USE DEF state, merged, proto, cannot, label, pending
<1>10. Sound(q) /\ \A u, v \in Speakers(r) : Apart(r, u, v) => Apart(q, u, v)
  <2>1. MergedInto(r, q, a, b)
    BY <1>2, <1>8, <1>9 DEF MergedInto
  <2>2. QED
    BY <2>1, MergeSound
<1>11. Active(q) = Active(r) \ {a}
  <2>1. Speakers(q) = Speakers(r)
    BY <1>8 DEF Speakers
  <2>2. \A s \in Speakers(r) : q.merged[s] = IF s = a THEN b ELSE r.merged[s]
    BY <1>1, <1>3, <1>8
  <2>3. QED
    BY <1>1, <1>3, <2>1, <2>2 DEF Active
<1>12. \A s \in Active(r) : r.cluster[s] # None => s \in Active(q) /\ q.cluster[s] = r.cluster[s]
  <2>1. Clustered(r, a)
    BY <1>3 DEF Sound
  <2>2. r.cluster[a] = None
    BY <1>2, <2>1 DEF Clustered
  <2>3. QED
    BY <1>8, <1>11, <2>2
<1>13. Later(r, q)
  BY <1>8, <1>10, <1>12 DEF Later, Speakers
<1>14. QED
  BY <1>8, <1>10, <1>11, <1>13 DEF MergedAway, a, b, q

(* An active speaker other than the sink gets a new state, person or label.  *)
Resolved(r, q, s) ==
    /\ q \in Roster /\ s \in Active(r) /\ s # r.sink
    /\ q.count = r.count /\ q.merged = r.merged /\ q.cannot = r.cannot
    /\ q.cluster = r.cluster /\ q.sink = r.sink /\ q.proto = r.proto
    /\ \A t \in Ids \ {s} : /\ q.state[t] = r.state[t] /\ q.label[t] = r.label[t]
                            /\ q.registry[t] = r.registry[t]
    /\ q.state[s] # "MERGED"
    /\ q.state[s] = r.state[s] \/ q.state[s] # "PROVISIONAL"
    /\ q.state[s] = "UNKNOWN" => q.proto[s] = None
    /\ q.label[s] # UnattributedLabel

(* Nothing the roster promises depends on it.                                *)
LEMMA ResolvedLater ==
    ASSUME NEW r, Sound(r), NEW q, NEW s, Resolved(r, q, s)
    PROVE  Sound(q) /\ Later(r, q) /\ Active(q) = Active(r)
<1>1. Sound(q)
  BY ResolvedSound DEF Resolved
<1>2. /\ Speakers(r) \subseteq Speakers(q) /\ q.merged = r.merged
      /\ \A t \in Ids : r.cannot[t] \subseteq q.cannot[t]
      /\ \A t \in Speakers(r) : q.cluster[t] = r.cluster[t]
  BY DEF Resolved, Speakers
<1>3. Active(q) = Active(r)
  BY DEF Resolved, Active, Speakers
<1>4. QED
  BY <1>1, <1>2, <1>3, LaterWithoutMerge

(* promote_provisional() under a session label.                              *)
Promoted(r, q, s, label) ==
    /\ Resolved(r, q, s) /\ q.registry = r.registry
    /\ q.state = [r.state EXCEPT ![s] = "SESSION_ANONYMOUS"]
    /\ q.label = [r.label EXCEPT ![s] = label]
    /\ q.pending = Append(r.pending, <<s, label>>)

(* That is what it does for a provisional speaker.                           *)
LEMMA PromoteResolved ==
    ASSUME NEW r, Sound(r), NEW id \in Speakers(r), Canonical(r, id) # r.sink,
           r.state[Canonical(r, id)] = "PROVISIONAL",
           NEW label \in Labels, label # UnattributedLabel
    PROVE  Promoted(r, PromoteProvisionalAs(r, id, label), Canonical(r, id), label)
<1> DEFINE s == Canonical(r, id)
           q == PromoteProvisionalAs(r, id, label)
<1>1. s \in Active(r) /\ Get(r, id) = s /\ s # r.sink /\ r.state[s] = "PROVISIONAL"
  <2>1. id \in Ids
    BY RosterFields DEF Sound
  <2>2. QED
    BY <2>1, GetIsCanonical
<1>2. q = PromoteProvisionalAs(r, id, label)
  OBVIOUS
<1> HIDE DEF s, q
<1>3. /\ r \in Roster /\ Speakers(r) \subseteq Ids /\ id \in Ids /\ s \in Ids
      /\ r.state \in [Ids -> IdentityState] /\ r.label \in [Ids -> Labels]
      /\ r.pending \in Seq(Ids \X Labels)
  BY <1>1, RosterFields DEF Sound, Active
<1> DEFINE state == [r.state EXCEPT ![s] = "SESSION_ANONYMOUS"]
           new == [r.label EXCEPT ![s] = label]
           pending == Append(r.pending, <<s, label>>)
<1>4. state \in [Ids -> IdentityState] /\ new \in [Ids -> Labels]
  BY <1>3 DEF IdentityState
<1>5. pending \in Seq(Ids \X Labels)
  <2>1. <<s, label>> \in Ids \X Labels
    BY <1>3
  <2>2. QED
    BY <1>3, <2>1, AppendProperties
<1>6. q = [r EXCEPT !.state = state, !.label = new, !.pending = pending]
  BY <1>1, <1>3, <1>2 DEF PromoteProvisionalAs, Roster
<1> HIDE DEF state, new, pending
<1>7. /\ q.count = r.count /\ q.cluster = r.cluster /\ q.registry = r.registry /\ q.sink = r.sink
      /\ q.state = state /\ q.merged = r.merged /\ q.proto = r.proto /\ q.cannot = r.cannot
      /\ q.label = new /\ q.pending = pending
  BY <1>3, <1>6 DEF Roster
<1>8. q \in Roster
  BY <1>3, <1>4, <1>5, <1>6 DEF Roster
<1> USE DEF state, new, pending
<1>9. /\ \A t \in Ids \ {s} : /\ q.state[t] = r.state[t] /\ q.label[t] = r.label[t]
                              /\ q.registry[t] = r.registry[t]
      /\ q.state[s] = "SESSION_ANONYMOUS" /\ q.label[s] = label
  BY <1>3, <1>7
<1>10. Resolved(r, q, s)
  BY <1>1, <1>7, <1>8, <1>9 DEF Resolved
<1>11. QED
  BY <1>7, <1>10 DEF Promoted, s, q

(* apply_voice_id() with an "enrolled" decision.                             *)
LEMMA EnrolledResolved ==
    ASSUME NEW r, Sound(r), NEW s \in Active(r), s # r.sink, NEW person \in Registry,
           NEW q, q = ApplyEnrolled(r, s, person)
    PROVE  /\ Resolved(r, q, s) /\ q.registry = [r.registry EXCEPT ![s] = person]
           /\ q.state = [r.state EXCEPT ![s] =
                           IF @ \in {"PROVISIONAL", "SESSION_ANONYMOUS", "AMBIGUOUS"}
                           THEN "ENROLLED" ELSE @]
<1>1. /\ r \in Roster /\ Speakers(r) \subseteq Ids /\ s \in Ids /\ s \in Speakers(r)
      /\ r.merged[s] = None
      /\ r.state \in [Ids -> IdentityState] /\ r.label \in [Ids -> Labels]
      /\ r.registry \in [Ids -> Registry \union {None}] /\ r.pending \in Seq(Ids \X Labels)
  BY RosterFields DEF Sound, Active
<1>2. Get(r, s) = s
  BY <1>1, GetIsCanonical DEF Canonical
<1>3. NameLabel(person) \in Labels /\ NameLabel(person) # UnattributedLabel
  BY LabelKinds
<1> DEFINE state == [r.state EXCEPT ![s] =
                       IF r.state[s] \in {"PROVISIONAL", "SESSION_ANONYMOUS", "AMBIGUOUS"}
                       THEN "ENROLLED" ELSE r.state[s]]
           registry == [r.registry EXCEPT ![s] = person]
           new == [r.label EXCEPT ![s] = NameLabel(person)]
           pending == Append(r.pending, <<s, NameLabel(person)>>)
<1>4. /\ state \in [Ids -> IdentityState] /\ new \in [Ids -> Labels]
      /\ registry \in [Ids -> Registry \union {None}]
  BY <1>1, <1>3 DEF IdentityState
<1>5. pending \in Seq(Ids \X Labels)
  <2>1. <<s, NameLabel(person)>> \in Ids \X Labels
    BY <1>1, <1>3
  <2>2. QED
    BY <1>1, <2>1, AppendProperties
<1>6. q = [r EXCEPT !.state = state, !.registry = registry, !.label = new, !.pending = pending]
  BY <1>1, <1>2 DEF ApplyEnrolled, Roster
<1> HIDE DEF state, registry, new, pending
<1>7. /\ q.count = r.count /\ q.cluster = r.cluster /\ q.registry = registry /\ q.sink = r.sink
      /\ q.state = state /\ q.merged = r.merged /\ q.proto = r.proto /\ q.cannot = r.cannot
      /\ q.label = new
  BY <1>1, <1>6 DEF Roster
<1>8. q \in Roster
  <2> DEFINE t == [r EXCEPT !.state = state, !.registry = registry]
  <2>1. t \in Roster
    BY <1>1, <1>4 DEF Roster
  <2>2. q = [t EXCEPT !.label = new, !.pending = pending]
    BY <1>1, <1>6 DEF Roster
  <2> HIDE DEF t
  <2>3. QED
    BY <1>4, <1>5, <2>1, <2>2 DEF Roster
<1> USE DEF state, registry, new
<1>9. /\ \A t \in Ids \ {s} : /\ q.state[t] = r.state[t] /\ q.label[t] = r.label[t]
                              /\ q.registry[t] = r.registry[t]
      /\ q.state[s] = IF r.state[s] \in {"PROVISIONAL", "SESSION_ANONYMOUS", "AMBIGUOUS"}
                      THEN "ENROLLED" ELSE r.state[s]
      /\ q.label[s] = NameLabel(person)
  BY <1>1, <1>7
<1>10. r.state[s] # "MERGED" /\ (r.state[s] = "UNKNOWN" => r.proto[s] = None)
  <2>1. MergedOnce(r, s) /\ Keyed(r, s)
    BY <1>1 DEF Sound
  <2>2. QED
    BY <1>1, <2>1 DEF MergedOnce, Keyed
<1>11. Resolved(r, q, s)
  BY <1>3, <1>7, <1>8, <1>9, <1>10 DEF Resolved
<1>12. QED
  BY <1>7, <1>11

(* apply_voice_id() with an "ambiguous" decision.                            *)
LEMMA AmbiguousResolved ==
    ASSUME NEW r, Sound(r), NEW s \in Active(r), s # r.sink,
           NEW q, q = ApplyAmbiguous(r, s)
    PROVE  /\ Resolved(r, q, s) /\ q.registry = r.registry
           /\ q.state = [r.state EXCEPT ![s] = IF @ = "ENROLLED" THEN "AMBIGUOUS" ELSE @]
<1>1. /\ r \in Roster /\ Speakers(r) \subseteq Ids /\ s \in Ids /\ s \in Speakers(r)
      /\ r.merged[s] = None /\ r.state \in [Ids -> IdentityState]
  BY RosterFields DEF Sound, Active
<1>2. Get(r, s) = s
  BY <1>1, GetIsCanonical DEF Canonical
<1> DEFINE state == [r.state EXCEPT ![s] = IF r.state[s] = "ENROLLED" THEN "AMBIGUOUS"
                                                                   ELSE r.state[s]]
<1>3. state \in [Ids -> IdentityState]
  BY <1>1 DEF IdentityState
<1>4. q = [r EXCEPT !.state = state]
  BY <1>1, <1>2 DEF ApplyAmbiguous, Roster
<1> HIDE DEF state
<1>5. /\ q.count = r.count /\ q.cluster = r.cluster /\ q.registry = r.registry /\ q.sink = r.sink
      /\ q.state = state /\ q.merged = r.merged /\ q.proto = r.proto /\ q.cannot = r.cannot
      /\ q.label = r.label
  BY <1>1, <1>4 DEF Roster
<1>6. q \in Roster
  BY <1>1, <1>3, <1>4 DEF Roster
<1> USE DEF state
<1>7. /\ \A t \in Ids \ {s} : q.state[t] = r.state[t]
      /\ q.state[s] = IF r.state[s] = "ENROLLED" THEN "AMBIGUOUS" ELSE r.state[s]
  BY <1>1, <1>5
<1>8. /\ r.state[s] # "MERGED" /\ r.label[s] # UnattributedLabel
      /\ r.state[s] = "UNKNOWN" => r.proto[s] = None
  <2>1. MergedOnce(r, s) /\ Keyed(r, s) /\ Sunk(r, s)
    BY <1>1 DEF Sound
  <2>2. QED
    BY <1>1, <2>1 DEF MergedOnce, Keyed, Sunk
<1>9. Resolved(r, q, s)
  BY <1>5, <1>6, <1>7, <1>8 DEF Resolved
<1>10. QED
  BY <1>5, <1>9

(* One iteration of finalize_unresolved(): a provisional speaker without     *)
(* evidence becomes UNKNOWN, one with evidence is promoted if linking is     *)
(* calibrated, everybody else is left alone.                                 *)
LEMMA FinalizeResolved ==
    ASSUME NEW r, Sound(r), NEW s \in Active(r), s # r.sink,
           NEW q, q = FinalizeUnresolved(r, s)
    PROVE  /\ Resolved(r, q, s) /\ q.registry = r.registry
           /\ q.state = [r.state EXCEPT ![s] =
                 IF r.state[s] # "PROVISIONAL" THEN @
                 ELSE IF r.proto[s] = None THEN "UNKNOWN"
                 ELSE IF IsCalibrated THEN "SESSION_ANONYMOUS" ELSE @]
<1>1. /\ r \in Roster /\ Speakers(r) \subseteq Ids /\ s \in Ids /\ s \in Speakers(r)
      /\ r.merged[s] = None /\ r.state \in [Ids -> IdentityState] /\ r.labels \in Nat
  BY RosterFields DEF Sound, Active
<1>2. Get(r, s) = s /\ s = Canonical(r, s)
  BY <1>1, GetIsCanonical DEF Canonical
<1>3. /\ r.state[s] # "MERGED" /\ r.label[s] # UnattributedLabel
      /\ r.state[s] = "UNKNOWN" => r.proto[s] = None
  <2>1. MergedOnce(r, s) /\ Keyed(r, s) /\ Sunk(r, s)
    BY <1>1 DEF Sound
  <2>2. QED
    BY <1>1, <2>1 DEF MergedOnce, Keyed, Sunk
<1>4. CASE q = r /\ (r.state[s] # "PROVISIONAL" \/ (r.proto[s] # None /\ ~IsCalibrated))
  <2>1. Resolved(r, r, s)
    BY <1>1, <1>3 DEF Resolved
  <2>2. QED
    BY <1>1, <1>4, <2>1
<1>5. CASE r.state[s] = "PROVISIONAL" /\ r.proto[s] = None
  <2> DEFINE state == [r.state EXCEPT ![s] = "UNKNOWN"]
  <2>1. q = [r EXCEPT !.state = state]
    BY <1>1, <1>5 DEF FinalizeUnresolved, Roster
  <2>2. state \in [Ids -> IdentityState]
    BY <1>1 DEF IdentityState
  <2> HIDE DEF state
  <2>3. /\ q.count = r.count /\ q.cluster = r.cluster /\ q.registry = r.registry
        /\ q.sink = r.sink /\ q.state = state /\ q.merged = r.merged /\ q.proto = r.proto
        /\ q.cannot = r.cannot /\ q.label = r.label
    BY <1>1, <2>1 DEF Roster
  <2>4. q \in Roster
    BY <1>1, <2>1, <2>2 DEF Roster
  <2> USE DEF state
  <2>5. (\A t \in Ids \ {s} : q.state[t] = r.state[t]) /\ q.state[s] = "UNKNOWN"
    BY <1>1, <2>3
  <2>6. Resolved(r, q, s)
    BY <1>3, <1>5, <2>3, <2>4, <2>5 DEF Resolved
  <2>7. QED
    BY <1>5, <2>3, <2>6
<1>6. CASE r.state[s] = "PROVISIONAL" /\ r.proto[s] # None /\ IsCalibrated
  <2> DEFINE t == [r EXCEPT !.labels = @ + 1]
             label == SpeakerLabel(r.labels + 1)
  <2>1. q = PromoteProvisionalAs(t, s, label)
    BY <1>2, <1>6 DEF FinalizeUnresolved, PromoteProvisional
  <2>2. t \in Roster
    BY <1>1 DEF Roster
  <2>3. /\ t.count = r.count /\ t.cluster = r.cluster /\ t.registry = r.registry
        /\ t.sink = r.sink /\ t.state = r.state /\ t.merged = r.merged /\ t.proto = r.proto
        /\ t.cannot = r.cannot /\ t.label = r.label /\ t.pending = r.pending
    BY <1>1 DEF Roster
  <2> HIDE DEF t
  <2>4. SameIdentities(r, t) /\ Speakers(t) = Speakers(r) /\ Active(t) = Active(r)
    BY <2>2, <2>3 DEF SameIdentities, Speakers, Active
  <2>5. Sound(t)
    <3>1. \A u \in Ids : r.cannot[u] \subseteq t.cannot[u] /\ t.cannot[u] \subseteq Speakers(r)
      BY <2>3 DEF Sound
    <3>2. QED
      BY <2>3, <2>4, <3>1, ConstraintLater
  <2>6. label \in Labels /\ label # UnattributedLabel
    BY <1>1, LabelKinds
  <2>7. s = Canonical(t, s)
    BY <1>2, <2>3 DEF Canonical
  <2> HIDE DEF label
  <2>8. Promoted(t, q, s, label)
    BY <1>1, <1>6, <2>1, <2>3, <2>4, <2>5, <2>6, <2>7, PromoteResolved
  <2>9. Resolved(r, q, s)
    BY <2>3, <2>4, <2>8 DEF Promoted, Resolved
  <2>10. QED
    BY <1>1, <1>6, <2>3, <2>8, <2>9 DEF Promoted
<1>7. QED
  BY <1>4, <1>5, <1>6 DEF FinalizeUnresolved

-----------------------------------------------------------------------------
(* The stages *)

(* Speakers join, as session speakers or provisional ones; nobody who was    *)
(* there changes identity.                                                   *)
Grown(r, q) ==
    /\ r.count <= q.count /\ (q.count = r.count \/ q.count <= MaxSessionSpeakers)
    /\ q.merged = r.merged /\ q.sink = r.sink /\ q.registry = r.registry
    /\ q.pending = r.pending
    /\ \A s \in Speakers(r) : q.state[s] = r.state[s] /\ q.label[s] = r.label[s]
    /\ \A s \in Speakers(q) \ Speakers(r) :
          /\ q.merged[s] = None /\ q.registry[s] = None
          /\ q.state[s] \in {"PROVISIONAL", "SESSION_ANONYMOUS"}

(* A cluster that has a speaker keeps having one.                            *)
LEMMA ClusterKept ==
    ASSUME NEW r, Sound(r), NEW q, Sound(q), Later(r, q), NEW c \in Clusters,
           ByCluster(r, c) # None
    PROVE  ByCluster(q, c) # None
<1>1. PICK s \in Active(r) : r.cluster[s] = c
  BY ClusterHolder
<1>2. c # None
  BY NamesAssumption DEF None
<1>3. s \in Active(q) /\ q.cluster[s] = c
  BY <1>1, <1>2 DEF Later
<1>4. QED
  BY <1>3, ClusterHolder

(* What is later than something later is later.                              *)
LEMMA LaterTransitive ==
    ASSUME NEW r, NEW q, NEW t, Later(r, q), Later(q, t)
    PROVE  Later(r, t)
BY DEF Later

(* Evidence and constraints come on top of new speakers.                     *)
LEMMA SameGrown ==
    ASSUME NEW r, NEW q, NEW t, Grown(r, q), SameIdentities(q, t)
    PROVE  Grown(r, t)
BY DEF Grown, SameIdentities, Speakers

(* A roster is grown from itself.                                            *)
LEMMA GrownItself ==
    ASSUME NEW r, Sound(r)
    PROVE  Grown(r, r) /\ Later(r, r) /\ SameIdentities(r, r)
<1>1. r.count \in Nat /\ r \in Roster
  BY RosterFields DEF Sound
<1>2. QED
  BY <1>1 DEF Grown, Later, SameIdentities

(* What a step has to show.                                                  *)
LEMMA StageKept ==
    ASSUME StageInv, Sound(roster'), Later(roster, roster'), tracks' \in Nat,
           links' \subseteq Speakers(roster'), crop' \subseteq Speakers(roster'),
           region' \subseteq Speakers(roster'), heard' \subseteq Speakers(roster'),
           together' \subseteq Speakers(roster') \X Speakers(roster'),
           \A p \in together' \ together : Apart(roster', p[1], p[2]),
           window' \subseteq window
    PROVE  StageInv'
<1>1. \A p \in together : Apart(roster', p[1], p[2])
  <2> SUFFICES ASSUME NEW p \in together PROVE Apart(roster', p[1], p[2])
    OBVIOUS
  <2>1. p[1] \in Speakers(roster) /\ p[2] \in Speakers(roster) /\ Apart(roster, p[1], p[2])
    BY DEF StageInv
  <2>2. QED
    BY <2>1 DEF Later
<1>2. \A p \in together' : Apart(roster', p[1], p[2])
  BY <1>1
<1>3. \A c \in window' : ByCluster(roster', c) # None
  <2> SUFFICES ASSUME NEW c \in window' PROVE ByCluster(roster', c) # None
    OBVIOUS
  <2>1. c \in Clusters /\ ByCluster(roster, c) # None /\ Sound(roster)
    BY DEF StageInv
  <2>2. QED
    BY <2>1, ClusterKept
<1>4. window' \subseteq Clusters
  BY DEF StageInv
<1>5. QED
  BY <1>2, <1>3, <1>4 DEF StageInv

(* A step that leaves the roster alone.                                      *)
LEMMA StageKeptSameRoster ==
    ASSUME StageInv, roster' = roster, tracks' \in Nat,
           links' \subseteq Speakers(roster), crop' \subseteq Speakers(roster),
           region' \subseteq Speakers(roster), heard' \subseteq Speakers(roster),
           together' = together, window' \subseteq window
    PROVE  StageInv' /\ Grown(roster, roster')
<1>1. Sound(roster) /\ Grown(roster, roster) /\ Later(roster, roster)
  BY GrownItself DEF StageInv
<1>2. together' \subseteq Speakers(roster') \X Speakers(roster')
  BY DEF StageInv
<1>3. QED
  BY <1>1, <1>2, StageKept

(* build_global_speakers: one cluster.                                       *)
LEMMA EnsureClusterSpeakerKeeps ==
    ASSUME StageInv, NoMerge(roster), NEW c \in Clusters, EnsureClusterSpeaker(c)
    PROVE  StageInv' /\ Grown(roster, roster')
<1>1. /\ Sound(roster) /\ window' = window \union {c} /\ tracks' = tracks /\ links' = links
      /\ crop' = crop /\ region' = region /\ heard' = heard /\ together' = together
  BY DEF StageInv, EnsureClusterSpeaker
<1>2. /\ Sound(roster') /\ Later(roster, roster') /\ Grown(roster, roster')
      /\ ByCluster(roster', c) # None
  <2>1. CASE ByCluster(roster, c) # None /\ roster' = roster
    BY <1>1, <2>1, GrownItself
  <2>2. CASE /\ ByCluster(roster, c) = None
             /\ CanAdmitSpeaker(roster)
             /\ roster' = CreateSessionSpeaker(roster, c)
    <3> DEFINE n == roster'.count
    <3>1. /\ Sound(roster') /\ Later(roster, roster') /\ n = roster.count + 1
          /\ n <= MaxSessionSpeakers
          /\ roster'.merged = roster.merged /\ roster'.sink = roster.sink
          /\ roster'.registry = roster.registry
          /\ roster'.merged[n] = None /\ roster'.registry[n] = None
          /\ roster'.state = [roster.state EXCEPT ![n] = "SESSION_ANONYMOUS"]
          /\ roster'.cluster = [roster.cluster EXCEPT ![n] = c]
          /\ roster'.pending = roster.pending
          /\ roster'.label = [roster.label EXCEPT ![n] = SpeakerLabel(roster.labels + 1)]
      BY <1>1, <2>2, CreateSessionSpeakerSound
    <3>2. /\ roster.state \in [Ids -> IdentityState] /\ roster.label \in [Ids -> Labels]
          /\ roster.cluster \in [Ids -> Clusters \union {None}] /\ roster.count \in Nat
          /\ Speakers(roster) \subseteq Ids /\ Speakers(roster') \subseteq Ids
      BY <1>1, <3>1, RosterFields DEF Sound
    <3> HIDE DEF n
    <3>3. /\ Speakers(roster') = Speakers(roster) \union {n} /\ n \notin Speakers(roster)
          /\ n \in Speakers(roster')
      BY <3>1, <3>2 DEF Speakers, n
    <3>4. Grown(roster, roster')
      <4>1. \A s \in Speakers(roster) :
                roster'.state[s] = roster.state[s] /\ roster'.label[s] = roster.label[s]
        BY <3>1, <3>2, <3>3
      <4>2. roster'.state[n] = "SESSION_ANONYMOUS"
        BY <3>1, <3>2, <3>3
      <4>3. roster.count <= roster'.count /\ roster'.count <= MaxSessionSpeakers
        BY <3>1, <3>2 DEF n
      <4>4. QED
        BY <3>1, <3>3, <4>1, <4>2, <4>3 DEF Grown
    <3>5. n \in Active(roster') /\ roster'.cluster[n] = c
      BY <3>1, <3>2, <3>3 DEF Active
    <3>6. Sound(roster')
      BY <3>1
    <3>7. ByCluster(roster', c) # None
      BY <3>5, <3>6, ClusterHolder
    <3>8. QED
      BY <3>1, <3>4, <3>7
  <2>3. QED
    BY <2>1, <2>2 DEF EnsureClusterSpeaker
<1>3. \A d \in window' : ByCluster(roster', d) # None
  <2> SUFFICES ASSUME NEW d \in window, d # c PROVE ByCluster(roster', d) # None
    BY <1>1, <1>2
  <2>1. d \in Clusters /\ ByCluster(roster, d) # None
    BY DEF StageInv
  <2>2. QED
    BY <1>1, <1>2, <2>1, ClusterKept
<1>4. \A p \in together' : Apart(roster', p[1], p[2])
  <2> SUFFICES ASSUME NEW p \in together PROVE Apart(roster', p[1], p[2])
    BY <1>1
  <2>1. p[1] \in Speakers(roster) /\ p[2] \in Speakers(roster) /\ Apart(roster, p[1], p[2])
    BY DEF StageInv
  <2>2. QED
    BY <1>2, <2>1 DEF Later
<1>5. Speakers(roster) \subseteq Speakers(roster')
  BY <1>2 DEF Later
<1>6. /\ window' \subseteq Clusters /\ tracks' \in Nat
      /\ links' \subseteq Speakers(roster') /\ crop' \subseteq Speakers(roster')
      /\ region' \subseteq Speakers(roster') /\ heard' \subseteq Speakers(roster')
      /\ together' \subseteq Speakers(roster') \X Speakers(roster')
  BY <1>1, <1>5 DEF StageInv
<1>7. QED
  BY <1>2, <1>3, <1>4, <1>6 DEF StageInv

(* The speaker of a cluster the diarization named.                           *)
LEMMA WindowSpeaker ==
    ASSUME StageInv, NEW c \in window
    PROVE  ByCluster(roster, c) \in Active(roster) /\ ByCluster(roster, c) \in Speakers(roster)
<1>1. Sound(roster) /\ ByCluster(roster, c) # None
  BY DEF StageInv
<1>2. ByCluster(roster, c) \in Active(roster)
  BY <1>1, ClusterHolder
<1>3. QED
  BY <1>2 DEF Active

(* The speakers of all clusters are heard.                                   *)
LEMMA ClustersDoneKeeps ==
    ASSUME StageInv, ClustersDone
    PROVE  StageInv' /\ Grown(roster, roster')
<1>1. {ByCluster(roster, c) : c \in window} \subseteq Speakers(roster)
  BY WindowSpeaker
<1>2. /\ roster' = roster /\ tracks' \in Nat /\ links' \subseteq Speakers(roster)
      /\ crop' \subseteq Speakers(roster) /\ region' \subseteq Speakers(roster)
      /\ heard' \subseteq Speakers(roster) /\ together' = together /\ window' \subseteq window
  BY <1>1 DEF StageInv, ClustersDone
<1>3. QED
  BY <1>2, StageKeptSameRoster

(* Clusters whose turns overlap are kept apart.                              *)
LEMMA CannotLinkClustersKeeps ==
    ASSUME StageInv, NEW c, NEW d, CannotLinkClusters(c, d)
    PROVE  StageInv' /\ Grown(roster, roster')
<1> DEFINE a == ByCluster(roster, c)
           b == ByCluster(roster, d)
<1>1. a \in Speakers(roster) /\ b \in Speakers(roster)
  BY WindowSpeaker DEF CannotLinkClusters
<1>2. /\ roster' = AddCannotLink(roster, a, b)
      /\ together' = together \union Pairs({a}, {b}) \union Pairs({b}, {a})
      /\ window' = window /\ tracks' = tracks /\ links' = links /\ crop' = crop
      /\ region' = region /\ heard' = heard
  BY DEF CannotLinkClusters
<1> HIDE DEF a, b
<1>3. /\ Sound(roster') /\ Later(roster, roster') /\ SameIdentities(roster, roster')
      /\ Apart(roster', a, b) /\ Apart(roster', b, a)
  BY <1>1, <1>2, CannotLinkSound DEF StageInv
<1>4. Grown(roster, roster')
  <2>1. Grown(roster, roster)
    BY GrownItself DEF StageInv
  <2>2. QED
    BY <1>3, <2>1, SameGrown
<1>5. Speakers(roster') = Speakers(roster)
  BY <1>3 DEF SameIdentities, Speakers
<1>6. \A p \in together' \ together : p = <<a, b>> \/ p = <<b, a>>
  BY <1>2 DEF Pairs
<1>7. \A p \in together' \ together : Apart(roster', p[1], p[2])
  BY <1>3, <1>6
<1>8. together' \subseteq Speakers(roster') \X Speakers(roster')
  BY <1>1, <1>5, <1>6 DEF StageInv
<1>9. /\ tracks' \in Nat /\ links' \subseteq Speakers(roster') /\ crop' \subseteq Speakers(roster')
      /\ region' \subseteq Speakers(roster') /\ heard' \subseteq Speakers(roster')
      /\ window' \subseteq window
  BY <1>2, <1>5 DEF StageInv
<1>10. QED
  BY <1>3, <1>4, <1>7, <1>8, <1>9, StageKept

(* A clean prototype of a cluster's speaker.                                 *)
LEMMA CleanPrototypeKeeps ==
    ASSUME StageInv, NEW c, CleanPrototype(c)
    PROVE  StageInv' /\ Grown(roster, roster')
<1>1. ByCluster(roster, c) \in Speakers(roster)
  BY WindowSpeaker DEF CleanPrototype
<1>2. /\ roster' = UpdatePrototype(roster, ByCluster(roster, c))
      /\ together' = together /\ window' = window /\ tracks' = tracks /\ links' = links
      /\ crop' = crop /\ region' = region /\ heard' = heard
  BY DEF CleanPrototype
<1>3. Sound(roster') /\ Later(roster, roster') /\ SameIdentities(roster, roster')
  BY <1>1, <1>2, PrototypeSound DEF StageInv
<1>4. Grown(roster, roster')
  <2>1. Grown(roster, roster)
    BY GrownItself DEF StageInv
  <2>2. QED
    BY <1>3, <2>1, SameGrown
<1>5. Speakers(roster') = Speakers(roster)
  BY <1>3 DEF SameIdentities, Speakers
<1>6. /\ tracks' \in Nat /\ links' \subseteq Speakers(roster') /\ crop' \subseteq Speakers(roster')
      /\ region' \subseteq Speakers(roster') /\ heard' \subseteq Speakers(roster')
      /\ together' \subseteq Speakers(roster') \X Speakers(roster')
      /\ window' \subseteq window /\ \A p \in together' \ together : Apart(roster', p[1], p[2])
  BY <1>2, <1>5 DEF StageInv
<1>7. QED
  BY <1>3, <1>4, <1>6, StageKept

(* The keys link_sources may answer belong to speakers.                      *)
LEMMA KeysAreSpeakers ==
    ASSUME NEW r, Sound(r), NEW S, S \subseteq WithPrototype(r)
    PROVE  Keys(r, S) \subseteq Speakers(r)
<1> SUFFICES ASSUME NEW s \in S PROVE r.proto[s] \in Speakers(r)
  BY DEF Keys
<1>1. s \in Speakers(r) /\ r.proto[s] # None
  BY DEF WithPrototype, Active
<1>2. Keyed(r, s)
  BY <1>1 DEF Sound
<1>3. QED
  BY <1>1, <1>2 DEF Keyed

(* A crop is opened: the region's groups are kept or start over.             *)
LEMMA OpenCropKeeps ==
    ASSUME StageInv, NEW targets, targets \subseteq WithPrototype(roster),
           OpenRegion(targets) \/ NextWindow(targets)
    PROVE  StageInv' /\ Grown(roster, roster')
<1>1. OpenCrop(targets) /\ region' \subseteq Speakers(roster) /\ heard' \subseteq Speakers(roster)
  BY DEF StageInv, OpenRegion, NextWindow
<1>2. tracks' \in Nat
  BY <1>1, SourceAssumption DEF OpenCrop
<1>3. links' \subseteq Speakers(roster)
  BY <1>1, KeysAreSpeakers DEF OpenCrop, StageInv
<1>4. roster' = roster /\ crop' \subseteq Speakers(roster) /\ together' = together /\ window' \subseteq window
  BY <1>1 DEF OpenCrop
<1>5. QED
  BY <1>1, <1>2, <1>3, <1>4, StageKeptSameRoster

(* A source is given to a speaker, after the roster took its evidence.       *)
LEMMA AssignKeeps ==
    ASSUME StageInv, NEW r, Sound(r), Later(roster, r), Grown(roster, r),
           NEW id \in Speakers(r), tracks > 0, links' \subseteq links, Assign(r, id)
    PROVE  StageInv' /\ Grown(roster, roster')
<1>1. Speakers(roster) \subseteq Speakers(r) /\ crop \subseteq Speakers(r)
  BY DEF Later, StageInv
<1>2. /\ roster' = AssignInCrop(r, id) /\ crop' = crop \union {id}
      /\ region' = region \union {id} /\ tracks' = tracks - 1 /\ window' = window
      /\ heard' = heard
      /\ together' = together \union Pairs({id}, crop) \union Pairs(crop, {id})
  BY DEF Assign
<1>3. /\ Sound(roster') /\ Later(r, roster') /\ SameIdentities(r, roster')
      /\ \A x \in crop : Apart(roster', id, x) /\ Apart(roster', x, id)
  BY <1>1, <1>2, AssignSound
<1>4. Later(roster, roster') /\ Grown(roster, roster')
  BY <1>3, LaterTransitive, SameGrown
<1>5. Speakers(roster') = Speakers(r)
  BY <1>3 DEF SameIdentities, Speakers
<1>6. \A p \in together' \ together : \E x \in crop : p = <<id, x>> \/ p = <<x, id>>
  BY <1>2 DEF Pairs
<1>7. \A p \in together' \ together : Apart(roster', p[1], p[2])
  BY <1>3, <1>6
<1>8. together' \subseteq Speakers(roster') \X Speakers(roster')
  <2>1. together \subseteq Speakers(r) \X Speakers(r)
    BY <1>1 DEF StageInv
  <2>2. ASSUME NEW p \in together' \ together PROVE p \in Speakers(r) \X Speakers(r)
    BY <1>1, <1>6
  <2>3. QED
    BY <1>5, <2>1, <2>2
<1>9. /\ tracks' \in Nat /\ links' \subseteq Speakers(roster') /\ crop' \subseteq Speakers(roster')
      /\ region' \subseteq Speakers(roster') /\ heard' \subseteq Speakers(roster')
      /\ window' \subseteq window
  BY <1>1, <1>2, <1>5 DEF StageInv
<1>10. QED
  BY <1>3, <1>4, <1>7, <1>8, <1>9, StageKept

(* A source linked to a speaker the roster knows.                            *)
LEMMA SourceLinkedKeeps ==
    ASSUME StageInv, NEW key, SourceLinked(key)
    PROVE  StageInv' /\ Grown(roster, roster')
<1> DEFINE r == IF roster.state[Get(roster, key)] = "PROVISIONAL"
                THEN BufferProvisionalEmbedding(roster, key)
                ELSE UpdatePrototype(roster, key)
<1>1. tracks > 0 /\ key \in links /\ links' \subseteq links /\ Assign(r, key)
  BY DEF SourceLinked
<1>2. Sound(roster) /\ key \in Speakers(roster)
  BY <1>1 DEF StageInv
<1>3. r = UpdatePrototype(roster, key) \/ r = BufferProvisionalEmbedding(roster, key)
  OBVIOUS
<1> HIDE DEF r
<1>4. Sound(r) /\ Later(roster, r) /\ SameIdentities(roster, r)
  BY <1>2, <1>3, PrototypeSound
<1>5. Grown(roster, r)
  BY <1>2, <1>4, GrownItself, SameGrown
<1>6. key \in Speakers(r)
  BY <1>2, <1>4 DEF Later
<1>7. QED
  BY <1>1, <1>4, <1>5, <1>6, AssignKeeps

(* A source nobody matches becomes a temporary speaker.                      *)
LEMMA SourceTemporaryKeeps ==
    ASSUME StageInv, NoMerge(roster), SourceTemporary
    PROVE  StageInv' /\ Grown(roster, roster')
<1> DEFINE id == roster.count + 1
           q == CreateTemporarySpeaker(roster)
           r == BufferProvisionalEmbedding(q, id)
<1>1. tracks > 0 /\ CanAdmitSpeaker(roster) /\ Assign(r, id) /\ links' \subseteq links
  BY DEF SourceTemporary
<1>2. Sound(roster)
  BY DEF StageInv
<1>3. q = CreateTemporarySpeaker(roster) /\ r = BufferProvisionalEmbedding(q, id)
  OBVIOUS
<1> HIDE DEF q, r
<1>4. /\ Sound(q) /\ Later(roster, q) /\ q.count = id /\ q.count <= MaxSessionSpeakers
      /\ q.merged = roster.merged /\ q.sink = roster.sink /\ q.registry = roster.registry
      /\ q.merged[q.count] = None /\ q.registry[q.count] = None
      /\ q.state = [roster.state EXCEPT ![q.count] = "PROVISIONAL"]
      /\ q.pending = roster.pending
      /\ q.label = [roster.label EXCEPT ![q.count] = TemporaryLabel(roster.temps + 1)]
  BY <1>1, <1>2, <1>3, CreateTemporarySpeakerSound
<1>5. Grown(roster, q) /\ id \in Speakers(q)
  <2>1. /\ roster.state \in [Ids -> IdentityState] /\ roster.label \in [Ids -> Labels]
        /\ roster.count \in Nat /\ Speakers(roster) \subseteq Ids /\ Speakers(q) \subseteq Ids
    BY <1>2, <1>4, RosterFields DEF Sound
  <2>2. /\ Speakers(q) = Speakers(roster) \union {id} /\ id \notin Speakers(roster)
        /\ id \in Speakers(q) /\ roster.count <= q.count
    BY <1>4, <2>1 DEF Speakers
  <2> HIDE DEF id
  <2>3. \A s \in Speakers(roster) : q.state[s] = roster.state[s] /\ q.label[s] = roster.label[s]
    BY <1>4, <2>1, <2>2
  <2>4. q.state[id] = "PROVISIONAL"
    BY <1>4, <2>1, <2>2
  <2>5. QED
    BY <1>4, <2>2, <2>3, <2>4 DEF Grown
<1> HIDE DEF id
<1>6. Sound(q)
  BY <1>4
<1>7. Sound(r) /\ Later(q, r) /\ SameIdentities(q, r)
  BY <1>3, <1>5, <1>6, PrototypeSound
<1>8. Later(roster, r) /\ Grown(roster, r)
  BY <1>4, <1>5, <1>7, LaterTransitive, SameGrown
<1>9. id \in Speakers(r)
  BY <1>5, <1>7 DEF Later
<1>10. QED
  BY <1>1, <1>7, <1>8, <1>9, AssignKeeps

(* The steps of the stages that both pipelines take.                         *)
StageStep(targets) ==
    \/ \E c \in Clusters : EnsureClusterSpeaker(c)
    \/ ClustersDone
    \/ \E c, d \in Clusters : CannotLinkClusters(c, d)
    \/ \E c \in Clusters : CleanPrototype(c)
    \/ OpenRegion(targets)
    \/ NextWindow(targets)
    \/ SeparationFailed
    \/ Source

(* Sources are left to handle only while a crop is open.                     *)
Cropped == tracks # 0 => phase = "crops"

(* The stages run in their phases.                                           *)
LEMMA StagePhasesKept ==
    ASSUME StageInv, Cropped, NEW targets, StageStep(targets)
    PROVE  phase \in StagePhases /\ phase' \in StagePhases /\ Cropped'
<1>1. tracks \in Nat
  BY DEF StageInv
<1>2. CASE \E c \in Clusters : EnsureClusterSpeaker(c)
  BY <1>2 DEF EnsureClusterSpeaker, StagePhases, Cropped
<1>3. CASE ClustersDone
  BY <1>3 DEF ClustersDone, StagePhases, Cropped
<1>4. CASE \E c, d \in Clusters : CannotLinkClusters(c, d)
  BY <1>4 DEF CannotLinkClusters, StagePhases, Cropped
<1>5. CASE \E c \in Clusters : CleanPrototype(c)
  BY <1>5 DEF CleanPrototype, StagePhases, Cropped
<1>6. CASE OpenRegion(targets) \/ NextWindow(targets)
  BY <1>6 DEF OpenRegion, NextWindow, OpenCrop, StagePhases, Cropped
<1>7. CASE SeparationFailed
  BY <1>7 DEF SeparationFailed, StagePhases, Cropped
<1>8. CASE Source
  <2>1. tracks > 0 /\ phase' = phase
    BY <1>8 DEF Source, SourceLinked, SourceTemporary, SourceUnidentified, SourceImplausible,
                Assign
  <2>2. phase = "crops"
    BY <1>1, <2>1 DEF Cropped
  <2>3. QED
    BY <2>1, <2>2 DEF StagePhases, Cropped
<1>9. QED
  BY <1>2, <1>3, <1>4, <1>5, <1>6, <1>7, <1>8 DEF StageStep

(* Every stage keeps the roster sound and changes nobody's identity.         *)
LEMMA StageKeeps ==
    ASSUME StageInv, NoMerge(roster), NEW targets, targets \subseteq WithPrototype(roster),
           StageStep(targets)
    PROVE  StageInv' /\ Grown(roster, roster')
<1>1. CASE \E c \in Clusters : EnsureClusterSpeaker(c)
  BY <1>1, EnsureClusterSpeakerKeeps
<1>2. CASE ClustersDone
  BY <1>2, ClustersDoneKeeps
<1>3. CASE \E c, d \in Clusters : CannotLinkClusters(c, d)
  BY <1>3, CannotLinkClustersKeeps
<1>4. CASE \E c \in Clusters : CleanPrototype(c)
  BY <1>4, CleanPrototypeKeeps
<1>5. CASE OpenRegion(targets) \/ NextWindow(targets)
  BY <1>5, OpenCropKeeps
<1>6. CASE SeparationFailed \/ SourceUnidentified \/ SourceImplausible
  <2>1. /\ roster' = roster /\ tracks' \in Nat /\ links' \subseteq Speakers(roster)
        /\ crop' \subseteq Speakers(roster) /\ region' \subseteq Speakers(roster)
        /\ heard' \subseteq Speakers(roster) /\ together' = together /\ window' \subseteq window
    BY <1>6 DEF SeparationFailed, SourceUnidentified, SourceImplausible, StageInv
  <2>2. QED
    BY <2>1, StageKeptSameRoster
<1>7. CASE \E key \in links : SourceLinked(key)
  BY <1>7, SourceLinkedKeeps
<1>8. CASE SourceTemporary
  BY <1>8, SourceTemporaryKeeps
<1>9. QED
  BY <1>1, <1>2, <1>3, <1>4, <1>5, <1>6, <1>7, <1>8 DEF StageStep, Source

-----------------------------------------------------------------------------
(* What the invariant says about the roster *)

(* Merges are one hop deep, and only provisional speakers are merged away.   *)
LEMMA FlatMerges ==
    ASSUME StageInv
    PROVE  MergesFlat
<1> SUFFICES ASSUME NEW s \in Speakers(roster)
             PROVE  /\ roster.merged[s] # None =>
                          roster.merged[s] \in Active(roster) \ ProvisionalSpeakers(roster)
                    /\ roster.merged[s] # None <=> roster.state[s] = "MERGED"
  BY DEF MergesFlat
<1>1. MergedOnce(roster, s)
  BY DEF StageInv, Sound
<1>2. QED
  BY <1>1 DEF MergedOnce, Active, ProvisionalSpeakers

(* The bound on the IDs bounds the identities besides the sink.              *)
LEMMA BoundKept ==
    ASSUME StageInv, Bounded(roster)
    PROVE  RosterBound
<1> DEFINE n == roster.count
           rest == Active(roster) \ {roster.sink}
<1>1. /\ n \in Nat /\ MaxSessionSpeakers \in Nat /\ Sound(roster)
      /\ roster.sink \in Ids \union {None} /\ None \notin Ids
  BY RosterFields DEF StageInv, Sound
<1>2. IsFiniteSet(1 .. n) /\ Cardinality(1 .. n) = n
  <2> HIDE DEF n
  <2> QED
    BY <1>1, FS_Interval
<1>3. Cardinality(rest) <= MaxSessionSpeakers
  <2>1. CASE roster.sink = None
    <3>1. rest \subseteq 1 .. n
      BY DEF Active, Speakers
    <3>2. Cardinality(rest) <= Cardinality(1 .. n)
      BY <1>2, <3>1, FS_Subset
    <3>3. n <= MaxSessionSpeakers
      BY <1>1, <2>1 DEF Bounded
    <3>4. Cardinality(rest) \in Nat
      BY <1>2, <3>1, FS_Subset, FS_CardinalityType
    <3>5. QED
      BY <1>1, <1>2, <3>2, <3>3, <3>4
  <2>2. CASE roster.sink # None
    <3>1. roster.sink \in 1 .. n
      BY <1>1, <2>2 DEF Sound, Speakers
    <3>2. rest \subseteq (1 .. n) \ {roster.sink}
      BY DEF Active, Speakers
    <3>3. /\ IsFiniteSet((1 .. n) \ {roster.sink})
          /\ Cardinality((1 .. n) \ {roster.sink}) = n - 1
      BY <1>2, <3>1, FS_RemoveElement
    <3>4. Cardinality(rest) <= n - 1
      BY <3>2, <3>3, FS_Subset
    <3>5. n <= MaxSessionSpeakers + 1
      BY <1>1, <2>2 DEF Bounded
    <3>6. Cardinality(rest) \in Nat
      BY <3>2, <3>3, FS_Subset, FS_CardinalityType
    <3>7. QED
      BY <1>1, <3>4, <3>5, <3>6
  <2>3. QED
    BY <2>1, <2>2
<1>4. \A s \in Speakers(roster) : roster.label[s] = UnattributedLabel <=> s = roster.sink
  BY <1>1 DEF Sound, Sunk
<1>5. QED
  BY <1>3, <1>4 DEF RosterBound

(* Of two IDs seen together, one still carries a constraint on the other.    *)
LEMMA KeptApart ==
    ASSUME StageInv
    PROVE  ConstraintsKept
<1>1. Sound(roster) /\ Speakers(roster) \subseteq Ids
  BY RosterFields DEF StageInv, Sound
<1>2. \A s \in Ids : Get(roster, s) = Canonical(roster, s)
  BY <1>1, GetIsCanonical
<1> SUFFICES ASSUME NEW p \in together
             PROVE  \/ Get(roster, p[1]) = Get(roster, p[2])
                    \/ \E x \in roster.cannot[Get(roster, p[1])] :
                           Get(roster, x) = Get(roster, p[2])
  BY DEF ConstraintsKept
<1>3. p[1] \in Ids /\ p[2] \in Ids /\ p[1] \in Speakers(roster) /\ Apart(roster, p[1], p[2])
  BY <1>1 DEF StageInv
<1>4. Canonical(roster, p[1]) \in Ids
  BY <1>1, <1>3, GetIsCanonical DEF Active
<1>5. roster.cannot[Canonical(roster, p[1])] \subseteq Ids
  BY <1>1, <1>4 DEF Sound
<1>6. QED
  BY <1>2, <1>3, <1>5 DEF Apart

(* So the roster is sound in the sense of the runs.                          *)
LEMMA RosterKept ==
    ASSUME StageInv, Bounded(roster)
    PROVE  RosterSound
BY FlatMerges, BoundKept, KeptApart DEF RosterSound

(* The key of a prototype leads back to its speaker.                         *)
LEMMA KeysKept ==
    ASSUME StageInv
    PROVE  KeysResolve
<1> SUFFICES ASSUME NEW s \in WithPrototype(roster)
             PROVE  Get(roster, roster.proto[s]) = s
  BY DEF KeysResolve
<1>1. s \in Speakers(roster) /\ roster.merged[s] = None /\ roster.proto[s] # None
  BY DEF WithPrototype, Active
<1>2. Sound(roster) /\ Speakers(roster) \subseteq Ids
  BY RosterFields DEF StageInv, Sound
<1>3. Keyed(roster, s)
  BY <1>1, <1>2 DEF Sound
<1>4. roster.proto[s] \in Ids /\ Canonical(roster, roster.proto[s]) = s
  BY <1>1, <1>2, <1>3 DEF Keyed
<1>5. QED
  BY <1>2, <1>4, GetIsCanonical

(* A cluster has one speaker, who stays.                                     *)
LEMMA ClustersKept ==
    ASSUME StageInv
    PROVE  ClusterStable
BY DEF ClusterStable, StageInv, Sound, Clustered

(* The variables have their types.                                           *)
LEMMA StageTyped ==
    ASSUME StageInv
    PROVE  StageTypeOK
<1>1. Speakers(roster) \subseteq Ids /\ roster \in Roster
  BY RosterFields DEF StageInv, Sound
<1>2. QED
  BY <1>1 DEF StageInv, StageTypeOK

(* The stages start from an empty roster.                                    *)
LEMMA StageStarts ==
    ASSUME StageInit
    PROVE  StageInv /\ NoMerge(roster) /\ Bounded(roster) /\ Active(roster) = {}
<1>1. roster = EmptyRoster /\ MaxSessionSpeakers \in Nat
  BY BoundAssumption DEF StageInit
<1>2. /\ roster.count = 0 /\ roster.sink = None /\ Speakers(roster) = {}
      /\ \A s \in Ids : /\ Blank(roster, s) /\ roster.cannot[s] = {}
  <2>1. /\ roster.count = 0 /\ roster.sink = None
        /\ roster.merged = [s \in Ids |-> None] /\ roster.proto = [s \in Ids |-> None]
        /\ roster.registry = [s \in Ids |-> None] /\ roster.cannot = [s \in Ids |-> {}]
    BY <1>1 DEF EmptyRoster
  <2>2. Speakers(roster) = {}
    BY <2>1 DEF Speakers
  <2>3. QED
    BY <2>1, <2>2 DEF Blank
<1>3. roster \in Roster
  <2>1. "PROVISIONAL" \in IdentityState /\ <<"", 0>> \in Labels
    BY DEF IdentityState, Labels
  <2>2. <<>> \in Seq(Ids \X Labels)
    OBVIOUS
  <2>3. 0 \in 0 .. (MaxSessionSpeakers + 1) /\ None \in Ids \union {None}
    BY <1>1
  <2>4. QED
    BY <1>1, <2>1, <2>2, <2>3 DEF EmptyRoster, Roster
<1>4. Sound(roster)
  BY <1>2, <1>3 DEF Sound
<1>5. StageInv
  BY <1>4 DEF StageInv, StageInit
<1>6. QED
  BY <1>1, <1>2, <1>5 DEF NoMerge, Bounded, Active

(* A step of LegalTransitions.                                               *)
LegalStep ==
    \A s \in Speakers(roster) :
        \/ roster'.state[s] = roster.state[s]
        \/ roster'.state[s] \in AllowedTransitions[roster.state[s]]
        \/ roster.state[s] = "PROVISIONAL" /\ roster'.state[s] = "MERGED"

(* The edges of the identity state machine the code takes.                  *)
LEMMA Edges ==
    /\ AllowedTransitions["PROVISIONAL"] = {"SESSION_ANONYMOUS", "ENROLLED", "UNKNOWN"}
    /\ AllowedTransitions["SESSION_ANONYMOUS"] = {"ENROLLED", "MERGED"}
BY DEF AllowedTransitions, IdentityState
=============================================================================
