---------------------------- MODULE SourceLinking ----------------------------
(***************************************************************************)
(* Which session speaker each separated source belongs to: link_sources     *)
(* (application/source_linking.py) and the loop of separate_and_link that   *)
(* calls it window after window with the mapping of the window before       *)
(* (application/offline_pipeline.py).                                       *)
(*                                                                         *)
(* Scores are integers in any unit, and -inf is an integer below them all.  *)
(* What the embedding model answers is nondeterministic; so is the choice   *)
(* of scipy's linear_sum_assignment between two best assignments.           *)
(***************************************************************************)
EXTENDS Integers, FiniteSets, FiniteSetsExt, Functions

CONSTANTS
    NumSources,    \* sources of the separator
    NumSpeakers,   \* speakers of the session, in creation order
    Temporaries,   \* those without a diarization cluster
    Scores,        \* bound: cosine similarities
    NegInf,        \* -inf
    Accept,        \* source_linking.accept_threshold
    AmbiguousMargin,  \* source_linking.ambiguous_margin
    Bonus,         \* source_linking.continuity_bonus
    IsCalibrated,  \* both thresholds are set
    ShortSourcePolicy \* short_source_policy is "diarization_constrained"

ASSUME SizeAssumption == NumSources \in Nat \ {0} /\ NumSpeakers \in Nat

Sources == 1 .. NumSources
Speakers == 1 .. NumSpeakers
Dummy(i) == NumSpeakers + i

ASSUME TemporariesAssumption == Temporaries \subseteq Speakers
ASSUME ScoreAssumption ==
    /\ Scores \subseteq Int
    /\ NegInf \in Int
    /\ \A s \in Scores : NegInf < s
ASSUME ThresholdAssumption ==
    Accept \in Int /\ NegInf < Accept /\ AmbiguousMargin \in Nat /\ Bonus \in Nat
ASSUME FlagAssumption == IsCalibrated \in BOOLEAN /\ ShortSourcePolicy \in BOOLEAN

VARIABLES
    prototypes,   \* speakers with a centroid
    previous,     \* previous_mapping
    embedded,     \* sources with an embedding in this window
    base,         \* score_matrix
    candidates,   \* candidate_keys, {} for None
    constrained,  \* constrained_permutation
    decisions     \* the decision for each source, <<>> between two calls

linkVars == <<prototypes, previous, embedded, base, candidates, constrained, decisions>>
call == <<embedded, base, candidates, constrained, decisions>>

None == 0
Finite(score) == score # NegInf
FiniteIn(row) == {j \in DOMAIN row : Finite(row[j])}

NoCall ==
    /\ embedded = {}
    /\ base = <<>>
    /\ candidates = {}
    /\ constrained = FALSE
    /\ decisions = <<>>

LinkInit ==
    /\ prototypes \in SUBSET (Speakers \ Temporaries)
    /\ previous = <<>>
    /\ NoCall

-----------------------------------------------------------------------------
(* The scores *)

(* build_score_matrix, from the similarities of the embedded sources         *)
BuildScoreMatrix(similarity) ==
    [i \in Sources |->
        [j \in prototypes |-> IF i \in DOMAIN similarity THEN similarity[i][j] ELSE NegInf]]

(* Mutant: one source without a score in the restricted matrix lifts the     *)
(* restriction for all of them.                                              *)
RestrictUnlessAnyEmpty(matrix, keys) ==
    LET restricted == [i \in Sources |->
            [j \in prototypes |-> IF j \in keys THEN matrix[i][j] ELSE NegInf]]
    IN  IF keys = {} \/ \E i \in Sources : FiniteIn(restricted[i]) = {}
        THEN matrix ELSE restricted

(* restrict_to_candidates *)
RestrictToCandidates(matrix, keys) ==
    LET restricted == [i \in Sources |->
            [j \in prototypes |-> IF j \in keys THEN matrix[i][j] ELSE NegInf]]
    IN  IF keys = {} \/ \A i \in Sources : FiniteIn(restricted[i]) = {}
        THEN matrix ELSE restricted

(* _apply_continuity_bonus *)
ApplyContinuityBonus(matrix) ==
    [i \in Sources |->
        [j \in prototypes |->
            IF i \in DOMAIN previous /\ previous[i] = j /\ Finite(matrix[i][j])
            THEN matrix[i][j] + Bonus ELSE matrix[i][j]]]

(* The scores extended by one dummy column per source.                       *)
Columns == prototypes \union {Dummy(i) : i \in Sources}

Extended(scored, known) ==
    [i \in Sources |->
        [c \in Columns |->
            CASE c \in prototypes -> scored[i][c]
              [] c = Dummy(i) /\ ~ known -> IF IsCalibrated THEN Accept ELSE 0
              [] OTHER -> NegInf]]

(* The finite stand-in for -inf.                                             *)
Floor(matrix) ==
    Min({0} \union UNION {{matrix[i][c] : c \in FiniteIn(matrix[i])} : i \in Sources}) - 1

Solvable(matrix) ==
    LET floor == Floor(matrix)
    IN  [i \in Sources |->
            [c \in Columns |-> IF Finite(matrix[i][c]) THEN matrix[i][c] ELSE floor]]

Total(matrix, a) == SumFunction([i \in Sources |-> matrix[i][a[i]]])

(* Mutant: every source takes its best column.                               *)
BestPerSource(matrix) ==
    {a \in [Sources -> Columns] :
        \A i \in Sources : \A c \in Columns : matrix[i][c] <= matrix[i][a[i]]}

(* linear_sum_assignment: the one-to-one assignments of the greatest sum.    *)
LinearSumAssignment(matrix) ==
    LET all == Injection(Sources, Columns)
        best == Max({Total(matrix, a) : a \in all})
    IN  {a \in all : Total(matrix, a) = best}

-----------------------------------------------------------------------------
(* The decisions *)

(* np.argmax: the first of the highest                                       *)
ArgMax(row) ==
    LET high == {j \in DOMAIN row : \A k \in DOMAIN row : row[k] <= row[j]} IN Min(high)

(* _top_two: the two best scores of a row are closer than the margin; a      *)
(* single one has no margin.                                                 *)
LowMargin(row) ==
    LET finite == FiniteIn(row)
        others == finite \ {ArgMax(row)}
    IN  others # {} /\ row[ArgMax(row)] - Max({row[j] : j \in others}) < AmbiguousMargin

(* The sources of `argmax_owner[j]'.                                         *)
Owners(matrix, heard, j) ==
    {i \in heard : ArgMax(matrix[i]) = j /\ Finite(matrix[i][j])}

Rejected(status) == [status |-> status, speaker |-> None]
Linked(j) == [status |-> "linked", speaker |-> j]

(* Mutant: contested identities are not looked at.                           *)
NeverContested(matrix, heard, i, j) == FALSE

(* The source was assigned somebody else than the speaker it is most alike,  *)
(* and another source is drawn to that speaker too.                          *)
Contested(matrix, heard, i, j) ==
    LET preferred == ArgMax(matrix[i])
    IN  Cardinality(Owners(matrix, heard, preferred)) > 1 /\ j # preferred

(* The decision for source i under assignment a, in the order of the code.   *)
Decide(matrix, heard, known, a, i) ==
    LET row == matrix[i]
        j == a[i]
    IN  IF i \notin heard THEN Rejected("unknown")
        ELSE IF ~ IsCalibrated THEN Rejected("uncalibrated")
        ELSE IF j \notin prototypes THEN Rejected("unknown")
        ELSE IF known /\ Finite(row[j]) THEN Linked(j)
        ELSE IF row[j] < Accept THEN Rejected("unknown")
        ELSE IF LowMargin(row) THEN Rejected("ambiguous")
        ELSE IF Contested(matrix, heard, i, j) THEN Rejected("ambiguous")
        ELSE Linked(j)

(* LinkingResult.mapping *)
Mapping(made) ==
    [i \in {k \in DOMAIN made : made[k].status = "linked"} |-> made[i].speaker]

-----------------------------------------------------------------------------
(* _active_speakers: the speakers of the clusters that talk in the window    *)
(* and every temporary one; nobody when no cluster does.                     *)
CandidateKeys(active) == IF active = {} THEN {} ELSE active \union Temporaries

(* As many speakers of clusters as sources with an embedding.                *)
ConstrainedPermutation(active, heard) ==
    /\ ShortSourcePolicy
    /\ Cardinality(active) > 1
    /\ Cardinality(active) = Cardinality(heard)

(* link_sources for a window with these embeddings and active clusters.      *)
LinkSources(similarity, active) ==
    /\ decisions = <<>>
    /\ prototypes # {}
    /\ embedded' = DOMAIN similarity
    /\ candidates' = CandidateKeys(active)
    /\ constrained' = ConstrainedPermutation(active, embedded')
    /\ base' = RestrictToCandidates(BuildScoreMatrix(similarity), candidates')
    /\ LET scored == ApplyContinuityBonus(base')
       IN  \E a \in LinearSumAssignment(Solvable(Extended(scored, constrained'))) :
               decisions' = [i \in Sources |-> Decide(base', embedded', constrained', a, i)]
    /\ UNCHANGED <<prototypes, previous>>

(* The early return without a prototype: every source is unknown.            *)
LinkNobody(heard, active) ==
    /\ decisions = <<>>
    /\ prototypes = {}
    /\ embedded' = heard
    /\ candidates' = CandidateKeys(active)
    /\ constrained' = ConstrainedPermutation(active, heard)
    /\ base' = BuildScoreMatrix(<<>>)
    /\ decisions' = [i \in Sources |-> Rejected("unknown")]
    /\ UNCHANGED <<prototypes, previous>>

(* The sources are handled: the mapping is carried to the next window, or    *)
(* forgotten with the region, and speakers may have got a first centroid.    *)
Continue(mapping, learned) ==
    /\ decisions # <<>>
    /\ prototypes' = prototypes \union learned
    /\ previous' = mapping
    /\ embedded' = {}
    /\ base' = <<>>
    /\ candidates' = {}
    /\ constrained' = FALSE
    /\ decisions' = <<>>

NextWindow(learned) == Continue(Mapping(decisions), learned)
NextRegion(learned) == Continue(<<>>, learned)

LinkNext ==
    \/ \E heard \in SUBSET Sources, active \in SUBSET (Speakers \ Temporaries) :
          \/ \E similarity \in [heard -> [prototypes -> Scores]] : LinkSources(similarity, active)
          \/ LinkNobody(heard, active)
    \/ \E learned \in SUBSET Temporaries : NextWindow(learned)
    \/ \E learned \in SUBSET Speakers : NextRegion(learned)

LinkSpec == LinkInit /\ [][LinkNext]_linkVars

-----------------------------------------------------------------------------
Decision == [status : {"linked", "unknown", "ambiguous", "uncalibrated"},
             speaker : Speakers \union {None}]

(* Every variable keeps its type; a mapping names speakers with a centroid.  *)
LinkTypeOK ==
    /\ prototypes \subseteq Speakers
    /\ \A i \in DOMAIN previous : i \in Sources /\ previous[i] \in prototypes
    /\ embedded \subseteq Sources
    /\ candidates \subseteq Speakers
    /\ constrained \in BOOLEAN
    /\ decisions = <<>> \/ decisions \in [Sources -> Decision]

(* No two sources of a window are one person, in whatever order thresholds,  *)
(* margins and the constrained permutation decide.                           *)
LinkedOnce ==
    \A i, k \in DOMAIN decisions :
        i # k /\ decisions[i].speaker # None => decisions[i].speaker # decisions[k].speaker

(* A source is never linked to somebody the diarizer says is silent, when    *)
(* anybody it can be compared with talks.                                    *)
OnlyActive ==
    embedded # {} /\ candidates \intersect prototypes # {} =>
        \A i \in DOMAIN decisions :
            decisions[i].speaker # None => decisions[i].speaker \in candidates

(* With two sources and a margin of more than two bonuses, a source that is  *)
(* linked by the thresholds is linked to the speaker it is most alike: the   *)
(* continuity bonus breaks ties and no more.                                 *)
BestMatch ==
    Cardinality(embedded) <= 2 /\ ~ constrained /\ 2 * Bonus < AmbiguousMargin =>
        \A i \in DOMAIN decisions :
            decisions[i].speaker # None =>
                \A j \in prototypes : base[i][j] <= base[i][decisions[i].speaker]
=============================================================================
