--------------------------- MODULE SessionSpeakers ---------------------------
(***************************************************************************)
(* The speaker roster of one session: class SessionSpeakerState of          *)
(* application/session_state.py over the SessionSpeaker records and the     *)
(* identity state machine of domain/speakers.py.                            *)
(*                                                                         *)
(* The roster is one value; every method of the class is an operator that   *)
(* takes the roster and returns the roster it leaves behind, so that the    *)
(* pipeline stages (modules SpeakerStages, OfflineSpeakers and              *)
(* StreamingSpeakers) can make a whole handler one step.                    *)
(*                                                                         *)
(* Abstractions: a ULID is its rank in creation order (IDs are never reused *)
(* and `order' lists them in that order); a centroid is its speaker_key,    *)
(* the only part of it that control flow reads; the quality, duration and   *)
(* margin gates of update_prototype are the caller's nondeterministic       *)
(* choice, its gate on the identity state is kept.                          *)
(***************************************************************************)
EXTENDS Integers, FiniteSets, Sequences

CONSTANTS
    Clusters,            \* diarization cluster keys
    Registry,            \* identities of the voice registry
    MaxSessionSpeakers,  \* config.product.max_session_speakers
    IsCalibrated         \* config.source_linking.is_calibrated

ASSUME BoundAssumption == MaxSessionSpeakers \in Nat \ {0}
ASSUME CalibratedAssumption == IsCalibrated \in BOOLEAN
ASSUME NamesAssumption == 0 \notin Clusters /\ 0 \notin Registry

None == 0

(* The bound admits MaxSessionSpeakers identities, the sink comes on top.   *)
Ids == 1 .. (MaxSessionSpeakers + 1)

IdentityState == {"PROVISIONAL", "SESSION_ANONYMOUS", "ENROLLED", "MERGED",
                  "AMBIGUOUS", "UNKNOWN"}

AllowedTransitions ==
    [from \in IdentityState |->
        CASE from = "PROVISIONAL"       -> {"SESSION_ANONYMOUS", "ENROLLED", "UNKNOWN"}
          [] from = "SESSION_ANONYMOUS" -> {"ENROLLED", "MERGED"}
          [] from = "MERGED"            -> {"SESSION_ANONYMOUS"}
          [] from = "ENROLLED"          -> {"AMBIGUOUS"}
          [] from = "AMBIGUOUS"         -> {"ENROLLED", "UNKNOWN"}
          [] from = "UNKNOWN"           -> {}]

(* Display labels: "Speaker 2", "Temporary Speaker 1", "Unknown", a name.    *)
SpeakerLabel(k) == <<"Speaker", k>>
TemporaryLabel(k) == <<"Temporary Speaker", k>>
UnattributedLabel == <<"Unknown", 0>>
NameLabel(person) == <<"Name", person>>
Labels == {"Speaker", "Temporary Speaker"} \X Nat
          \union {UnattributedLabel, <<"", 0>>}
          \union {NameLabel(person) : person \in Registry}

(* A slot of the roster that no speaker occupies yet holds the defaults.     *)
Roster ==
    [count    : 0 .. (MaxSessionSpeakers + 1),
     state    : [Ids -> IdentityState],
     merged   : [Ids -> Ids \union {None}],
     cannot   : [Ids -> SUBSET Ids],
     cluster  : [Ids -> Clusters \union {None}],
     proto    : [Ids -> Ids \union {None}],
     label    : [Ids -> Labels],
     registry : [Ids -> Registry \union {None}],
     labels   : Nat,
     temps    : Nat,
     sink     : Ids \union {None},
     pending  : Seq(Ids \X Labels)]

EmptyRoster ==
    [count    |-> 0,
     state    |-> [s \in Ids |-> "PROVISIONAL"],
     merged   |-> [s \in Ids |-> None],
     cannot   |-> [s \in Ids |-> {}],
     cluster  |-> [s \in Ids |-> None],
     proto    |-> [s \in Ids |-> None],
     label    |-> [s \in Ids |-> <<"", 0>>],
     registry |-> [s \in Ids |-> None],
     labels   |-> 0,
     temps    |-> 0,
     sink     |-> None,
     pending  |-> <<>>]

-----------------------------------------------------------------------------
(* Lookup *)

Speakers(r) == 1 .. r.count

(* get(): follow merged_into to the identity that is still canonical.        *)
Get(r, s) ==
    LET canonical[x \in Ids] ==
            IF r.merged[x] = None THEN x ELSE canonical[r.merged[x]]
    IN  canonical[s]

Active(r) == {s \in Speakers(r) : r.merged[s] = None}

CanAdmitSpeaker(r) == Cardinality(Active(r)) < MaxSessionSpeakers

First(S) == CHOOSE s \in S : \A t \in S : s <= t

(* by_cluster(): the first unmerged speaker of the cluster, or None.         *)
ByCluster(r, c) ==
    LET holders == {s \in Active(r) : r.cluster[s] = c}
    IN  IF holders = {} THEN None ELSE First(holders)

ProvisionalSpeakers(r) == {s \in Active(r) : r.state[s] = "PROVISIONAL"}

WithPrototype(r) == {s \in Active(r) : r.proto[s] # None}

(* prototypes(): the session centroids, provisional evidence left out.       *)
Prototypes(r) == WithPrototype(r) \ ProvisionalSpeakers(r)

(* linking_prototypes(): temporary centroids too, for continuity.            *)
LinkingPrototypes(r) == WithPrototype(r)

(* link_sources() answers with the speaker_key of a prototype.               *)
Keys(r, S) == {r.proto[s] : s \in S}

-----------------------------------------------------------------------------
(* Creation: _register gives the next ID to a speaker in an initial state.   *)

Register(r, state, cluster, label) ==
    LET s == r.count + 1
    IN  [r EXCEPT !.count = s, !.state[s] = state, !.cluster[s] = cluster,
                  !.label[s] = label]

CreateSessionSpeaker(r, c) ==
    Register([r EXCEPT !.labels = @ + 1], "SESSION_ANONYMOUS", c,
             SpeakerLabel(r.labels + 1))

CreateTemporarySpeaker(r) ==
    Register([r EXCEPT !.temps = @ + 1], "PROVISIONAL", None,
             TemporaryLabel(r.temps + 1))

(* unattributed_speaker(): registered once, in UNKNOWN, whatever the bound.  *)
UnattributedSpeaker(r) ==
    IF r.sink # None
    THEN r
    ELSE [Register(r, "UNKNOWN", None, UnattributedLabel) EXCEPT !.sink = r.count + 1]

-----------------------------------------------------------------------------
(* Prototypes: the first accepted embedding creates one under the speaker's  *)
(* own key, a later one keeps the key.                                       *)

(* Mutant: the prototype is filed under the speaker registered last.         *)
EmbedUnderLast(r, s) ==
    IF r.proto[s] = None THEN [r EXCEPT !.proto[s] = r.count] ELSE r

Embed(r, s) ==
    IF r.proto[s] = None THEN [r EXCEPT !.proto[s] = s] ELSE r

UpdatePrototype(r, id) ==
    LET s == Get(r, id)
    IN  IF r.state[s] \in {"UNKNOWN", "AMBIGUOUS"} THEN r ELSE Embed(r, s)

BufferProvisionalEmbedding(r, id) ==
    LET s == Get(r, id)
    IN  IF r.state[s] # "PROVISIONAL" THEN r ELSE Embed(r, s)

-----------------------------------------------------------------------------
(* Constraints and merges *)

AddCannotLink(r, first, second) ==
    LET a == Get(r, first)
        b == Get(r, second)
    IN  IF a = b
        THEN r
        ELSE [r EXCEPT !.cannot[a] = @ \union {b}, !.cannot[b] = @ \union {a}]

CanMerge(r, source, target) ==
    LET a == Get(r, source)
        b == Get(r, target)
    IN  a # b /\ b \notin r.cannot[a]

(* Mutant: the target is merged into the source.                             *)
MergeSwapped(r, source, target) ==
    LET a == Get(r, target)
        b == Get(r, source)
    IN  [r EXCEPT !.state[a] = "MERGED", !.merged[a] = b, !.label[a] = r.label[b],
                  !.cannot[b] = @ \union (r.cannot[a] \ {b}),
                  !.pending = Append(@, <<a, r.label[b]>>)]

(* Mutant: the constraints of the merged speaker are not inherited.          *)
MergeForgetsConstraints(r, source, target) ==
    LET a == Get(r, source)
        b == Get(r, target)
    IN  [r EXCEPT !.state[a] = "MERGED", !.merged[a] = b, !.label[a] = r.label[b],
                  !.proto[b] = IF @ = None THEN r.proto[a] ELSE @,
                  !.pending = Append(@, <<a, r.label[b]>>)]

(* Mutant: the new label is not queued as a revision.                        *)
MergeSilently(r, source, target) ==
    LET a == Get(r, source)
        b == Get(r, target)
    IN  [r EXCEPT !.state[a] = "MERGED", !.merged[a] = b, !.label[a] = r.label[b],
                  !.proto[b] = IF @ = None THEN r.proto[a] ELSE @,
                  !.cannot[b] = @ \union (r.cannot[a] \ {b})]

(* merge(): called only where CanMerge holds, else it raises.                *)
Merge(r, source, target) ==
    LET a == Get(r, source)
        b == Get(r, target)
    IN  [r EXCEPT
            !.state[a]  = IF @ \in {"PROVISIONAL", "SESSION_ANONYMOUS"} THEN "MERGED" ELSE @,
            !.merged[a] = b,
            !.proto[b]  = IF @ = None THEN r.proto[a] ELSE @,
            !.cannot[b] = @ \union (r.cannot[a] \ {b}),
            !.label[a]  = r.label[b],
            !.pending   = Append(@, <<a, r.label[b]>>)]

-----------------------------------------------------------------------------
(* Identity resolution *)

(* promote_provisional() with the label its caller chose, or the next one.   *)
PromoteProvisionalAs(r, id, label) ==
    LET s == Get(r, id)
    IN  IF r.state[s] # "PROVISIONAL"
        THEN r
        ELSE [r EXCEPT !.state[s] = "SESSION_ANONYMOUS", !.label[s] = label,
                       !.pending = Append(@, <<s, label>>)]

PromoteProvisional(r, id) ==
    IF r.state[Get(r, id)] # "PROVISIONAL"
    THEN r
    ELSE PromoteProvisionalAs([r EXCEPT !.labels = @ + 1], id, SpeakerLabel(r.labels + 1))

(* Mutant: the registry ID is set before, and without, the transition.       *)
EnrolWithoutTransition(r, id, person) ==
    LET s == Get(r, id)
    IN  [r EXCEPT !.registry[s] = person, !.label[s] = NameLabel(person)]

(* apply_voice_id() with an "enrolled" decision for this person.             *)
ApplyEnrolled(r, id, person) ==
    LET s == Get(r, id)
    IN  [r EXCEPT
            !.state[s]    = IF @ \in {"PROVISIONAL", "SESSION_ANONYMOUS", "AMBIGUOUS"}
                            THEN "ENROLLED" ELSE @,
            !.registry[s] = person,
            !.label[s]    = NameLabel(person),
            !.pending     = Append(@, <<s, NameLabel(person)>>)]

(* apply_voice_id() with an "ambiguous" decision.                            *)
ApplyAmbiguous(r, id) ==
    LET s == Get(r, id)
    IN  [r EXCEPT !.state[s] = IF @ = "ENROLLED" THEN "AMBIGUOUS" ELSE @]

(* drain_label_changes() *)
DrainLabelChanges(r) == [r EXCEPT !.pending = <<>>]

(* Mutant: every speaker without evidence becomes UNKNOWN, provisional or not.*)
FinalizeAnyState(r, s) ==
    IF r.proto[s] = None THEN [r EXCEPT !.state[s] = "UNKNOWN"]
    ELSE IF IsCalibrated THEN PromoteProvisional(r, s) ELSE r

(* Mutant: the calibration test is inverted.                                 *)
FinalizeInverted(r, s) ==
    CASE r.state[s] # "PROVISIONAL" -> r
      [] r.state[s] = "PROVISIONAL" /\ r.proto[s] = None -> [r EXCEPT !.state[s] = "UNKNOWN"]
      [] r.state[s] = "PROVISIONAL" /\ r.proto[s] # None ->
            IF IsCalibrated THEN r ELSE PromoteProvisional(r, s)

(* One iteration of finalize_unresolved() over an active speaker.            *)
FinalizeUnresolved(r, s) ==
    CASE r.state[s] # "PROVISIONAL" -> r
      [] r.state[s] = "PROVISIONAL" /\ r.proto[s] = None -> [r EXCEPT !.state[s] = "UNKNOWN"]
      [] r.state[s] = "PROVISIONAL" /\ r.proto[s] # None ->
            IF IsCalibrated THEN PromoteProvisional(r, s) ELSE r
=============================================================================
