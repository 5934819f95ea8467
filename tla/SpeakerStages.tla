---------------------------- MODULE SpeakerStages ----------------------------
(***************************************************************************)
(* The stages of application/offline_pipeline.py that both the offline run  *)
(* and every rolling window of a stream apply to the roster, in the order   *)
(* the code runs them:                                                      *)
(*                                                                         *)
(*   "clusters"  build_global_speakers, one ensure_cluster_speaker per      *)
(*               cluster of the diarization                                 *)
(*   "links"     cannot-links of clusters whose turns overlap               *)
(*   "protos"    clean prototypes of the clusters                           *)
(*   "crops"     separate_and_link: for each crop one link_sources call,    *)
(*               then its sources one by one                                *)
(*                                                                         *)
(* What the models answer (turns, embeddings, scores, words) is             *)
(* nondeterministic; what the code does with the answers is not.            *)
(***************************************************************************)
EXTENDS SessionSpeakers

CONSTANT SourceCounts    \* numbers of sources a separator is asked for

ASSUME SourceAssumption == SourceCounts \subseteq Nat

VARIABLES
    roster,    \* the SessionSpeakerState
    phase,     \* where the pipeline stands
    window,    \* clusters of the diarization being applied
    tracks,    \* sources of the open crop still to be handled
    links,     \* speaker keys link_sources may still answer in this crop
    crop,      \* assigned_in_crop
    region,    \* speakers of the word groups of the open overlap region
    heard,     \* speakers of the word groups that reach fusion
    together   \* history: pairs of IDs the code saw speak at the same time

stageVars == <<roster, phase, window, tracks, links, crop, region, heard, together>>

StageInit ==
    /\ roster = EmptyRoster
    /\ phase = "clusters"
    /\ window = {}
    /\ tracks = 0
    /\ links = {}
    /\ crop = {}
    /\ region = {}
    /\ heard = {}
    /\ together = {}

Pairs(S, T) == {p \in S \X T : p[1] # p[2]}

-----------------------------------------------------------------------------
(* build_global_speakers *)

(* create_session_speaker raises for a new cluster when the roster is full.  *)
Refused(c) ==
    /\ phase = "clusters"
    /\ c \in Clusters \ window
    /\ ByCluster(roster, c) = None
    /\ ~ CanAdmitSpeaker(roster)

EnsureClusterSpeaker(c) ==
    /\ phase = "clusters"
    /\ c \in Clusters \ window
    /\ \/ ByCluster(roster, c) # None /\ roster' = roster
       \/ /\ ByCluster(roster, c) = None
          /\ CanAdmitSpeaker(roster)
          /\ roster' = CreateSessionSpeaker(roster, c)
    /\ window' = window \union {c}
    /\ UNCHANGED <<phase, tracks, links, crop, region, heard, together>>

ClustersDone ==
    /\ phase = "clusters"
    /\ phase' = "links"
    /\ heard' = heard \union {ByCluster(roster, c) : c \in window}
    /\ UNCHANGED <<roster, window, tracks, links, crop, region, together>>

CannotLinkClusters(c, d) ==
    /\ phase = "links"
    /\ {c, d} \subseteq window /\ c # d
    /\ LET a == ByCluster(roster, c)
           b == ByCluster(roster, d)
       IN  /\ roster' = AddCannotLink(roster, a, b)
           /\ together' = together \union Pairs({a}, {b}) \union Pairs({b}, {a})
    /\ UNCHANGED <<phase, window, tracks, links, crop, region, heard>>

CleanPrototype(c) ==
    /\ phase \in {"links", "protos"}
    /\ c \in window
    /\ phase' = "protos"
    /\ roster' = UpdatePrototype(roster, ByCluster(roster, c))
    /\ UNCHANGED <<window, tracks, links, crop, region, heard, together>>

-----------------------------------------------------------------------------
(* handle_overlap_region and separate_and_link *)

(* One window of _split_crop: link_sources is asked once for all its sources.*)
OpenCrop(targets) ==
    /\ phase \in {"links", "protos", "crops"}
    /\ tracks = 0
    /\ phase' = "crops"
    /\ tracks' \in SourceCounts
    /\ links' = IF IsCalibrated THEN Keys(roster, targets) ELSE {}
    /\ crop' = {}
    /\ UNCHANGED <<roster, window, together>>

(* The next overlap region: the groups of the previous one are kept.         *)
OpenRegion(targets) ==
    /\ OpenCrop(targets)
    /\ heard' = heard \union region
    /\ region' = {}

(* A further window of the same region.                                      *)
NextWindow(targets) ==
    /\ phase = "crops"
    /\ OpenCrop(targets)
    /\ UNCHANGED <<region, heard>>

(* The separator fails on a window: the groups of the region are lost, the   *)
(* retry starts over or mixture ASR takes the region; the roster stays.      *)
SeparationFailed ==
    /\ phase = "crops"
    /\ tracks = 0
    /\ region # {}
    /\ region' = {}
    /\ UNCHANGED <<roster, phase, window, tracks, links, crop, heard, together>>

(* add_cannot_link of a source's speaker with every speaker of the crop.     *)
AssignInCrop(r, id) ==
    LET a == Get(r, id)
        others == {Get(r, other) : other \in crop} \ {a}
    IN  [r EXCEPT !.cannot =
            [s \in Ids |-> CASE s = a        -> r.cannot[s] \union others
                             [] s \in others -> r.cannot[s] \union {a}
                             [] OTHER        -> r.cannot[s]]]

Assign(r, id) ==
    /\ roster' = AssignInCrop(r, id)
    /\ crop' = crop \union {id}
    /\ region' = region \union {id}
    /\ together' = together \union Pairs({id}, crop) \union Pairs(crop, {id})
    /\ tracks' = tracks - 1
    /\ UNCHANGED <<phase, window, heard>>

SourceLinked(key) ==
    /\ tracks > 0
    /\ key \in links
    /\ links' = links \ {key}
    /\ Assign(IF roster.state[Get(roster, key)] = "PROVISIONAL"
              THEN BufferProvisionalEmbedding(roster, key)
              ELSE UpdatePrototype(roster, key), key)

(* No confident link, usable evidence, room in the roster.                   *)
SourceTemporary ==
    /\ tracks > 0
    /\ CanAdmitSpeaker(roster)
    /\ LET id == roster.count + 1
       IN  Assign(BufferProvisionalEmbedding(CreateTemporarySpeaker(roster), id), id)
    /\ UNCHANGED links

(* No words, or an unidentified source: the roster is not touched.           *)
SourceUnidentified ==
    /\ tracks > 0
    /\ tracks' = tracks - 1
    /\ UNCHANGED <<roster, phase, window, links, crop, region, heard, together>>

(* An implausible source transcript returns at once with a mixture group     *)
(* instead of the groups of the region; speakers already minted stay.        *)
SourceImplausible ==
    /\ tracks > 0
    /\ tracks' = 0
    /\ region' = {}
    /\ UNCHANGED <<roster, phase, window, links, crop, heard, together>>

Source ==
    \/ \E key \in links : SourceLinked(key)
    \/ SourceTemporary
    \/ SourceUnidentified
    \/ SourceImplausible

-----------------------------------------------------------------------------
(* Fusion: _fallback_speaker_id for a word no turn and no link claims.       *)

FallbackSpeaker ==
    IF ProvisionalSpeakers(roster) # {} THEN roster ELSE UnattributedSpeaker(roster)

-----------------------------------------------------------------------------
(* Properties of every driver of these stages *)

StagePhases == {"clusters", "links", "protos", "crops"}

StageTypeOK ==
    /\ roster \in Roster
    /\ window \subseteq Clusters
    /\ tracks \in Nat
    /\ links \subseteq Ids
    /\ crop \subseteq Speakers(roster)
    /\ region \subseteq Speakers(roster)
    /\ heard \subseteq Speakers(roster)
    /\ together \subseteq Speakers(roster) \X Speakers(roster)

(* get() ends after at most one hop: only a provisional identity is merged   *)
(* away, and what it is merged into is canonical for good.                   *)
MergesFlat ==
    \A s \in Speakers(roster) :
        /\ roster.merged[s] # None => roster.merged[s] \in Active(roster) \ ProvisionalSpeakers(roster)
        /\ roster.merged[s] # None <=> roster.state[s] = "MERGED"

(* A speaker_key link_sources answers with leads back, through get(), to the *)
(* active speaker whose prototype carries it: a merge that hands a prototype *)
(* over does not make the key point at somebody else.                        *)
KeysResolve ==
    \A s \in WithPrototype(roster) : Get(roster, roster.proto[s]) = s

(* At most max_session_speakers identities besides the Unknown sink, and at  *)
(* most one sink, whatever mixture of clusters, temporaries and words came.  *)
RosterBound ==
    /\ Cardinality(Active(roster) \ {roster.sink}) <= MaxSessionSpeakers
    /\ \A s \in Speakers(roster) :
            roster.label[s] = UnattributedLabel <=> s = roster.sink

(* A diarization cluster keeps one and the same speaker: by_cluster finds an *)
(* active holder and never has to choose between two.                        *)
ClusterStable ==
    \A s \in Speakers(roster) :
        roster.cluster[s] # None =>
            /\ roster.merged[s] = None
            /\ \A t \in Speakers(roster) : roster.cluster[t] = roster.cluster[s] => t = s

(* No merge loses a cannot-link: of two IDs seen speaking at the same time,  *)
(* the canonical speaker of one still carries a constraint that names the    *)
(* other, directly or through an ID merged into it.                          *)
ConstraintsKept ==
    \A pair \in together :
        LET a == Get(roster, pair[1])
            b == Get(roster, pair[2])
        IN  a = b \/ \E x \in roster.cannot[a] : Get(roster, x) = b

(* Whatever order merges, promotions and admissions come in, merges stay one *)
(* hop deep, the roster stays within its bound and no constraint is lost.    *)
RosterSound == MergesFlat /\ RosterBound /\ ConstraintsKept

(* machine.transition() never raises: a step moves an identity along one     *)
(* edge of the state machine, or along the two edges merge() takes.          *)
LegalTransitions ==
    [][\A s \in Speakers(roster) :
          \/ roster'.state[s] = roster.state[s]
          \/ roster'.state[s] \in AllowedTransitions[roster.state[s]]
          \/ roster.state[s] = "PROVISIONAL" /\ roster'.state[s] = "MERGED"]_roster
=============================================================================
