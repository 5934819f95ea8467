-------------------------- MODULE StreamingSpeakers --------------------------
(***************************************************************************)
(* Who speaks, in one StreamingSession (application/streaming_pipeline.py): *)
(* every rolling window applies the shared stages to the session's roster   *)
(* and emits provisional segments; finalize() then walks the segments of    *)
(* the offline second pass (its own roster: module OfflineSpeakers) and     *)
(* settles the rolling identities those segments supersede.                 *)
(*                                                                         *)
(* `shown' is what a client knows: the label of every speaker ID it was     *)
(* sent, as the provisional events and the label revisions told it.         *)
(***************************************************************************)
EXTENDS SpeakerStages

VARIABLES
    emitted,   \* speaker IDs of the provisional events sent
    replaced,  \* history: those with an event that a final segment superseded
    shown      \* the label the client holds for each of them

vars == <<stageVars, emitted, replaced, shown>>

NoLabel == <<"", 0>>

Init == StageInit /\ emitted = {} /\ replaced = {} /\ shown = [s \in Ids |-> NoLabel]

Client == <<emitted, replaced, shown>>

(* _drain_label_revisions: one revision event per pending change, in order.  *)
DrainLabelRevisions ==
    LET changes == roster.pending
        of(s) == {i \in DOMAIN changes : changes[i][1] = s}
        last(s) == CHOOSE i \in of(s) : \A j \in of(s) : j <= i
    IN  /\ shown' = [s \in Ids |-> IF of(s) = {} THEN shown[s] ELSE changes[last(s)][2]]
        /\ roster' = DrainLabelChanges(roster)
        /\ UNCHANGED <<emitted, replaced>>

(* The next rolling window, or the forced last one, starts over.             *)
NewWindow ==
    /\ phase' = "clusters"
    /\ window' = {} /\ links' = {} /\ crop' = {} /\ region' = {} /\ heard' = {}
    /\ UNCHANGED <<tracks, together>>

(* ensure_cluster_speaker raises: the push fails, the session lives on with  *)
(* what the roster already holds.                                            *)
RosterFull(c) ==
    /\ Refused(c)
    /\ NewWindow
    /\ UNCHANGED <<roster, Client>>

(* No speech interval is closed yet: the window ends after the clusters.     *)
NothingClosed ==
    /\ phase \in {"links", "protos"}
    /\ NewWindow
    /\ DrainLabelRevisions

-----------------------------------------------------------------------------
(* _emit_provisional: fusion first, then one event per segment.              *)

StartFuse ==
    /\ phase \in {"links", "protos", "crops"}
    /\ tracks = 0
    /\ phase' = "fuse"
    /\ heard' = heard \union region
    /\ region' = {}
    /\ UNCHANGED <<roster, window, tracks, links, crop, together, Client>>

FuseUnattributedWord ==
    /\ phase = "fuse"
    /\ roster' = FallbackSpeaker
    /\ heard' = heard \union {IF ProvisionalSpeakers(roster) # {}
                              THEN First(ProvisionalSpeakers(roster))
                              ELSE FallbackSpeaker.sink}
    /\ UNCHANGED <<phase, window, tracks, links, crop, region, together, Client>>

EmitProvisional(s) ==
    /\ phase \in {"fuse", "emit"}
    /\ phase' = "emit"
    /\ s \in heard
    /\ emitted' = emitted \union {s}
    /\ shown' = [shown EXCEPT ![s] = roster.label[s]]
    /\ heard' = heard \ {s}
    /\ UNCHANGED <<roster, window, tracks, links, crop, region, together, replaced>>

WindowDone ==
    /\ phase \in {"fuse", "emit"}
    /\ NewWindow
    /\ DrainLabelRevisions

-----------------------------------------------------------------------------
(* finalize(): the forced window is over, the second pass has its segments.  *)

StartFinalPass ==
    /\ phase \in {"links", "protos", "fuse", "emit"}
    /\ phase' = "final"
    /\ DrainLabelRevisions
    /\ UNCHANGED <<window, tracks, links, crop, region, heard, together>>

(* The second pass raises before it has segments; finalize may be retried    *)
(* and then forces another window.                                           *)
FinalPassFailed ==
    /\ phase = "final"
    /\ replaced = {}
    /\ NewWindow
    /\ UNCHANGED <<roster, Client>>

FinalLabels ==
    {SpeakerLabel(k) : k \in 1 .. MaxSessionSpeakers}
        \union {NameLabel(person) : person \in Registry} \union {UnattributedLabel}

(* The rolling speaker that already carries the final label, if any.         *)
Bearers(s, label) ==
    {t \in Active(roster) \ {s} : roster.state[t] # "PROVISIONAL" /\ roster.label[t] = label}

Settle(prior, label) ==
    LET s == Get(roster, prior)
        targets == Bearers(s, label)
    IN  CASE roster.state[s] # "PROVISIONAL" \/ label[1] # "Speaker" -> roster
          [] OTHER -> IF targets # {} /\ CanMerge(roster, s, First(targets))
                      THEN Merge(roster, s, First(targets))
                      ELSE PromoteProvisionalAs(roster, prior, label)

(* A final segment with this label supersedes a provisional event of `prior'.*)
FinalSegment(prior, label) ==
    /\ phase = "final"
    /\ prior \in emitted
    /\ roster' = Settle(prior, label)
    /\ replaced' = replaced \union {prior}
    /\ UNCHANGED <<phase, window, tracks, links, crop, region, heard, together, emitted, shown>>

(* Every segment is prepared: the revisions go out, then the finals.         *)
FinalPassDone ==
    /\ phase = "final"
    /\ phase' = "done"
    /\ DrainLabelRevisions
    /\ UNCHANGED <<window, tracks, links, crop, region, heard, together>>

Terminated == phase = "done" /\ UNCHANGED vars

Stage ==
    /\ \/ \E c \in Clusters : EnsureClusterSpeaker(c)
       \/ ClustersDone
       \/ \E c, d \in Clusters : CannotLinkClusters(c, d)
       \/ \E c \in Clusters : CleanPrototype(c)
       \/ OpenRegion(Prototypes(roster))
       \/ NextWindow(Prototypes(roster))
       \/ SeparationFailed
       \/ Source
    /\ UNCHANGED Client

Next ==
    \/ Stage
    \/ \E c \in Clusters : RosterFull(c)
    \/ NothingClosed
    \/ StartFuse
    \/ FuseUnattributedWord
    \/ \E s \in Ids : EmitProvisional(s)
    \/ WindowDone
    \/ StartFinalPass
    \/ \E s \in Ids, label \in FinalLabels : FinalSegment(s, label)
    \/ FinalPassFailed
    \/ FinalPassDone
    \/ Terminated

Spec == Init /\ [][Next]_vars

-----------------------------------------------------------------------------
(* The roster, the control variables and the client's view keep their types. *)
TypeOK ==
    /\ StageTypeOK
    /\ phase \in StagePhases \union {"fuse", "emit", "final", "done"}
    /\ emitted \subseteq Speakers(roster)
    /\ replaced \subseteq emitted
    /\ shown \in [Ids -> Labels]

(* No label change stays on the server: at every moment the client's label   *)
(* of a speaker it was told about is the roster's, up to the revisions that  *)
(* are still queued for it.                                                  *)
LabelsPublished ==
    \A s \in emitted :
        \/ shown[s] = roster.label[s]
        \/ \E i \in DOMAIN roster.pending : roster.pending[i] = <<s, roster.label[s]>>
=============================================================================
