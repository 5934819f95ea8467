--------------------------- MODULE OfflineSpeakers ---------------------------
(***************************************************************************)
(* Who speaks, in one OfflinePipeline.run (a batch job, or the final pass   *)
(* of a stream, which runs on a fresh roster): the shared stages, then      *)
(*                                                                         *)
(*   "reconcile" reconcile_temporary_speakers                               *)
(*   "voiceid"   apply_voice_id                                             *)
(*   "finalize"  finalize_unresolved                                        *)
(*   "fuse"      FusionEngine.fuse                                          *)
(*                                                                         *)
(* Each loop walks `todo', the list it took when it started, in order.      *)
(***************************************************************************)
EXTENDS SpeakerStages

VARIABLE todo

vars == <<stageVars, todo>>

Init == StageInit /\ todo = {}

Frame == UNCHANGED <<window, tracks, links, crop, region, heard, together>>

(* ensure_cluster_speaker raises: the run, and with it the job, fails.       *)
RosterFull(c) ==
    /\ Refused(c)
    /\ phase' = "failed"
    /\ UNCHANGED <<roster, todo>>
    /\ Frame

-----------------------------------------------------------------------------
(* Reconciliation: without a session centroid it returns at once.            *)

StartReconcile ==
    /\ phase \in {"links", "protos", "crops"}
    /\ tracks = 0
    /\ phase' = "reconcile"
    /\ todo' = IF Prototypes(roster) = {} THEN {}
               ELSE ProvisionalSpeakers(roster) \intersect WithPrototype(roster)
    /\ heard' = heard \union region
    /\ region' = {}
    /\ UNCHANGED <<roster, window, tracks, links, crop, together>>

(* link_sources names a session centroid; a forbidden merge is skipped.      *)
ReconcileLinked(key) ==
    /\ phase = "reconcile"
    /\ todo # {}
    /\ IsCalibrated
    /\ key \in Keys(roster, Prototypes(roster))
    /\ LET s == First(todo)
       IN  /\ roster' = IF CanMerge(roster, s, key) THEN Merge(roster, s, key) ELSE roster
           /\ todo' = todo \ {s}
    /\ UNCHANGED phase
    /\ Frame

ReconcileUnlinked ==
    /\ phase = "reconcile"
    /\ todo # {}
    /\ todo' = todo \ {First(todo)}
    /\ UNCHANGED <<roster, phase>>
    /\ Frame

-----------------------------------------------------------------------------
(* Voice ID over every active speaker with a centroid.                       *)

StartVoiceId ==
    /\ phase = "reconcile"
    /\ todo = {}
    /\ phase' = "voiceid"
    /\ todo' = WithPrototype(roster)
    /\ UNCHANGED roster
    /\ Frame

VoiceId(decided) ==
    /\ phase = "voiceid"
    /\ todo # {}
    /\ roster' = decided
    /\ todo' = todo \ {First(todo)}
    /\ UNCHANGED phase
    /\ Frame

VoiceIdEnrolled(person) == VoiceId(ApplyEnrolled(roster, First(todo), person))

VoiceIdAmbiguous == VoiceId(ApplyAmbiguous(roster, First(todo)))

(* "unknown" and "uncalibrated" leave the session label untouched.           *)
VoiceIdUnknown == VoiceId(roster)

-----------------------------------------------------------------------------
StartFinalize ==
    /\ phase = "voiceid"
    /\ todo = {}
    /\ phase' = "finalize"
    /\ todo' = Active(roster)
    /\ UNCHANGED roster
    /\ Frame

Finalize ==
    /\ phase = "finalize"
    /\ todo # {}
    /\ roster' = FinalizeUnresolved(roster, First(todo))
    /\ todo' = todo \ {First(todo)}
    /\ UNCHANGED phase
    /\ Frame

StartFuse ==
    /\ phase = "finalize"
    /\ todo = {}
    /\ phase' = "fuse"
    /\ UNCHANGED <<roster, todo>>
    /\ Frame

FuseUnattributedWord ==
    /\ phase = "fuse"
    /\ roster' = FallbackSpeaker
    /\ UNCHANGED <<phase, todo>>
    /\ Frame

FuseDone ==
    /\ phase = "fuse"
    /\ phase' = "done"
    /\ UNCHANGED <<roster, todo>>
    /\ Frame

Terminated == phase \in {"done", "failed"} /\ UNCHANGED vars

Stage ==
    /\ \/ \E c \in Clusters : EnsureClusterSpeaker(c)
       \/ ClustersDone
       \/ \E c, d \in Clusters : CannotLinkClusters(c, d)
       \/ \E c \in Clusters : CleanPrototype(c)
       \/ OpenRegion(LinkingPrototypes(roster))
       \/ NextWindow(LinkingPrototypes(roster))
       \/ SeparationFailed
       \/ Source
    /\ UNCHANGED todo

Next ==
    \/ Stage
    \/ \E c \in Clusters : RosterFull(c)
    \/ StartReconcile
    \/ \E key \in Ids : ReconcileLinked(key)
    \/ ReconcileUnlinked
    \/ StartVoiceId
    \/ \E person \in Registry : VoiceIdEnrolled(person)
    \/ VoiceIdAmbiguous
    \/ VoiceIdUnknown
    \/ StartFinalize
    \/ Finalize
    \/ StartFuse
    \/ FuseUnattributedWord
    \/ FuseDone
    \/ Terminated

Spec == Init /\ [][Next]_vars

-----------------------------------------------------------------------------
(* The roster and the control variables keep their types.                    *)
TypeOK ==
    /\ StageTypeOK
    /\ phase \in StagePhases \union {"reconcile", "voiceid", "finalize", "fuse", "done", "failed"}
    /\ todo \subseteq Ids

(* Fusion never raises: TranscriptSegment._validate asks for a registry ID   *)
(* of exactly the enrolled speakers, and get() hands fusion active ones.     *)
SegmentsValid ==
    \A s \in Active(roster) :
        (roster.registry[s] # None) <=> (roster.state[s] = "ENROLLED")

(* Once the run is over nobody is left provisional when linking is           *)
(* calibrated, and an UNKNOWN speaker holds no evidence: finalize_unresolved *)
(* resolves every identity it can.                                           *)
ResolvedAtEnd ==
    phase \in {"fuse", "done"} =>
        /\ IsCalibrated => ProvisionalSpeakers(roster) = {}
        /\ \A s \in Active(roster) :
                roster.state[s] = "UNKNOWN" => roster.proto[s] = None

(* separate_and_link: "Sources of one crop are concurrent by construction,   *)
(* so they are different people and can never be merged later".              *)
ConcurrentSourcesDistinct ==
    \A pair \in together : Get(roster, pair[1]) # Get(roster, pair[2])
=============================================================================
