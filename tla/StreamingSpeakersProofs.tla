----------------------- MODULE StreamingSpeakersProofs -----------------------
(***************************************************************************)
(* One streaming session, for every number of windows, clusters, enrolled   *)
(* people and sources and every max_session_speakers: a prototype's key     *)
(* leads to its speaker, a cluster keeps its speaker, the client is told    *)
(* every label, and identities move along legal edges only.                 *)
(*                                                                         *)
(* On top of what the stages keep (StageInv, module SpeakerStagesProofs),   *)
(* the invariant says that rolling windows merge nobody, so that only the   *)
(* final pass does, and that a queued revision carries the label its        *)
(* speaker still has: a label changes once, when its speaker stops being    *)
(* provisional.                                                             *)
(***************************************************************************)
EXTENDS StreamingSpeakers, SpeakerStagesProofs

(* A session never looks a voice up in the registry.                         *)
Rolling(r) ==
    \A s \in Active(r) :
        /\ r.state[s] \in {"PROVISIONAL", "SESSION_ANONYMOUS", "UNKNOWN"}
        /\ r.state[s] = "UNKNOWN" <=> s = r.sink

(* A queued revision is up to date, and the last one of its speaker.         *)
Queued(r) ==
    \A i \in DOMAIN r.pending :
        /\ r.pending[i][1] \in Speakers(r)
        /\ r.pending[i][2] = r.label[r.pending[i][1]]
        /\ r.state[r.pending[i][1]] # "PROVISIONAL"

(* What the client was sent, and when somebody may have been merged.         *)
SessionInv ==
    /\ phase \in StagePhases \union {"fuse", "emit", "final", "done"}
    /\ emitted \subseteq Speakers(roster)
    /\ replaced \subseteq emitted
    /\ shown \in [Ids -> Labels]
    /\ phase \notin {"final", "done"} => replaced = {}
    /\ replaced = {} => NoMerge(roster)
    /\ Bounded(roster)
    /\ Rolling(roster)
    /\ Queued(roster)

StreamingInv == StageInv /\ Cropped /\ SessionInv /\ LabelsPublished

(* The variables of the stages other than the roster and the phase.          *)
Still == UNCHANGED <<window, tracks, links, crop, region, heard, together>>

-----------------------------------------------------------------------------
(* Lemmas *)

(* A step that only touches the roster.                                      *)
LEMMA StillKept ==
    ASSUME StageInv, Sound(roster'), Later(roster, roster'), Still
    PROVE  StageInv'
<1>1. Speakers(roster) \subseteq Speakers(roster')
  BY DEF Later
<1>2. /\ window' \subseteq window /\ tracks' \in Nat
      /\ links' \subseteq Speakers(roster') /\ crop' \subseteq Speakers(roster')
      /\ region' \subseteq Speakers(roster') /\ heard' \subseteq Speakers(roster')
      /\ together' \subseteq Speakers(roster') \X Speakers(roster')
      /\ \A p \in together' \ together : Apart(roster', p[1], p[2])
  BY <1>1 DEF Still, StageInv
<1>3. QED
  BY <1>2, StageKept

(* A window that starts over forgets the clusters and crops of the last one. *)
LEMMA NewWindowKept ==
    ASSUME StageInv, Sound(roster'), Later(roster, roster'), NewWindow
    PROVE  StageInv'
<1>1. Speakers(roster) \subseteq Speakers(roster')
  BY DEF Later
<1>2. /\ window' \subseteq window /\ tracks' \in Nat
      /\ links' \subseteq Speakers(roster') /\ crop' \subseteq Speakers(roster')
      /\ region' \subseteq Speakers(roster') /\ heard' \subseteq Speakers(roster')
      /\ together' \subseteq Speakers(roster') \X Speakers(roster')
      /\ \A p \in together' \ together : Apart(roster', p[1], p[2])
  BY <1>1 DEF NewWindow, StageInv
<1>3. QED
  BY <1>2, StageKept

(* A session starts with nobody, and a client that knows nobody.             *)
LEMMA StreamingStarts ==
    ASSUME Init
    PROVE  StreamingInv
<1>1. StageInv /\ NoMerge(roster) /\ Bounded(roster) /\ Active(roster) = {}
  BY StageStarts DEF Init
<1>2. /\ phase = "clusters" /\ emitted = {} /\ replaced = {} /\ roster.pending = <<>>
      /\ shown = [s \in Ids |-> NoLabel]
  BY DEF Init, StageInit, EmptyRoster
<1>3. NoLabel \in Labels
  BY DEF NoLabel, Labels
<1>4. Rolling(roster) /\ Queued(roster)
  BY <1>1, <1>2 DEF Rolling, Queued
<1>5. SessionInv
  BY <1>1, <1>2, <1>3, <1>4 DEF SessionInv, StagePhases
<1>6. Cropped /\ LabelsPublished
  BY <1>2 DEF Init, StageInit, Cropped, LabelsPublished
<1>7. QED
  BY <1>1, <1>5, <1>6 DEF StreamingInv

-----------------------------------------------------------------------------
(* Label revisions *)

(* The queue is empty, the client knows the label of whoever it was told of. *)
Published ==
    /\ Sound(roster') /\ Later(roster, roster')
    /\ roster'.count = roster.count /\ roster'.state = roster.state
    /\ roster'.merged = roster.merged /\ roster'.sink = roster.sink
    /\ roster'.label = roster.label /\ roster'.pending = <<>>
    /\ emitted' = emitted /\ replaced' = replaced
    /\ shown' \in [Ids -> Labels]
    /\ \A s \in emitted : shown'[s] = roster.label[s]

(* _drain_label_revisions sends what is queued, and that is the label each   *)
(* speaker still has.                                                        *)
LEMMA DrainPublishes ==
    ASSUME StreamingInv, DrainLabelRevisions
    PROVE  Published
<1> DEFINE r == roster
           q == roster'
           changes == roster.pending
           of(s) == {i \in DOMAIN changes : changes[i][1] = s}
           last(s) == CHOOSE i \in of(s) : \A j \in of(s) : j <= i
<1>1. /\ shown' = [s \in Ids |-> IF of(s) = {} THEN shown[s] ELSE changes[last(s)][2]]
      /\ q = DrainLabelChanges(r) /\ emitted' = emitted /\ replaced' = replaced
  BY DEF DrainLabelRevisions
<1>2. Sound(r) /\ Queued(r) /\ LabelsPublished /\ shown \in [Ids -> Labels] /\ emitted \subseteq Ids
  BY RosterFields DEF StreamingInv, SessionInv, StageInv, Sound
<1>3. /\ r \in Roster /\ changes \in Seq(Ids \X Labels) /\ r.label \in [Ids -> Labels]
      /\ Speakers(r) \subseteq Ids
  BY <1>2, RosterFields DEF Sound
<1>4. /\ q.count = r.count /\ q.state = r.state /\ q.merged = r.merged /\ q.cannot = r.cannot
      /\ q.cluster = r.cluster /\ q.proto = r.proto /\ q.label = r.label
      /\ q.registry = r.registry /\ q.sink = r.sink /\ q.pending = <<>>
  BY <1>1, <1>3 DEF DrainLabelChanges, Roster
<1>5. q \in Roster
  <2>1. <<>> \in Seq(Ids \X Labels)
    OBVIOUS
  <2>2. QED
    BY <1>1, <1>3, <2>1 DEF DrainLabelChanges, Roster
<1> HIDE DEF q
<1>6. Sound(q)
  <2>1. \A s \in Ids : q.cannot[s] \subseteq Speakers(r)
    BY <1>2, <1>4 DEF Sound
  <2>2. QED
    BY <1>2, <1>4, <1>5, <2>1, ConstraintSound
<1>7. Later(r, q)
  BY <1>2, <1>4, <1>6, LaterWithoutMerge DEF Speakers
<1>8. ASSUME NEW s, of(s) # {}
      PROVE  last(s) \in of(s)
  <2> DEFINE n == Len(changes)
             back == {n - i : i \in of(s)}
  <2>1. n \in Nat /\ DOMAIN changes = 1 .. n
    BY <1>3
  <2>2. \A i \in of(s) : i \in 1 .. n
    BY <2>1
  <2> HIDE DEF of, n
  <2>3. back \subseteq Nat /\ back # {}
    BY <1>8, <2>1, <2>2
  <2>4. PICK i \in of(s) : n - i = First(back)
    BY <2>3, FirstIsLeast
  <2>5. \A j \in of(s) : First(back) <= n - j
    BY <2>3, FirstIsLeast
  <2>6. \A j \in of(s) : j <= i
    BY <2>1, <2>2, <2>4, <2>5
  <2>7. QED
    BY <2>6, Zenon
<1>9. ASSUME NEW s \in Ids, of(s) # {}
      PROVE  changes[last(s)][2] = r.label[s]
  <2>1. last(s) \in DOMAIN changes /\ changes[last(s)][1] = s
    BY <1>8, <1>9
  <2>2. QED
    BY <1>2, <2>1 DEF Queued
<1>10. ASSUME NEW s \in emitted, of(s) = {}
       PROVE  shown[s] = r.label[s]
  <2>1. \A i \in DOMAIN changes : changes[i] # <<s, r.label[s]>>
    BY <1>10
  <2>2. QED
    BY <1>2, <2>1 DEF LabelsPublished
<1> HIDE DEF of, last
<1>11. shown' \in [Ids -> Labels]
  <2>1. \A s \in Ids : (IF of(s) = {} THEN shown[s] ELSE changes[last(s)][2]) \in Labels
    BY <1>2, <1>3, <1>9
  <2>2. QED
    BY <1>1, <2>1
<1>12. \A s \in emitted : shown'[s] = r.label[s]
  BY <1>1, <1>2, <1>9, <1>10
<1>13. QED
  BY <1>1, <1>4, <1>6, <1>7, <1>11, <1>12 DEF Published, q

(* What is left to show for a step that sends the revisions.                 *)
LEMMA PublishedKeeps ==
    ASSUME StreamingInv, Published, StageInv', Cropped',
           phase' \in StagePhases \union {"fuse", "emit", "final", "done"},
           phase' \notin {"final", "done"} => replaced = {}
    PROVE  StreamingInv' /\ LegalStep
<1>1. SessionInv
  BY DEF StreamingInv
<1>2. /\ Speakers(roster') = Speakers(roster) /\ Active(roster') = Active(roster)
  BY DEF Published, Speakers, Active
<1>3. Rolling(roster') /\ Queued(roster') /\ Bounded(roster')
  BY <1>1, <1>2 DEF Published, SessionInv, Rolling, Queued, Bounded
<1>4. SessionInv'
  BY <1>1, <1>2, <1>3 DEF SessionInv, Published, NoMerge
<1>5. LabelsPublished' /\ LegalStep
  BY DEF Published, LabelsPublished, LegalStep
<1>6. QED
  BY <1>4, <1>5 DEF StreamingInv

-----------------------------------------------------------------------------
(* Each step keeps the invariant and takes legal transitions *)

(* The shared stages of a rolling window.                                    *)
LEMMA RollingStageKeeps ==
    ASSUME StreamingInv, Stage
    PROVE  StreamingInv' /\ LegalStep
<1>1. StageStep(Prototypes(roster)) /\ emitted' = emitted /\ replaced' = replaced /\ shown' = shown
  BY DEF Stage, StageStep, Client
<1>2. StageInv /\ Cropped /\ SessionInv /\ LabelsPublished
  BY DEF StreamingInv
<1>3. phase \in StagePhases /\ phase' \in StagePhases /\ Cropped'
  BY <1>1, <1>2, StagePhasesKept
<1>4. replaced = {} /\ NoMerge(roster) /\ Prototypes(roster) \subseteq WithPrototype(roster)
  BY <1>2, <1>3 DEF SessionInv, StagePhases, Prototypes
<1>5. StageInv' /\ Grown(roster, roster')
  BY <1>1, <1>2, <1>4, StageKeeps
<1>6. /\ roster.count \in Nat /\ roster'.count \in Nat /\ MaxSessionSpeakers \in Nat
      /\ roster.sink \in Speakers(roster) \union {None}
      /\ Speakers(roster) \subseteq Ids /\ Speakers(roster') \subseteq Ids /\ None \notin Ids
  BY <1>2, <1>5, RosterFields DEF StageInv, Sound
<1>7. Speakers(roster) \subseteq Speakers(roster')
  BY <1>5, <1>6 DEF Grown, Speakers
<1>8. NoMerge(roster') /\ Bounded(roster')
  <2>1. NoMerge(roster')
    BY <1>4, <1>5 DEF Grown, NoMerge
  <2>2. QED
    BY <1>2, <1>5, <1>6, <2>1 DEF SessionInv, Grown, Bounded
<1>9. Rolling(roster')
  <2> SUFFICES ASSUME NEW s \in Active(roster')
               PROVE  /\ roster'.state[s] \in {"PROVISIONAL", "SESSION_ANONYMOUS", "UNKNOWN"}
                      /\ roster'.state[s] = "UNKNOWN" <=> s = roster'.sink
    BY DEF Rolling
  <2>1. CASE s \in Speakers(roster)
    <3>1. s \in Active(roster)
      BY <1>4, <2>1 DEF Active, NoMerge
    <3>2. QED
      BY <1>2, <1>5, <2>1, <3>1 DEF SessionInv, Rolling, Grown
  <2>2. CASE s \notin Speakers(roster)
    <3>1. s \in Speakers(roster') /\ s # roster.sink
      BY <1>6, <2>2 DEF Active
    <3>2. QED
      BY <1>5, <2>2, <3>1 DEF Grown
  <2>3. QED
    BY <2>1, <2>2
<1>10. Queued(roster')
  BY <1>2, <1>5, <1>7 DEF SessionInv, Queued, Grown
<1>11. SessionInv'
  BY <1>1, <1>2, <1>3, <1>4, <1>7, <1>8, <1>9, <1>10 DEF SessionInv
<1>12. LabelsPublished'
  BY <1>1, <1>2, <1>5 DEF SessionInv, LabelsPublished, Grown
<1>13. LegalStep
  BY <1>5 DEF LegalStep, Grown
<1>14. QED
  BY <1>3, <1>5, <1>11, <1>12, <1>13 DEF StreamingInv

(* The steps that leave the roster and the client's labels alone: a window   *)
(* that fails or starts fusion, a second pass that fails, the end.           *)
LEMMA QuietKeeps ==
    ASSUME StreamingInv,
           \/ \E c \in Clusters : RosterFull(c)
           \/ StartFuse \/ FinalPassFailed
    PROVE  StreamingInv' /\ LegalStep
<1>1. roster' = roster /\ emitted' = emitted /\ replaced' = replaced /\ shown' = shown
  BY DEF RosterFull, StartFuse, FinalPassFailed, Client
<1>2. StageInv /\ Cropped /\ SessionInv /\ LabelsPublished /\ Sound(roster) /\ Later(roster, roster)
  BY GrownItself DEF StreamingInv, StageInv
<1>3. StageInv'
  <2>1. CASE StartFuse
    BY <1>1, <1>2, <2>1, StageKeptSameRoster DEF StartFuse, StageInv
  <2>2. CASE NewWindow
    BY <1>1, <1>2, <2>2, NewWindowKept
  <2>3. QED
    BY <2>1, <2>2 DEF RosterFull, FinalPassFailed
<1>4. Cropped' /\ phase' \in StagePhases \union {"fuse"} /\ replaced = {}
  BY <1>2 DEF RosterFull, Refused, StartFuse, FinalPassFailed, NewWindow, Cropped, SessionInv,
              StagePhases
<1>5. SessionInv'
  BY <1>1, <1>2, <1>4 DEF SessionInv
<1>6. LabelsPublished' /\ LegalStep
  BY <1>1, <1>2 DEF LabelsPublished, LegalStep
<1>7. QED
  BY <1>3, <1>4, <1>5, <1>6 DEF StreamingInv

(* A window or a pass ends and sends its label revisions.                    *)
LEMMA DrainKeeps ==
    ASSUME StreamingInv, NothingClosed \/ WindowDone \/ StartFinalPass \/ FinalPassDone
    PROVE  StreamingInv' /\ LegalStep
<1>1. DrainLabelRevisions
  BY DEF NothingClosed, WindowDone, StartFinalPass, FinalPassDone
<1>2. StageInv /\ Cropped /\ SessionInv /\ Published
  BY <1>1, DrainPublishes DEF StreamingInv
<1>3. Sound(roster') /\ Later(roster, roster')
  BY <1>2 DEF Published
<1>4. CASE NothingClosed \/ WindowDone
  <2>1. NewWindow /\ phase \in {"links", "protos", "fuse", "emit"}
    BY <1>4 DEF NothingClosed, WindowDone
  <2>2. StageInv'
    BY <1>2, <1>3, <2>1, NewWindowKept
  <2>3. Cropped' /\ phase' \in StagePhases /\ replaced = {}
    BY <1>2, <2>1 DEF NewWindow, Cropped, SessionInv, StagePhases
  <2>4. QED
    BY <1>2, <2>2, <2>3, PublishedKeeps
<1>5. CASE StartFinalPass \/ FinalPassDone
  <2>1. Still /\ phase \in {"links", "protos", "fuse", "emit", "final"} /\ phase' \in {"final", "done"}
    BY <1>5 DEF StartFinalPass, FinalPassDone, Still
  <2>2. StageInv'
    BY <1>2, <1>3, <2>1, StillKept
  <2>3. Cropped'
    BY <1>2, <2>1 DEF Still, Cropped
  <2>4. QED
    BY <1>2, <2>1, <2>2, <2>3, PublishedKeeps
<1>6. QED
  BY <1>4, <1>5

(* A provisional event tells the client the label of its speaker.            *)
LEMMA EmitKeeps ==
    ASSUME StreamingInv, NEW s \in Ids, EmitProvisional(s)
    PROVE  StreamingInv' /\ LegalStep
<1>1. /\ roster' = roster /\ replaced' = replaced /\ emitted' = emitted \union {s}
      /\ shown' = [shown EXCEPT ![s] = roster.label[s]]
      /\ phase \in {"fuse", "emit"} /\ phase' = "emit" /\ s \in heard /\ heard' = heard \ {s}
      /\ window' = window /\ tracks' = tracks /\ links' = links /\ crop' = crop
      /\ region' = region /\ together' = together
  BY DEF EmitProvisional
<1>2. /\ StageInv /\ Cropped /\ SessionInv /\ LabelsPublished /\ s \in Speakers(roster)
      /\ roster.label \in [Ids -> Labels]
  BY <1>1, RosterFields DEF StreamingInv, StageInv, Sound
<1>3. StageInv'
  BY <1>1, <1>2, StageKeptSameRoster DEF StageInv
<1>4. Cropped' /\ replaced = {}
  BY <1>1, <1>2 DEF Cropped, SessionInv
<1>5. SessionInv'
  BY <1>1, <1>2, <1>4 DEF SessionInv
<1>6. LabelsPublished'
  <2>1. shown \in [Ids -> Labels] /\ Speakers(roster) \subseteq Ids /\ emitted \subseteq Speakers(roster)
    BY <1>2, RosterFields DEF SessionInv, StageInv, Sound
  <2>2. \A t \in emitted' : t = s \/ (t \in emitted /\ t # s /\ shown'[t] = shown[t])
    BY <1>1, <2>1
  <2>3. QED
    BY <1>1, <1>2, <2>1, <2>2 DEF LabelsPublished
<1>7. QED
  BY <1>1, <1>3, <1>4, <1>5, <1>6 DEF StreamingInv, LegalStep

(* Fusion gives a word nobody claims to a provisional speaker or the sink.   *)
LEMMA FallbackKeeps ==
    ASSUME StreamingInv, FuseUnattributedWord
    PROVE  StreamingInv' /\ LegalStep
<1> DEFINE some == ProvisionalSpeakers(roster) # {}
           id == IF some THEN First(ProvisionalSpeakers(roster)) ELSE FallbackSpeaker.sink
<1>1. /\ phase = "fuse" /\ phase' = "fuse" /\ roster' = FallbackSpeaker
      /\ heard' = heard \union {id}
      /\ emitted' = emitted /\ replaced' = replaced /\ shown' = shown
      /\ window' = window /\ tracks' = tracks /\ links' = links /\ crop' = crop
      /\ region' = region /\ together' = together
  BY DEF FuseUnattributedWord, Client
<1>2. /\ StageInv /\ Cropped /\ SessionInv /\ LabelsPublished /\ Sound(roster) /\ Bounded(roster)
      /\ replaced = {} /\ NoMerge(roster)
  BY <1>1 DEF StreamingInv, StageInv, SessionInv
<1>3. /\ Speakers(roster) \subseteq Ids /\ Ids \subseteq Nat /\ None \notin Ids
      /\ roster.count \in Nat /\ roster.state \in [Ids -> IdentityState]
      /\ roster.label \in [Ids -> Labels]
      /\ Active(roster) = Speakers(roster)
  BY <1>2, RosterFields DEF Sound, Active, NoMerge
<1>4. CASE roster' = roster
  <2>1. id \in Speakers(roster)
    <3>1. CASE some
      <4>1. ProvisionalSpeakers(roster) \subseteq Speakers(roster)
        BY DEF ProvisionalSpeakers, Active
      <4>2. First(ProvisionalSpeakers(roster)) \in ProvisionalSpeakers(roster)
        BY <1>3, <3>1, <4>1, FirstIsLeast
      <4>3. QED
        BY <3>1, <4>1, <4>2
    <3>2. CASE ~some
      <4>1. roster' = UnattributedSpeaker(roster) /\ id = roster'.sink
        BY <1>1, <3>2 DEF FallbackSpeaker
      <4>2. SinkAdded(roster, roster')
        BY <1>2, <4>1, UnattributedSpeakerSound
      <4>3. QED
        BY <1>4, <4>1, <4>2 DEF SinkAdded, Sound
    <3>3. QED
      BY <3>1, <3>2
  <2> HIDE DEF id
  <2>2. StageInv'
    BY <1>1, <1>2, <1>4, <2>1, StageKeptSameRoster DEF StageInv
  <2>3. SessionInv' /\ Cropped'
    BY <1>1, <1>2, <1>4 DEF SessionInv, Cropped
  <2>4. LabelsPublished' /\ LegalStep
    BY <1>1, <1>2, <1>4 DEF LabelsPublished, LegalStep
  <2>5. QED
    BY <2>2, <2>3, <2>4 DEF StreamingInv
<1>5. CASE roster' # roster
  <2>1. ~some /\ roster' = UnattributedSpeaker(roster)
    BY <1>1, <1>5 DEF FallbackSpeaker
  <2>2. SinkAdded(roster, roster') /\ id = roster'.sink
    BY <1>1, <1>2, <2>1, UnattributedSpeakerSound
  <2> DEFINE n == roster'.count
  <2>3. /\ roster.sink = None /\ n = roster.count + 1 /\ roster'.sink = n
        /\ Sound(roster') /\ Later(roster, roster') /\ Bounded(roster')
        /\ roster'.merged = roster.merged /\ roster'.merged[n] = None
        /\ roster'.pending = roster.pending
        /\ roster'.state = [roster.state EXCEPT ![n] = "UNKNOWN"]
        /\ roster'.label = [roster.label EXCEPT ![n] = UnattributedLabel]
    BY <1>5, <2>2 DEF SinkAdded
  <2>4. Speakers(roster') \subseteq Ids
    BY <2>3, RosterFields DEF Sound
  <2>5. Speakers(roster') = Speakers(roster) \union {n} /\ n \notin Speakers(roster) /\ n \in Ids
    BY <1>3, <2>3, <2>4 DEF Speakers
  <2> HIDE DEF n, id
  <2>6. /\ \A s \in Speakers(roster) : /\ roster'.state[s] = roster.state[s]
                                       /\ roster'.label[s] = roster.label[s]
        /\ roster'.state[n] = "UNKNOWN"
    BY <1>3, <2>3, <2>5
  <2>7. StageInv'
    <3>1. /\ window' \subseteq window /\ tracks' \in Nat
          /\ links' \subseteq Speakers(roster') /\ crop' \subseteq Speakers(roster')
          /\ region' \subseteq Speakers(roster') /\ heard' \subseteq Speakers(roster')
          /\ together' \subseteq Speakers(roster') \X Speakers(roster')
          /\ \A p \in together' \ together : Apart(roster', p[1], p[2])
      BY <1>1, <1>2, <2>2, <2>3, <2>5 DEF StageInv
    <3>2. QED
      BY <1>2, <2>3, <3>1, StageKept
  <2>8. Rolling(roster')
    <3>1. \A s \in Active(roster') : s \in Active(roster) \/ s = n
      BY <1>3, <2>5 DEF Active
    <3>2. \A s \in Active(roster) : s \in Speakers(roster) /\ s # None /\ s # n
      BY <1>3, <2>5
    <3>3. QED
      BY <1>2, <2>3, <2>6, <3>1, <3>2 DEF SessionInv, Rolling
  <2>9. Queued(roster') /\ NoMerge(roster')
    BY <1>2, <2>3, <2>5, <2>6 DEF SessionInv, Queued, NoMerge
  <2>10. SessionInv' /\ Cropped'
    BY <1>1, <1>2, <2>3, <2>5, <2>8, <2>9 DEF SessionInv, Cropped
  <2>11. LabelsPublished' /\ LegalStep
    <3>1. LegalStep
      BY <2>6 DEF LegalStep
    <3>2. \A s \in emitted : roster'.label[s] = roster.label[s]
      BY <1>2, <2>6 DEF SessionInv
    <3>3. LabelsPublished'
      <4>1. \A s \in emitted :
                \/ shown[s] = roster'.label[s]
                \/ \E i \in DOMAIN roster.pending : roster.pending[i] = <<s, roster'.label[s]>>
        <5>1. LabelsPublished
          BY <1>2
        <5>2. QED
          BY <3>2, <5>1, Zenon DEF LabelsPublished
      <4>2. emitted' = emitted /\ shown' = shown /\ roster'.pending = roster.pending
        BY <1>1, <2>3
      <4>3. QED
        BY <4>1, <4>2, Zenon DEF LabelsPublished
    <3>4. QED
      BY <3>1, <3>3
  <2>12. QED
    BY <2>7, <2>10, <2>11 DEF StreamingInv
<1>6. QED
  BY <1>4, <1>5

(* A provisional speaker is settled: it gets its last label, which is queued,*)
(* and is no longer provisional, or no longer active.                        *)
Settled(r, q, a, state, label) ==
    /\ Sound(q) /\ Later(r, q) /\ q.count = r.count /\ q.sink = r.sink
    /\ a \in Active(r) /\ r.state[a] = "PROVISIONAL"
    /\ state \in {"MERGED", "SESSION_ANONYMOUS"}
    /\ q.state = [r.state EXCEPT ![a] = state]
    /\ q.label = [r.label EXCEPT ![a] = label]
    /\ q.pending = Append(r.pending, <<a, label>>)
    /\ Active(q) \subseteq Active(r)
    /\ state = "MERGED" => a \notin Active(q)

(* A revision that is queued for good: the label will not change again.      *)
LEMMA SettledKeeps ==
    ASSUME StreamingInv, NEW a, NEW state, NEW label, Settled(roster, roster', a, state, label),
           phase' = phase, phase = "final", replaced' \subseteq emitted, replaced' # {},
           Still, emitted' = emitted, shown' = shown
    PROVE  StreamingInv' /\ LegalStep
<1> USE DEF Settled
<1>1. StageInv /\ Cropped /\ SessionInv /\ LabelsPublished /\ Sound(roster)
  BY DEF StreamingInv, StageInv
<1>2. /\ Speakers(roster') = Speakers(roster) /\ Speakers(roster) \subseteq Ids
      /\ Active(roster) \subseteq Speakers(roster) /\ a \in Ids
      /\ roster.state \in [Ids -> IdentityState] /\ roster.label \in [Ids -> Labels]
      /\ roster.pending \in Seq(Ids \X Labels)
  BY <1>1, RosterFields DEF Sound, Speakers, Active
<1>3. StageInv' /\ Cropped'
  <2>1. StageInv'
    BY <1>1, StillKept
  <2>2. QED
    BY <1>1, <2>1 DEF Still, Cropped
<1>4. /\ \A t \in Speakers(roster) : t # a => /\ roster'.state[t] = roster.state[t]
                                              /\ roster'.label[t] = roster.label[t]
      /\ roster'.state[a] = state /\ roster'.label[a] = label
  BY <1>2
<1>5. Rolling(roster')
  <2> SUFFICES ASSUME NEW t \in Active(roster')
               PROVE  /\ roster'.state[t] \in {"PROVISIONAL", "SESSION_ANONYMOUS", "UNKNOWN"}
                      /\ roster'.state[t] = "UNKNOWN" <=> t = roster'.sink
    BY DEF Rolling
  <2>1. t \in Active(roster) /\ t \in Speakers(roster)
    BY <1>2
  <2>2. CASE t = a
    BY <1>1, <1>4, <2>1, <2>2 DEF SessionInv, Rolling
  <2>3. CASE t # a
    BY <1>1, <1>4, <2>1, <2>3 DEF SessionInv, Rolling
  <2>4. QED
    BY <2>2, <2>3
<1> DEFINE n == Len(roster.pending)
           old == roster.pending
           new == roster'.pending
<1>6. /\ n \in Nat /\ DOMAIN old = 1 .. n /\ DOMAIN new = 1 .. (n + 1)
      /\ \A i \in 1 .. n : new[i] = old[i]
      /\ new[n + 1] = <<a, label>>
  <2>1. old \in Seq(Ids \X Labels) /\ new = Append(old, <<a, label>>)
    BY <1>2
  <2> HIDE DEF old, new
  <2>2. Len(old) \in Nat /\ DOMAIN old = 1 .. Len(old)
    BY <2>1
  <2>3. /\ DOMAIN new = 1 .. (Len(old) + 1) /\ \A i \in 1 .. Len(old) : new[i] = old[i]
        /\ new[Len(old) + 1] = <<a, label>>
    BY <2>1, <2>2
  <2>4. QED
    BY <2>2, <2>3 DEF old
<1> HIDE DEF n, old, new
<1>7. Queued(roster')
  <2> SUFFICES ASSUME NEW i \in DOMAIN new
               PROVE  /\ new[i][1] \in Speakers(roster')
                      /\ new[i][2] = roster'.label[new[i][1]]
                      /\ roster'.state[new[i][1]] # "PROVISIONAL"
    BY DEF Queued, new
  <2>1. CASE i \in 1 .. n
    <3>1. /\ new[i] = old[i] /\ old[i][1] \in Speakers(roster)
          /\ old[i][2] = roster.label[old[i][1]] /\ roster.state[old[i][1]] # "PROVISIONAL"
      BY <1>1, <1>6, <2>1 DEF SessionInv, Queued, old
    <3>2. old[i][1] # a
      BY <3>1
    <3>3. QED
      BY <1>2, <1>4, <3>1, <3>2
  <2>2. CASE i = n + 1
    <3>1. new[i][1] = a /\ new[i][2] = label
      BY <1>6, <2>2
    <3>2. QED
      BY <1>2, <1>4, <3>1
  <2>3. QED
    BY <1>6, <2>1, <2>2
<1>8. SessionInv'
  BY <1>1, <1>2, <1>5, <1>7 DEF SessionInv, Bounded
<1>9. LabelsPublished'
  <2> SUFFICES ASSUME NEW t \in emitted
               PROVE  \/ shown[t] = roster'.label[t]
                      \/ \E i \in DOMAIN new : new[i] = <<t, roster'.label[t]>>
    BY DEF LabelsPublished, new
  <2>1. CASE t = a
    BY <1>4, <1>6, <2>1
  <2>2. CASE t # a
    <3>1. roster'.label[t] = roster.label[t]
      BY <1>1, <1>4, <2>2 DEF SessionInv
    <3>2. \/ shown[t] = roster.label[t]
          \/ \E i \in DOMAIN old : old[i] = <<t, roster.label[t]>>
      BY <1>1 DEF LabelsPublished, old
    <3>3. \A i \in DOMAIN old : i \in DOMAIN new /\ new[i] = old[i]
      BY <1>6
    <3>4. QED
      BY <3>1, <3>2, <3>3
  <2>3. QED
    BY <2>1, <2>2
<1>10. LegalStep
  <2>1. \/ state = "MERGED"
        \/ state \in AllowedTransitions["PROVISIONAL"]
    BY Edges
  <2>2. QED
    BY <1>4, <2>1 DEF LegalStep
<1>11. QED
  BY <1>3, <1>8, <1>9, <1>10 DEF StreamingInv

(* A final segment settles the speaker of the event it supersedes.           *)
LEMMA FinalSegmentKeeps ==
    ASSUME StreamingInv, NEW prior, NEW label \in FinalLabels, FinalSegment(prior, label)
    PROVE  StreamingInv' /\ LegalStep
<1> DEFINE s == Canonical(roster, prior)
           targets == Bearers(s, label)
           b == First(targets)
<1>1. /\ phase = "final" /\ phase' = phase /\ prior \in emitted /\ roster' = Settle(prior, label)
      /\ replaced' = replaced \union {prior} /\ emitted' = emitted /\ shown' = shown /\ Still
  BY DEF FinalSegment, Still
<1>2. StageInv /\ Cropped /\ SessionInv /\ LabelsPublished /\ Sound(roster) /\ Rolling(roster)
  BY DEF StreamingInv, StageInv, SessionInv
<1>3. /\ prior \in Speakers(roster) /\ prior \in Ids /\ Speakers(roster) \subseteq Ids
      /\ Ids \subseteq Nat /\ replaced' \subseteq emitted /\ replaced' # {}
  BY <1>1, <1>2, RosterFields DEF SessionInv, Sound
<1>4. Get(roster, prior) = s /\ s \in Active(roster)
  BY <1>2, <1>3, GetIsCanonical
<1>5. CASE roster' = roster
  <2>1. StageInv'
    BY <1>1, <1>2, <1>5, StillKept, GrownItself
  <2>2. SessionInv' /\ Cropped'
    BY <1>1, <1>2, <1>3, <1>5 DEF SessionInv, Cropped, Still
  <2>3. LabelsPublished' /\ LegalStep
    BY <1>1, <1>2, <1>5 DEF LabelsPublished, LegalStep
  <2>4. QED
    BY <2>1, <2>2, <2>3 DEF StreamingInv
<1>6. CASE roster' # roster
  <2>1. /\ roster.state[s] = "PROVISIONAL" /\ label[1] = "Speaker"
        /\ roster' = IF targets # {} /\ CanMerge(roster, s, b) THEN Merge(roster, s, b)
                     ELSE PromoteProvisionalAs(roster, prior, label)
    BY <1>1, <1>4, <1>6 DEF Settle
  <2>2. label \in Labels /\ label # UnattributedLabel
    <3>1. label \in Labels
      <4>1. \A k \in 1 .. MaxSessionSpeakers : k \in Nat
        BY BoundAssumption
      <4>2. QED
        BY <4>1, LabelKinds DEF FinalLabels
    <3>2. UnattributedLabel[1] = "Unknown"
      BY DEF UnattributedLabel
    <3>3. QED
      BY <2>1, <3>1, <3>2
  <2>3. s # roster.sink
    BY <1>2, <1>4, <2>1 DEF Rolling
  <2>4. s \in Speakers(roster) /\ s \in Ids /\ roster.merged[s] = None
    BY <1>3, <1>4 DEF Active
  <2>5. Canonical(roster, s) = s
    BY <2>4 DEF Canonical
  <2>6. CASE targets # {} /\ CanMerge(roster, s, b)
    <3>1. b \in targets
      <4>1. targets \subseteq Nat
        BY <1>3 DEF Bearers, Active
      <4>2. QED
        BY <2>6, <4>1, FirstIsLeast
    <3>2. /\ b \in Active(roster) /\ b # s /\ roster.state[b] # "PROVISIONAL"
          /\ roster.label[b] = label
      BY <3>1 DEF Bearers
    <3>3. roster' = Merge(roster, s, b)
      BY <2>1, <2>6
    <3> HIDE DEF b, s, targets
    <3>4. b \in Speakers(roster) /\ Canonical(roster, b) = b
      BY <3>2 DEF Active, Canonical
    <3>5. b # roster.sink /\ roster.state[b] # "UNKNOWN"
      <4>1. b # roster.sink
        BY <1>2, <2>2, <3>2, <3>4 DEF Sound, Sunk
      <4>2. QED
        BY <1>2, <3>2, <4>1 DEF Rolling
    <3>6. MergedAway(roster, roster', s, b)
      BY <1>2, <2>1, <2>3, <2>4, <2>5, <3>2, <3>3, <3>4, <3>5, MergeLater
    <3>7. Settled(roster, roster', s, "MERGED", label)
      BY <1>4, <2>1, <3>2, <3>6 DEF MergedAway, Settled
    <3>8. QED
      BY <1>1, <1>3, <3>7, SettledKeeps
  <2>7. CASE ~ (targets # {} /\ CanMerge(roster, s, b))
    <3>1. roster' = PromoteProvisionalAs(roster, prior, label) /\ s = Canonical(roster, prior)
      BY <2>1, <2>7
    <3> HIDE DEF b, s, targets
    <3>2. Promoted(roster, roster', s, label)
      BY <1>2, <1>3, <2>1, <2>2, <2>3, <3>1, PromoteResolved
    <3>3. Resolved(roster, roster', s)
      BY <3>2 DEF Promoted
    <3>4. Sound(roster') /\ Later(roster, roster') /\ Active(roster') = Active(roster)
      BY <1>2, <3>3, ResolvedLater
    <3>5. Settled(roster, roster', s, "SESSION_ANONYMOUS", label)
      BY <1>4, <2>1, <3>2, <3>3, <3>4 DEF Promoted, Resolved, Settled
    <3>6. QED
      BY <1>1, <1>3, <3>5, SettledKeeps
  <2>8. QED
    BY <2>6, <2>7
<1>7. QED
  BY <1>5, <1>6

-----------------------------------------------------------------------------
(* Theorems *)

(* A step keeps the invariant, and moves identities along legal edges only.  *)
LEMMA StreamingStepKeeps ==
    ASSUME StreamingInv, [Next]_vars
    PROVE  StreamingInv' /\ (LegalStep \/ UNCHANGED roster)
<1>1. CASE UNCHANGED vars
  <2>1. /\ roster' = roster /\ phase' = phase /\ window' = window /\ tracks' = tracks
        /\ links' = links /\ crop' = crop /\ region' = region /\ heard' = heard
        /\ together' = together /\ emitted' = emitted /\ replaced' = replaced /\ shown' = shown
    BY <1>1 DEF vars, stageVars
  <2>2. StageInv' /\ Cropped'
    BY <2>1 DEF StreamingInv, StageInv, Cropped
  <2>3. SessionInv'
    BY <2>1 DEF StreamingInv, SessionInv
  <2>4. LabelsPublished'
    BY <2>1 DEF StreamingInv, LabelsPublished
  <2>5. QED
    BY <2>1, <2>2, <2>3, <2>4 DEF StreamingInv
<1>2. CASE Stage
  BY <1>2, RollingStageKeeps
<1>3. CASE \/ \E c \in Clusters : RosterFull(c)
           \/ StartFuse \/ FinalPassFailed
  BY <1>3, QuietKeeps
<1>4. CASE NothingClosed \/ WindowDone \/ StartFinalPass \/ FinalPassDone
  BY <1>4, DrainKeeps
<1>5. CASE \E s \in Ids : EmitProvisional(s)
  BY <1>5, EmitKeeps
<1>6. CASE FuseUnattributedWord
  BY <1>6, FallbackKeeps
<1>7. CASE \E s \in Ids, label \in FinalLabels : FinalSegment(s, label)
  BY <1>7, FinalSegmentKeeps
<1>8. QED
  BY <1>1, <1>2, <1>3, <1>4, <1>5, <1>6, <1>7 DEF Next, Terminated

(* So it always holds.                                                       *)
LEMMA StreamingInvariant == Spec => []StreamingInv
<1>1. Init => StreamingInv
  BY StreamingStarts
<1>2. StreamingInv /\ [Next]_vars => StreamingInv'
  BY StreamingStepKeeps
<1>3. QED
  BY <1>1, <1>2, PTL DEF Spec

(* Through every rolling window and the final pass, a speaker_key that       *)
(* link_sources answers with leads through get() to the active speaker whose *)
(* prototype carries it, even where a merge handed the prototype over.       *)
THEOREM KeysLeadHome == Spec => []KeysResolve
<1>1. StreamingInv => KeysResolve
  BY KeysKept DEF StreamingInv
<1>2. QED
  BY <1>1, StreamingInvariant, PTL

(* A diarization cluster keeps its speaker for the whole session: by_cluster *)
(* never has to choose between two, and never finds a merged one.            *)
THEOREM ClustersKeepSpeaker == Spec => []ClusterStable
<1>1. StreamingInv => ClusterStable
  BY ClustersKept DEF StreamingInv
<1>2. QED
  BY <1>1, StreamingInvariant, PTL

(* _drain_label_revisions loses nothing: the client's label of every speaker *)
(* it was told of is the roster's, up to the revisions still queued.         *)
THEOREM ClientKnowsLabels == Spec => []LabelsPublished
<1>1. StreamingInv => LabelsPublished
  BY DEF StreamingInv
<1>2. QED
  BY <1>1, StreamingInvariant, PTL

(* A session's roster keeps merges one hop deep, its bound and its           *)
(* cannot-links, across windows, failed pushes and retried final passes.     *)
THEOREM StreamingRosterSound == Spec => []RosterSound
<1>1. StreamingInv => RosterSound
  BY RosterKept DEF StreamingInv, SessionInv
<1>2. QED
  BY <1>1, StreamingInvariant, PTL

(* The state machine of the identities never refuses a transition of a       *)
(* session.                                                                  *)
THEOREM SessionTransitionsLegal == Spec => LegalTransitions
<1>1. StreamingInv /\ [Next]_vars => [LegalStep]_roster
  BY StreamingStepKeeps
<1>2. QED
  BY <1>1, StreamingInvariant, PTL DEF Spec, LegalTransitions, LegalStep
=============================================================================
