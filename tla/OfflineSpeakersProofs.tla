------------------------ MODULE OfflineSpeakersProofs ------------------------
(***************************************************************************)
(* One offline run, for every number of clusters, enrolled people and       *)
(* sources and every max_session_speakers: the roster stays sound, segments *)
(* always validate, every identity is resolved at the end, and the state    *)
(* machine of the identities never refuses a transition.                    *)
(*                                                                         *)
(* On top of what the stages keep (StageInv, module SpeakerStagesProofs),   *)
(* the invariant says what each loop may rely on when it comes to the next  *)
(* speaker of the list it took at its start.                                *)
(***************************************************************************)
EXTENDS OfflineSpeakers, SpeakerStagesProofs

(* Before reconciliation, or given up.                                       *)
Early == phase \in StagePhases \union {"failed"}

(* Voice ID has not decided about this speaker.                              *)
Unresolved(r, s) ==
    r.registry[s] = None /\ r.state[s] \in {"PROVISIONAL", "SESSION_ANONYMOUS"}

(* The lists of the loops and the progress they made.                        *)
RunInv ==
    /\ phase \in StagePhases \union {"reconcile", "voiceid", "finalize", "fuse", "done", "failed"}
    /\ todo \subseteq Active(roster)
    /\ Early => NoMerge(roster) /\ todo = {}
    /\ phase \notin {"fuse", "done"} => roster.sink = None
    /\ Bounded(roster)
    /\ Early \/ phase = "reconcile" => \A s \in Active(roster) : Unresolved(roster, s)
    /\ phase = "reconcile" => todo \subseteq ProvisionalSpeakers(roster)
    /\ phase = "voiceid" => \A s \in todo : Unresolved(roster, s)
    /\ phase = "finalize" =>
          \A s \in Active(roster) \ todo : IsCalibrated => roster.state[s] # "PROVISIONAL"

OfflineInv == StageInv /\ Cropped /\ RunInv /\ SegmentsValid /\ ResolvedAtEnd

-----------------------------------------------------------------------------
(* Lemmas *)

(* Where nobody is resolved every segment validates.                         *)
LEMMA UnresolvedValid ==
    ASSUME NEW r, \A s \in Active(r) : Unresolved(r, s)
    PROVE  \A s \in Active(r) : (r.registry[s] # None) <=> (r.state[s] = "ENROLLED")
BY DEF Unresolved

(* A loop whose list is not empty has a next speaker, an active one.         *)
LEMMA NextInList ==
    ASSUME StageInv, RunInv, todo # {}
    PROVE  First(todo) \in todo /\ First(todo) \in Active(roster) /\ First(todo) \in Speakers(roster)
<1>1. todo \subseteq Active(roster) /\ Active(roster) \subseteq Speakers(roster)
  BY DEF RunInv, Active
<1>2. todo \subseteq Nat
  BY <1>1, RosterFields DEF StageInv, Sound
<1>3. QED
  BY <1>1, <1>2, FirstIsLeast

(* A loop touches the roster only.                                           *)
LEMMA Framed ==
    ASSUME StageInv, Sound(roster'), Later(roster, roster'), Frame
    PROVE  StageInv'
<1>1. Speakers(roster) \subseteq Speakers(roster')
  BY DEF Later
<1>2. /\ window' \subseteq window /\ tracks' \in Nat
      /\ links' \subseteq Speakers(roster') /\ crop' \subseteq Speakers(roster')
      /\ region' \subseteq Speakers(roster') /\ heard' \subseteq Speakers(roster')
      /\ together' \subseteq Speakers(roster') \X Speakers(roster')
      /\ \A p \in together' \ together : Apart(roster', p[1], p[2])
  BY <1>1 DEF Frame, StageInv
<1>3. QED
  BY <1>2, StageKept

(* The run starts with nobody.                                               *)
LEMMA OfflineStarts ==
    ASSUME Init
    PROVE  OfflineInv
<1>1. StageInv /\ NoMerge(roster) /\ Bounded(roster) /\ Active(roster) = {}
  BY StageStarts DEF Init
<1>2. phase = "clusters" /\ todo = {} /\ roster.sink = None
  BY DEF Init, StageInit, EmptyRoster
<1>3. RunInv
  BY <1>1, <1>2 DEF RunInv, Early, StagePhases
<1>4. Cropped
  BY DEF Init, StageInit, Cropped
<1>5. QED
  BY <1>1, <1>2, <1>3, <1>4 DEF OfflineInv, SegmentsValid, ResolvedAtEnd

-----------------------------------------------------------------------------
(* Each step keeps the invariant and takes legal transitions *)

(* The shared stages.                                                        *)
LEMMA StageStepKeeps ==
    ASSUME OfflineInv, Stage
    PROVE  OfflineInv' /\ LegalStep
<1>1. StageStep(LinkingPrototypes(roster)) /\ todo' = todo
  BY DEF Stage, StageStep
<1>2. phase \in StagePhases /\ phase' \in StagePhases /\ Cropped'
  BY <1>1, StagePhasesKept DEF OfflineInv, RunInv
<1>3. StageInv /\ NoMerge(roster) /\ LinkingPrototypes(roster) \subseteq WithPrototype(roster)
  BY <1>2 DEF OfflineInv, RunInv, Early, LinkingPrototypes
<1>4. StageInv' /\ Grown(roster, roster')
  BY <1>1, <1>3, StageKeeps
<1>5. NoMerge(roster')
  BY <1>3, <1>4 DEF Grown, NoMerge
<1>6. /\ roster.sink = None /\ Bounded(roster) /\ todo = {}
      /\ \A s \in Active(roster) : Unresolved(roster, s)
  BY <1>2 DEF OfflineInv, RunInv, Early, StagePhases
<1>7. \A s \in Active(roster') : Unresolved(roster', s)
  <2> SUFFICES ASSUME NEW s \in Active(roster') PROVE Unresolved(roster', s)
    OBVIOUS
  <2>1. CASE s \in Speakers(roster)
    <3>1. s \in Active(roster)
      BY <1>3, <2>1 DEF Active, NoMerge
    <3>2. QED
      BY <1>4, <1>6, <2>1, <3>1 DEF Grown, Unresolved
  <2>2. CASE s \notin Speakers(roster)
    BY <1>4, <2>2 DEF Grown, Unresolved, Active
  <2>3. QED
    BY <2>1, <2>2
<1>8. Bounded(roster') /\ roster'.sink = None
  <2>1. roster.count \in Nat /\ roster'.count \in Nat /\ MaxSessionSpeakers \in Nat
    BY <1>3, <1>4, RosterFields DEF StageInv, Sound
  <2>2. QED
    BY <1>4, <1>6, <2>1 DEF Grown, Bounded
<1>9. RunInv'
  BY <1>1, <1>2, <1>5, <1>6, <1>7, <1>8 DEF RunInv, Early, StagePhases
<1>10. SegmentsValid' /\ ResolvedAtEnd'
  BY <1>2, <1>7, UnresolvedValid DEF SegmentsValid, ResolvedAtEnd, StagePhases
<1>11. LegalStep
  BY <1>4 DEF LegalStep, Grown
<1>12. QED
  BY <1>2, <1>4, <1>9, <1>10, <1>11 DEF OfflineInv

(* The roster is full, the run fails.                                        *)
LEMMA RosterFullKeeps ==
    ASSUME OfflineInv, NEW c, RosterFull(c)
    PROVE  OfflineInv' /\ LegalStep
<1>1. phase = "clusters" /\ phase' = "failed" /\ roster' = roster /\ todo' = todo /\ Frame
  BY DEF RosterFull, Refused
<1>2. StageInv'
  BY <1>1, Framed, GrownItself DEF OfflineInv, StageInv
<1>3. RunInv'
  BY <1>1 DEF OfflineInv, RunInv, Early, StagePhases
<1>4. SegmentsValid' /\ ResolvedAtEnd'
  BY <1>1 DEF OfflineInv, SegmentsValid, ResolvedAtEnd
<1>5. Cropped'
  BY <1>1 DEF OfflineInv, Cropped, Frame
<1>6. QED
  BY <1>1, <1>2, <1>3, <1>4, <1>5 DEF OfflineInv, LegalStep

(* The loops start, and end.                                                 *)
LEMMA PhasesKeep ==
    ASSUME OfflineInv,
           \/ StartReconcile \/ StartVoiceId \/ StartFinalize \/ StartFuse
           \/ FuseDone \/ ReconcileUnlinked \/ VoiceIdUnknown
    PROVE  OfflineInv' /\ LegalStep
<1>1. roster' = roster
  BY DEF StartReconcile, StartVoiceId, StartFinalize, StartFuse, FuseDone, ReconcileUnlinked,
         VoiceIdUnknown, VoiceId
<1>2. Sound(roster) /\ Later(roster, roster) /\ StageInv /\ RunInv /\ SegmentsValid
  BY GrownItself DEF OfflineInv, StageInv
<1>3. StageInv'
  <2>1. CASE StartReconcile
    BY <1>1, <1>2, <2>1, StageKeptSameRoster DEF StartReconcile, StageInv
  <2>2. CASE ~StartReconcile
    <3>1. Frame
      BY <2>2 DEF StartVoiceId, StartFinalize, StartFuse, FuseDone, ReconcileUnlinked,
                  VoiceIdUnknown, VoiceId
    <3>2. QED
      BY <1>1, <1>2, <3>1, Framed
  <2>3. QED
    BY <2>1, <2>2
<1>4. WithPrototype(roster) \subseteq Active(roster) /\ ProvisionalSpeakers(roster) \subseteq Active(roster)
  BY DEF WithPrototype, ProvisionalSpeakers
<1>5. \A s \in Active(roster) : roster.state[s] = "UNKNOWN" => roster.proto[s] = None
  BY <1>2 DEF Sound, Keyed, Active
<1>6. RunInv' /\ ResolvedAtEnd'
  <2>1. CASE StartReconcile
    BY <1>1, <1>2, <1>4, <2>1 DEF StartReconcile, RunInv, Early, StagePhases, ResolvedAtEnd
  <2>2. CASE ReconcileUnlinked
    BY <1>1, <1>2, <2>2 DEF ReconcileUnlinked, RunInv, Early, StagePhases, ResolvedAtEnd
  <2>3. CASE StartVoiceId
    BY <1>1, <1>2, <1>4, <2>3 DEF StartVoiceId, RunInv, Early, StagePhases, ResolvedAtEnd
  <2>4. CASE VoiceIdUnknown
    BY <1>1, <1>2, <2>4 DEF VoiceIdUnknown, VoiceId, RunInv, Early, StagePhases, ResolvedAtEnd
  <2>5. CASE StartFinalize
    BY <1>1, <1>2, <2>5 DEF StartFinalize, RunInv, Early, StagePhases, ResolvedAtEnd
  <2>6. CASE StartFuse
    BY <1>1, <1>2, <1>5, <2>6 DEF StartFuse, RunInv, Early, StagePhases, ResolvedAtEnd,
                                  ProvisionalSpeakers
  <2>7. CASE FuseDone
    BY <1>1, <1>2, <2>7 DEF FuseDone, OfflineInv, RunInv, Early, StagePhases, ResolvedAtEnd
  <2>8. QED
    BY <2>1, <2>2, <2>3, <2>4, <2>5, <2>6, <2>7
<1>7. SegmentsValid'
  BY <1>1, <1>2 DEF SegmentsValid
<1>8. Cropped'
  BY DEF StartReconcile, StartVoiceId, StartFinalize, StartFuse, FuseDone, ReconcileUnlinked,
         VoiceIdUnknown, VoiceId, OfflineInv, Cropped, Frame
<1>9. QED
  BY <1>1, <1>3, <1>6, <1>7, <1>8 DEF OfflineInv, LegalStep

(* Reconciliation merges a provisional speaker into a session speaker, or    *)
(* leaves it.                                                                *)
LEMMA ReconcileLinkedKeeps ==
    ASSUME OfflineInv, NEW key, ReconcileLinked(key)
    PROVE  OfflineInv' /\ LegalStep
<1> DEFINE s == First(todo)
           b == Canonical(roster, key)
<1>1. /\ phase = "reconcile" /\ phase' = "reconcile" /\ todo # {} /\ todo' = todo \ {s} /\ Frame
      /\ key \in Keys(roster, Prototypes(roster))
      /\ roster' = IF CanMerge(roster, s, key) THEN Merge(roster, s, key) ELSE roster
  BY DEF ReconcileLinked
<1>2. StageInv /\ RunInv /\ Sound(roster) /\ Later(roster, roster)
  BY GrownItself DEF OfflineInv, StageInv
<1>3. /\ s \in todo /\ s \in Speakers(roster) /\ s \in Active(roster)
      /\ roster.state[s] = "PROVISIONAL" /\ roster.merged[s] = None /\ s # roster.sink
  <2>1. s \in todo /\ s \in Active(roster) /\ s \in Speakers(roster)
    BY <1>1, <1>2, NextInList
  <2>2. roster.sink = None /\ todo \subseteq ProvisionalSpeakers(roster)
    BY <1>1, <1>2 DEF RunInv
  <2>3. s # None
    BY <1>2, <2>1, RosterFields DEF Sound
  <2>4. QED
    BY <2>1, <2>2, <2>3 DEF ProvisionalSpeakers, Active
<1>4. /\ key \in Speakers(roster) /\ b \in Active(roster)
      /\ roster.state[b] \notin {"PROVISIONAL", "UNKNOWN"} /\ b # roster.sink
  <2>1. PICK t \in Prototypes(roster) : key = roster.proto[t]
    BY <1>1 DEF Keys
  <2>2. /\ t \in Speakers(roster) /\ t \in Active(roster) /\ roster.merged[t] = None
        /\ roster.proto[t] # None /\ roster.state[t] # "PROVISIONAL"
    BY DEF Prototypes, WithPrototype, ProvisionalSpeakers, Active
  <2>3. Keyed(roster, t)
    BY <1>2, <2>2 DEF Sound
  <2>4. key \in Speakers(roster) /\ b = t /\ roster.state[t] # "UNKNOWN"
    BY <2>1, <2>2, <2>3 DEF Keyed
  <2>5. roster.sink = None /\ t # None
    BY <1>1, <1>2, <2>2, RosterFields DEF RunInv, Sound
  <2>6. QED
    BY <2>2, <2>4, <2>5
<1>5. Cropped'
  BY <1>1 DEF OfflineInv, Cropped, Frame
<1>6. CASE roster' = roster
  <2>1. StageInv'
    BY <1>1, <1>2, <1>6, Framed
  <2>2. RunInv'
    BY <1>1, <1>2, <1>6 DEF RunInv, Early, StagePhases
  <2>3. SegmentsValid' /\ ResolvedAtEnd'
    BY <1>1, <1>6 DEF OfflineInv, SegmentsValid, ResolvedAtEnd
  <2>4. QED
    BY <1>6, <1>5, <2>1, <2>2, <2>3 DEF OfflineInv, LegalStep
<1>7. CASE roster' # roster
  <2>1. s \in Ids /\ key \in Ids
    BY <1>2, <1>3, <1>4, RosterFields DEF Sound
  <2>2. s = Canonical(roster, s) /\ Get(roster, s) = s /\ Get(roster, key) = b
    BY <1>2, <1>3, <2>1, GetIsCanonical DEF Canonical
  <2>3. s # b /\ roster' = Merge(roster, s, key)
    BY <1>1, <1>7, <2>2 DEF CanMerge
  <2> HIDE DEF s, b
  <2>4. /\ Sound(roster') /\ Later(roster, roster') /\ roster'.count = roster.count
        /\ roster'.sink = roster.sink /\ roster'.registry = roster.registry
        /\ roster'.state = [roster.state EXCEPT ![s] = "MERGED"]
        /\ Active(roster') = Active(roster) \ {s}
    <3>1. b = Canonical(roster, key)
      BY DEF b
    <3>2. MergedAway(roster, roster', s, b)
      BY <1>2, <1>3, <1>4, <2>2, <2>3, <3>1, MergeLater
    <3>3. QED
      BY <3>2 DEF MergedAway
  <2>5. StageInv'
    BY <1>1, <1>2, <2>4, Framed
  <2>6. /\ Speakers(roster) \subseteq Ids /\ roster.state \in [Ids -> IdentityState]
        /\ Active(roster) \subseteq Speakers(roster)
    BY <1>2, RosterFields DEF Sound, Active
  <2>7. \A t \in Speakers(roster) : t # s => roster'.state[t] = roster.state[t]
    BY <2>4, <2>6
  <2>8. \A t \in Active(roster') : Unresolved(roster', t)
    <3>1. \A t \in Active(roster) : Unresolved(roster, t)
      BY <1>1, <1>2 DEF RunInv
    <3>2. QED
      BY <2>4, <2>6, <2>7, <3>1 DEF Unresolved
  <2>9. todo' \subseteq ProvisionalSpeakers(roster') /\ todo' \subseteq Active(roster')
    <3>1. todo \subseteq ProvisionalSpeakers(roster)
      BY <1>1, <1>2 DEF RunInv
    <3>2. QED
      BY <1>1, <2>4, <2>6, <2>7, <3>1 DEF ProvisionalSpeakers, s
  <2>10. RunInv'
    BY <1>1, <1>2, <2>4, <2>8, <2>9 DEF RunInv, Early, StagePhases, Bounded
  <2>11. SegmentsValid' /\ ResolvedAtEnd'
    BY <1>1, <2>8, UnresolvedValid DEF SegmentsValid, ResolvedAtEnd
  <2>12. LegalStep
    BY <1>3, <2>4, <2>1, <2>6, <2>7 DEF LegalStep
  <2>13. QED
    BY <1>5, <2>5, <2>10, <2>11, <2>12 DEF OfflineInv
<1>8. QED
  BY <1>6, <1>7

(* Voice ID decides about the next speaker of its list, whom nobody decided  *)
(* about before.                                                             *)
LEMMA VoiceIdKeeps ==
    ASSUME OfflineInv, VoiceIdAmbiguous \/ \E person \in Registry : VoiceIdEnrolled(person)
    PROVE  OfflineInv' /\ LegalStep
<1> DEFINE s == First(todo)
<1>1. /\ phase = "voiceid" /\ phase' = "voiceid" /\ todo # {} /\ todo' = todo \ {s} /\ Frame
  BY DEF VoiceIdAmbiguous, VoiceIdEnrolled, VoiceId
<1>2. StageInv /\ RunInv /\ Sound(roster) /\ SegmentsValid
  BY DEF OfflineInv, StageInv
<1>3. /\ s \in todo /\ s \in Speakers(roster) /\ s \in Active(roster) /\ s # roster.sink
      /\ Unresolved(roster, s) /\ roster.sink = None /\ todo \subseteq Active(roster)
  <2>1. s \in todo /\ s \in Active(roster) /\ s \in Speakers(roster)
    BY <1>1, <1>2, NextInList
  <2>2. s # None
    BY <1>2, <2>1, RosterFields DEF Sound
  <2>3. QED
    BY <1>1, <1>2, <2>1, <2>2 DEF RunInv
<1>4. /\ Speakers(roster) \subseteq Ids /\ s \in Ids /\ roster.state \in [Ids -> IdentityState]
      /\ roster.registry \in [Ids -> Registry \union {None}]
      /\ Active(roster) \subseteq Speakers(roster)
  BY <1>2, <1>3, RosterFields DEF Sound, Active
<1>5. /\ Resolved(roster, roster', s)
      /\ \/ roster'.registry[s] = None /\ roster'.state[s] = roster.state[s]
         \/ roster'.registry[s] # None /\ roster'.state[s] = "ENROLLED"
  <2>1. CASE VoiceIdAmbiguous
    <3>1. roster' = ApplyAmbiguous(roster, s)
      BY <2>1 DEF VoiceIdAmbiguous, VoiceId
    <3> HIDE DEF s
    <3>2. /\ Resolved(roster, roster', s) /\ roster'.registry = roster.registry
          /\ roster'.state = [roster.state EXCEPT ![s] = IF @ = "ENROLLED" THEN "AMBIGUOUS" ELSE @]
      BY <1>2, <1>3, <3>1, AmbiguousResolved
    <3>3. QED
      BY <1>3, <1>4, <3>2 DEF Unresolved
  <2>2. ASSUME NEW person \in Registry, VoiceIdEnrolled(person)
        PROVE  /\ Resolved(roster, roster', s)
               /\ roster'.registry[s] # None /\ roster'.state[s] = "ENROLLED"
    <3>1. roster' = ApplyEnrolled(roster, s, person)
      BY <2>2 DEF VoiceIdEnrolled, VoiceId
    <3> HIDE DEF s
    <3>2. /\ Resolved(roster, roster', s)
          /\ roster'.registry = [roster.registry EXCEPT ![s] = person]
          /\ roster'.state = [roster.state EXCEPT ![s] =
                                IF @ \in {"PROVISIONAL", "SESSION_ANONYMOUS", "AMBIGUOUS"}
                                THEN "ENROLLED" ELSE @]
      BY <1>2, <1>3, <3>1, EnrolledResolved
    <3>3. person # None
      BY NamesAssumption DEF None
    <3>4. QED
      BY <1>3, <1>4, <3>2, <3>3 DEF Unresolved
  <2>3. QED
    BY <2>1, <2>2
<1> HIDE DEF s
<1>6. Sound(roster') /\ Later(roster, roster') /\ Active(roster') = Active(roster)
  BY <1>2, <1>5, ResolvedLater
<1>7. StageInv' /\ Cropped'
  <2>1. StageInv'
    BY <1>1, <1>2, <1>6, Framed
  <2>2. QED
    BY <1>1, <2>1 DEF OfflineInv, Cropped, Frame
<1>8. \A t \in Speakers(roster) : t # s =>
          roster'.state[t] = roster.state[t] /\ roster'.registry[t] = roster.registry[t]
  BY <1>4, <1>5 DEF Resolved
<1>9. RunInv'
  <2>1. \A t \in todo' : Unresolved(roster', t)
    <3>1. \A t \in todo' : t \in Speakers(roster) /\ t # s /\ Unresolved(roster, t)
      BY <1>1, <1>2, <1>3, <1>4 DEF RunInv
    <3>2. QED
      BY <1>8, <3>1 DEF Unresolved
  <2>2. Bounded(roster') /\ roster'.sink = None
    BY <1>2, <1>3, <1>5 DEF RunInv, Bounded, Resolved
  <2>3. todo' \subseteq Active(roster')
    BY <1>1, <1>3, <1>6
  <2>4. QED
    BY <1>1, <2>1, <2>2, <2>3 DEF RunInv, Early, StagePhases
<1>10. SegmentsValid' /\ ResolvedAtEnd'
  <2>1. ASSUME NEW t \in Active(roster')
        PROVE  (roster'.registry[t] # None) <=> (roster'.state[t] = "ENROLLED")
    <3>1. t \in Active(roster) /\ t \in Speakers(roster)
      BY <1>4, <1>6
    <3>2. CASE t = s
      BY <1>3, <1>5, <3>2 DEF Unresolved
    <3>3. CASE t # s
      BY <1>2, <1>8, <3>1, <3>3 DEF SegmentsValid
    <3>4. QED
      BY <3>2, <3>3
  <2>2. QED
    BY <1>1, <2>1 DEF SegmentsValid, ResolvedAtEnd
<1>11. LegalStep
  <2>1. roster'.state[s] = roster.state[s] \/ roster'.state[s] \in AllowedTransitions[roster.state[s]]
    BY <1>3, <1>5, Edges DEF Unresolved
  <2>2. QED
    BY <1>8, <2>1 DEF LegalStep
<1>12. QED
  BY <1>7, <1>9, <1>10, <1>11 DEF OfflineInv

(* finalize_unresolved() settles the next speaker of its list.               *)
LEMMA FinalizeKeeps ==
    ASSUME OfflineInv, Finalize
    PROVE  OfflineInv' /\ LegalStep
<1> DEFINE s == First(todo)
<1>1. /\ phase = "finalize" /\ phase' = "finalize" /\ todo # {} /\ todo' = todo \ {s} /\ Frame
      /\ roster' = FinalizeUnresolved(roster, s)
  BY DEF Finalize
<1>2. StageInv /\ RunInv /\ Sound(roster) /\ SegmentsValid
  BY DEF OfflineInv, StageInv
<1>3. /\ s \in todo /\ s \in Speakers(roster) /\ s \in Active(roster) /\ s # roster.sink
      /\ roster.sink = None /\ todo \subseteq Active(roster)
  <2>1. s \in todo /\ s \in Active(roster) /\ s \in Speakers(roster)
    BY <1>1, <1>2, NextInList
  <2>2. s # None
    BY <1>2, <2>1, RosterFields DEF Sound
  <2>3. QED
    BY <1>1, <1>2, <2>1, <2>2 DEF RunInv
<1>4. /\ Speakers(roster) \subseteq Ids /\ s \in Ids /\ roster.state \in [Ids -> IdentityState]
      /\ Active(roster) \subseteq Speakers(roster)
  BY <1>2, <1>3, RosterFields DEF Sound, Active
<1> HIDE DEF s
<1>5. /\ Resolved(roster, roster', s) /\ roster'.registry = roster.registry
      /\ roster'.state = [roster.state EXCEPT ![s] =
            IF roster.state[s] # "PROVISIONAL" THEN @
            ELSE IF roster.proto[s] = None THEN "UNKNOWN"
            ELSE IF IsCalibrated THEN "SESSION_ANONYMOUS" ELSE @]
  BY <1>1, <1>2, <1>3, FinalizeResolved
<1>6. /\ roster.state[s] # "PROVISIONAL" => roster'.state[s] = roster.state[s]
      /\ roster.state[s] = "PROVISIONAL" =>
            roster'.state[s] \in {"UNKNOWN", "SESSION_ANONYMOUS", "PROVISIONAL"}
      /\ IsCalibrated => roster'.state[s] # "PROVISIONAL"
  BY <1>4, <1>5
<1>7. Sound(roster') /\ Later(roster, roster') /\ Active(roster') = Active(roster)
  BY <1>2, <1>5, ResolvedLater
<1>8. StageInv' /\ Cropped'
  <2>1. StageInv'
    BY <1>1, <1>2, <1>7, Framed
  <2>2. QED
    BY <1>1, <2>1 DEF OfflineInv, Cropped, Frame
<1>9. \A t \in Speakers(roster) : t # s => roster'.state[t] = roster.state[t]
  BY <1>4, <1>5 DEF Resolved
<1>10. RunInv'
  <2>1. ASSUME NEW t \in Active(roster') \ todo', IsCalibrated
        PROVE  roster'.state[t] # "PROVISIONAL"
    <3>1. t \in Active(roster) /\ t \in Speakers(roster) /\ (t = s \/ t \notin todo)
      BY <1>1, <1>4, <1>7
    <3>2. CASE t = s
      BY <1>6, <2>1, <3>2
    <3>3. CASE t # s
      BY <1>1, <1>2, <1>9, <2>1, <3>1, <3>3 DEF RunInv
    <3>4. QED
      BY <3>2, <3>3
  <2>2. Bounded(roster') /\ roster'.sink = None
    BY <1>2, <1>3, <1>5 DEF RunInv, Bounded, Resolved
  <2>3. todo' \subseteq Active(roster')
    BY <1>1, <1>3, <1>7
  <2>4. QED
    BY <1>1, <2>1, <2>2, <2>3 DEF RunInv, Early, StagePhases
<1>11. SegmentsValid' /\ ResolvedAtEnd'
  <2>1. ASSUME NEW t \in Active(roster')
        PROVE  (roster'.registry[t] # None) <=> (roster'.state[t] = "ENROLLED")
    <3>1. t \in Active(roster) /\ t \in Speakers(roster)
      BY <1>4, <1>7
    <3>2. (roster.registry[t] # None) <=> (roster.state[t] = "ENROLLED")
      BY <1>2, <3>1 DEF SegmentsValid
    <3>3. (roster'.state[t] = "ENROLLED") <=> (roster.state[t] = "ENROLLED")
      <4>1. CASE t = s
        BY <1>6, <4>1
      <4>2. CASE t # s
        BY <1>9, <3>1, <4>2
      <4>3. QED
        BY <4>1, <4>2
    <3>4. QED
      BY <1>5, <3>2, <3>3
  <2>2. QED
    BY <1>1, <2>1 DEF SegmentsValid, ResolvedAtEnd
<1>12. LegalStep
  <2>1. roster'.state[s] = roster.state[s] \/ roster'.state[s] \in AllowedTransitions[roster.state[s]]
    BY <1>6, Edges
  <2>2. QED
    BY <1>9, <2>1 DEF LegalStep
<1>13. QED
  BY <1>8, <1>10, <1>11, <1>12 DEF OfflineInv

(* Fusion gives a word nobody claims to the sink.                            *)
LEMMA FuseKeeps ==
    ASSUME OfflineInv, FuseUnattributedWord
    PROVE  OfflineInv' /\ LegalStep
<1>1. /\ phase = "fuse" /\ phase' = "fuse" /\ todo' = todo /\ Frame
      /\ roster' = FallbackSpeaker
  BY DEF FuseUnattributedWord
<1>2. StageInv /\ RunInv /\ Sound(roster) /\ SegmentsValid /\ ResolvedAtEnd /\ Bounded(roster)
  BY DEF OfflineInv, StageInv, RunInv
<1>3. CASE roster' = roster
  <2>1. StageInv'
    BY <1>1, <1>2, <1>3, Framed, GrownItself
  <2>2. RunInv' /\ SegmentsValid' /\ ResolvedAtEnd' /\ Cropped'
    BY <1>1, <1>2, <1>3 DEF RunInv, Early, StagePhases, SegmentsValid, ResolvedAtEnd,
                            OfflineInv, Cropped, Frame
  <2>3. QED
    BY <1>3, <2>1, <2>2 DEF OfflineInv, LegalStep
<1>4. CASE roster' # roster
  <2>1. roster' = UnattributedSpeaker(roster)
    BY <1>1, <1>4 DEF FallbackSpeaker
  <2>2. /\ Sound(roster') /\ Later(roster, roster') /\ Bounded(roster') /\ roster'.sink # None
        /\ roster'.merged = roster.merged /\ roster'.registry = roster.registry
        /\ roster'.proto = roster.proto
        /\ roster.sink # None => roster' = roster
        /\ roster.sink = None =>
              /\ roster'.count = roster.count + 1
              /\ roster'.merged[roster'.count] = None /\ roster'.registry[roster'.count] = None
              /\ roster'.proto[roster'.count] = None
              /\ roster'.state = [roster.state EXCEPT ![roster'.count] = "UNKNOWN"]
    <3>1. SinkAdded(roster, roster')
      BY <1>2, <2>1, UnattributedSpeakerSound
    <3>2. QED
      BY <3>1 DEF SinkAdded
  <2> DEFINE n == roster'.count
  <2>3. /\ roster.count \in Nat /\ roster.state \in [Ids -> IdentityState]
        /\ Speakers(roster') \subseteq Ids
    BY <1>2, <2>2, RosterFields DEF Sound
  <2>4. n = roster.count + 1
    BY <1>4, <2>2
  <2>5. Speakers(roster') = Speakers(roster) \union {n} /\ n \notin Speakers(roster)
    BY <2>3, <2>4 DEF Speakers
  <2> HIDE DEF n
  <2>6. /\ \A t \in Speakers(roster) : roster'.state[t] = roster.state[t]
        /\ roster'.state[n] = "UNKNOWN"
    BY <1>4, <2>2, <2>3, <2>5 DEF n
  <2>7. Active(roster') = Active(roster) \union {n}
    BY <1>4, <2>2, <2>5 DEF Active, n
  <2>8. StageInv'
    BY <1>1, <1>2, <2>2, Framed
  <2>9. \A t \in Active(roster) : t \in Speakers(roster)
    BY DEF Active
  <2>10. RunInv'
    BY <1>1, <1>2, <2>2, <2>7 DEF RunInv, Early, StagePhases
  <2>11. SegmentsValid'
    BY <1>2, <1>4, <2>2, <2>6, <2>7, <2>9 DEF SegmentsValid, n
  <2>12. ResolvedAtEnd'
    <3>1. IsCalibrated => ProvisionalSpeakers(roster') = {}
      BY <1>1, <1>2, <2>6, <2>7, <2>9 DEF ResolvedAtEnd, ProvisionalSpeakers
    <3>2. \A t \in Active(roster') : roster'.state[t] = "UNKNOWN" => roster'.proto[t] = None
      BY <1>1, <1>2, <1>4, <2>2, <2>6, <2>7, <2>9 DEF ResolvedAtEnd, n
    <3>3. QED
      BY <3>1, <3>2 DEF ResolvedAtEnd
  <2>13. LegalStep /\ Cropped'
    BY <1>1, <2>6 DEF LegalStep, OfflineInv, Cropped, Frame
  <2>14. QED
    BY <2>8, <2>10, <2>11, <2>12, <2>13 DEF OfflineInv
<1>5. QED
  BY <1>3, <1>4

-----------------------------------------------------------------------------
(* Theorems *)

(* A step keeps the invariant, and moves identities along legal edges only.  *)
LEMMA OfflineStepKeeps ==
    ASSUME OfflineInv, [Next]_vars
    PROVE  OfflineInv' /\ (LegalStep \/ UNCHANGED roster)
<1>1. CASE UNCHANGED vars
  <2>1. /\ roster' = roster /\ phase' = phase /\ window' = window /\ tracks' = tracks
        /\ links' = links /\ crop' = crop /\ region' = region /\ heard' = heard
        /\ together' = together /\ todo' = todo
    BY <1>1 DEF vars, stageVars
  <2>2. StageInv'
    BY <2>1 DEF OfflineInv, StageInv
  <2>3. RunInv' /\ Cropped'
    BY <2>1 DEF OfflineInv, RunInv, Early, Cropped
  <2>4. SegmentsValid' /\ ResolvedAtEnd'
    BY <2>1 DEF OfflineInv, SegmentsValid, ResolvedAtEnd
  <2>5. QED
    BY <2>1, <2>2, <2>3, <2>4 DEF OfflineInv
<1>2. CASE Stage
  BY <1>2, StageStepKeeps
<1>3. CASE \E c \in Clusters : RosterFull(c)
  BY <1>3, RosterFullKeeps
<1>4. CASE \E key \in Ids : ReconcileLinked(key)
  BY <1>4, ReconcileLinkedKeeps
<1>5. CASE \/ StartReconcile \/ StartVoiceId \/ StartFinalize \/ StartFuse
           \/ FuseDone \/ ReconcileUnlinked \/ VoiceIdUnknown
  BY <1>5, PhasesKeep
<1>6. CASE VoiceIdAmbiguous \/ \E person \in Registry : VoiceIdEnrolled(person)
  BY <1>6, VoiceIdKeeps
<1>7. CASE Finalize
  BY <1>7, FinalizeKeeps
<1>8. CASE FuseUnattributedWord
  BY <1>8, FuseKeeps
<1>9. QED
  BY <1>1, <1>2, <1>3, <1>4, <1>5, <1>6, <1>7, <1>8 DEF Next, Terminated

(* So it always holds.                                                       *)
LEMMA OfflineInvariant == Spec => []OfflineInv
<1>1. Init => OfflineInv
  BY OfflineStarts
<1>2. OfflineInv /\ [Next]_vars => OfflineInv'
  BY OfflineStepKeeps
<1>3. QED
  BY <1>1, <1>2, PTL DEF Spec

(* Whatever order diarization clusters, temporary speakers, merges and       *)
(* unclaimed words come in, the session's roster keeps merges one hop deep,  *)
(* stays within max_session_speakers besides one Unknown sink, and loses no  *)
(* cannot-link between people who spoke at the same time.                    *)
THEOREM OfflineRosterSound == Spec => []RosterSound
<1>1. OfflineInv => RosterSound
  BY RosterKept DEF OfflineInv, RunInv
<1>2. QED
  BY <1>1, OfflineInvariant, PTL

(* TranscriptSegment._validate never refuses a segment of the run: an active *)
(* speaker has a registry ID exactly if it is ENROLLED.                      *)
THEOREM SegmentsAlwaysValid == Spec => []SegmentsValid
<1>1. OfflineInv => SegmentsValid
  BY DEF OfflineInv
<1>2. QED
  BY <1>1, OfflineInvariant, PTL

(* When fusion starts every identity is resolved as far as finalize_unresolved *)
(* can: nobody provisional if linking is calibrated, nobody UNKNOWN who has  *)
(* evidence.                                                                 *)
THEOREM EveryoneResolved == Spec => []ResolvedAtEnd
<1>1. OfflineInv => ResolvedAtEnd
  BY DEF OfflineInv
<1>2. QED
  BY <1>1, OfflineInvariant, PTL

(* The state machine of the identities never refuses a transition of a run.  *)
THEOREM TransitionsLegal == Spec => LegalTransitions
<1>1. OfflineInv /\ [Next]_vars => [LegalStep]_roster
  BY OfflineStepKeeps
<1>2. QED
  BY <1>1, OfflineInvariant, PTL DEF Spec, LegalTransitions, LegalStep
=============================================================================
