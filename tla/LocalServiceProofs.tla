-------------------------- MODULE LocalServiceProofs --------------------------
(***************************************************************************)
(* Proofs about the API process without a task queue, for every number of   *)
(* people, names, clips, probes, jobs and uploads, every similarity and     *)
(* threshold and every bound on what is retained: the two voice registries  *)
(* decide alike and report comparably, nobody is recognised under an old    *)
(* name, consent is never lost, a job runs once and the retained audio is   *)
(* accounted for.                                                           *)
(***************************************************************************)
EXTENDS LocalService, FiniteSetTheorems, SequenceTheorems, TLAPS

(* What links the registries with each other and with the API.  A clip that  *)
(* is posted again is one more prototype in memory and no new template: what *)
(* agrees is which clips an identity has, not how often.                     *)
SamePerson(i) ==
    /\ metadata[i] # None /\ memory[i] # None /\ rows[i] # None
    /\ memory[i].name = metadata[i].name /\ rows[i].name = metadata[i].name
    /\ memory[i].consent = metadata[i].consent /\ rows[i].consent = metadata[i].consent
    /\ \A c \in Clips : memory[i].prototypes[c] > 0 <=> <<i, c>> \in templates

NoPerson(i) ==
    /\ memory[i] = None /\ rows[i] = None
    /\ \A c \in Clips : <<i, c>> \notin templates

RegistryInv ==
    /\ RegistryTypeOK
    /\ \A i \in Identities : SamePerson(i) \/ NoPerson(i)
    /\ \A t \in templates : t[2].model = Model

(* Nobody is known at the start.                                             *)
LEMMA RegistryStarts == RegistryInit => RegistryInv
  BY DEF RegistryInit, RegistryInv, RegistryTypeOK, NoPerson

(* A new identity has no entry yet.                                          *)
LEMMA CreateIdentityKeeps ==
    ASSUME RegistryInv, NEW i \in Identities, NEW n \in Names,
           NEW c \in Consents \union {None}, CreateVoiceIdentity(i, n, c)
    PROVE  RegistryInv'
<1>1. /\ metadata[i] = None
      /\ metadata' = [metadata EXCEPT ![i] = [name |-> n, consent |-> c]]
      /\ memory' = memory /\ rows' = rows /\ templates' = templates
  BY DEF CreateVoiceIdentity
<1>2. RegistryTypeOK'
  BY <1>1 DEF RegistryInv, RegistryTypeOK, Metadata
<1>3. \A j \in Identities : (SamePerson(j) \/ NoPerson(j))'
  <2> TAKE j \in Identities
  <2>1. CASE NoPerson(j)
    BY <1>1, <2>1 DEF NoPerson
  <2>2. CASE SamePerson(j)
    <3>1. j # i /\ metadata'[j] = metadata[j]
      BY <1>1, <2>2 DEF SamePerson, RegistryInv, RegistryTypeOK
    <3>2. QED
      BY <1>1, <2>2, <3>1 DEF SamePerson
  <2>3. QED
    BY <2>1, <2>2 DEF RegistryInv
<1>4. QED
  BY <1>1, <1>2, <1>3 DEF RegistryInv

(* An enrollment writes the name and the consent of the request everywhere,  *)
(* and gives both registries the clip or neither.                            *)
LEMMA EnrollKeeps ==
    ASSUME RegistryInv, NEW i \in Identities, NEW given \in Consents \union {None},
           NEW clip \in Extracted, EnrollVoiceIdentity(i, given, clip)
    PROVE  RegistryInv'
<1> DEFINE consent == Or(given, metadata[i].consent)
           name == metadata[i].name
           old == IF memory[i] # None THEN memory[i]
                  ELSE [name |-> Or(name, i), consent |-> None,
                        prototypes |-> [c \in Clips |-> 0]]
           entry == [name |-> Or(name, old.name),
                     consent |-> Or(consent, old.consent),
                     prototypes |-> [old.prototypes EXCEPT
                                        ![clip] = IF Accepted(clip) THEN @ + 1 ELSE @]]
           row == [name |-> Or(name, i), consent |-> Or(consent, "unspecified")]
<1>1. /\ metadata[i] # None /\ consent # None
      /\ memory' = [memory EXCEPT ![i] = entry]
      /\ rows' = [rows EXCEPT ![i] = row]
      /\ templates' = templates \union (IF Accepted(clip) THEN {<<i, clip>>} ELSE {})
      /\ metadata' = [metadata EXCEPT ![i].consent = consent]
  BY DEF EnrollVoiceIdentity, MemoryEnroll, DatabaseEnroll
<1>2. clip \in Clips
  BY DEF Extracted
<1>3. name \in Names /\ consent \in Consents /\ metadata[i] \in Metadata
  BY <1>1 DEF RegistryInv, RegistryTypeOK, Metadata, Or
<1>4. name # None
  BY <1>3, NoneAssumption
<1>5. old.prototypes \in [Clips -> Nat]
  BY DEF RegistryInv, RegistryTypeOK, Entry
<1>6. /\ entry.name = name /\ entry.consent = consent
      /\ row = [name |-> name, consent |-> consent]
  BY <1>1, <1>4 DEF Or
<1>7. /\ entry.prototypes \in [Clips -> Nat]
      /\ \A c \in Clips : c # clip \/ ~ Accepted(clip)
                             => entry.prototypes[c] = old.prototypes[c]
      /\ Accepted(clip) => entry.prototypes[clip] > 0
  BY <1>2, <1>5
<1>8. entry \in Entry /\ row \in Row
  BY <1>3, <1>6, <1>7 DEF Entry, Row
<1>9. Accepted(clip) => clip.model = Model
  BY DEF Accepted, ClipReasons
<1>10. \A c \in Clips : old.prototypes[c] > 0 <=> <<i, c>> \in templates
  <2>1. CASE memory[i] # None
    BY <2>1 DEF RegistryInv, SamePerson, NoPerson
  <2>2. CASE memory[i] = None
    BY <2>2 DEF RegistryInv, SamePerson, NoPerson
  <2>3. QED
    BY <2>1, <2>2
<1> HIDE DEF consent, name, old, entry, row
<1>11. RegistryTypeOK'
  <2>1. metadata' \in [Identities -> Metadata \union {None}]
    BY <1>1, <1>3 DEF RegistryInv, RegistryTypeOK, Metadata
  <2>2. templates' \subseteq Identities \X Clips
    BY <1>1, <1>2 DEF RegistryInv, RegistryTypeOK
  <2>3. QED
    BY <1>1, <1>8, <2>1, <2>2 DEF RegistryInv, RegistryTypeOK
<1>12. /\ metadata'[i].name = name /\ metadata'[i].consent = consent
       /\ metadata'[i] # None
  BY <1>1, <1>3, NoneAssumption DEF RegistryInv, RegistryTypeOK, Metadata, name
<1>13. \A c \in Clips : entry.prototypes[c] > 0 <=> <<i, c>> \in templates'
  BY <1>1, <1>2, <1>7, <1>10
<1>14. SamePerson(i)'
  <2>1. memory'[i] = entry /\ rows'[i] = row
    BY <1>1 DEF RegistryInv, RegistryTypeOK
  <2>2. entry # None /\ row # None
    BY <1>8, NoneAssumption
  <2>3. QED
    BY <1>6, <1>12, <1>13, <2>1, <2>2 DEF SamePerson
<1>15. ASSUME NEW j \in Identities, j # i PROVE (SamePerson(j) \/ NoPerson(j))'
  <2>1. metadata'[j] = metadata[j] /\ memory'[j] = memory[j] /\ rows'[j] = rows[j]
    BY <1>1, <1>15 DEF RegistryInv, RegistryTypeOK
  <2>2. \A c \in Clips : <<j, c>> \in templates' <=> <<j, c>> \in templates
    BY <1>1, <1>15
  <2>3. SamePerson(j) => SamePerson(j)'
    BY <2>1, <2>2 DEF SamePerson
  <2>4. NoPerson(j) => NoPerson(j)'
    BY <2>1, <2>2 DEF NoPerson
  <2>5. QED
    BY <2>3, <2>4 DEF RegistryInv
<1>16. \A t \in templates' : t[2].model = Model
  BY <1>1, <1>9 DEF RegistryInv
<1>17. QED
  BY <1>11, <1>14, <1>15, <1>16 DEF RegistryInv

(* A deletion takes the person from both registries, the templates too.      *)
LEMMA DeleteIdentityKeeps ==
    ASSUME RegistryInv, NEW i \in Identities, DeleteVoiceIdentity(i)
    PROVE  RegistryInv'
<1>1. /\ metadata' = [metadata EXCEPT ![i] = None]
      /\ memory' = [memory EXCEPT ![i] = None]
      /\ rows' = [rows EXCEPT ![i] = None]
      /\ templates' = {t \in templates : t[1] # i}
  BY DEF DeleteVoiceIdentity, MemoryDelete, DatabaseDelete
<1>2. RegistryTypeOK'
  BY <1>1 DEF RegistryInv, RegistryTypeOK
<1>3. NoPerson(i)'
  BY <1>1 DEF RegistryInv, RegistryTypeOK, NoPerson
<1>4. ASSUME NEW j \in Identities, j # i PROVE (SamePerson(j) \/ NoPerson(j))'
  <2>1. metadata'[j] = metadata[j] /\ memory'[j] = memory[j] /\ rows'[j] = rows[j]
    BY <1>1, <1>4 DEF RegistryInv, RegistryTypeOK
  <2>2. \A c \in Clips : <<j, c>> \in templates' <=> <<j, c>> \in templates
    BY <1>1, <1>4
  <2>3. SamePerson(j) => SamePerson(j)'
    BY <2>1, <2>2 DEF SamePerson
  <2>4. NoPerson(j) => NoPerson(j)'
    BY <2>1, <2>2 DEF NoPerson
  <2>5. QED
    BY <2>3, <2>4 DEF RegistryInv
<1>5. QED
  BY <1>1, <1>2, <1>3, <1>4 DEF RegistryInv

(* Every step of the service keeps the registries together.                  *)
LEMMA RegistryKeeps == RegistryInv /\ [Next]_vars => RegistryInv'
<1> SUFFICES ASSUME RegistryInv, [Next]_vars PROVE RegistryInv'
  OBVIOUS
<1>1. CASE RegistryNext
  BY <1>1, CreateIdentityKeeps, EnrollKeeps, DeleteIdentityKeeps DEF RegistryNext
<1>2. CASE UNCHANGED registryVars
  BY <1>2 DEF registryVars, RegistryInv, RegistryTypeOK, SamePerson, NoPerson
<1>3. QED
  BY <1>1, <1>2 DEF Next, vars, CreateJob, GetJobAudioPreview, DeleteJob

-----------------------------------------------------------------------------
(* Decisions *)

(* The names are looked up for whoever has a score, and for nobody else.     *)
LEMMA VerdictNames ==
    ASSUME NEW scores, NEW a, NEW b, \A i \in DOMAIN scores : a[i] = b[i]
    PROVE  Verdict(scores, a) = Verdict(scores, b)
<1> DEFINE best == Max({scores[i] : i \in DOMAIN scores})
           Close(i) == \E j \in DOMAIN scores \ {i} : best - scores[j] < AmbiguousMargin
           Of(i, name) == IF best < AcceptThreshold THEN Nobody("unknown")
                          ELSE IF Close(i) THEN Nobody("ambiguous")
                          ELSE Decision("enrolled", i, name[i])
           first == {i \in DOMAIN scores : scores[i] = best}
<1>1. Verdict(scores, a) = {Of(i, a) : i \in first}
  BY DEF Verdict
<1>2. Verdict(scores, b) = {Of(i, b) : i \in first}
  BY DEF Verdict
<1>3. \A i \in first : Of(i, a) = Of(i, b)
  OBVIOUS
<1> HIDE DEF Of, first
<1>4. {Of(i, a) : i \in first} = {Of(i, b) : i \in first}
  BY <1>3
<1>5. QED
  BY <1>1, <1>2, <1>4

(* Both registries have the same clips of the same people.                   *)
LEMMA SameMaterial ==
    ASSUME RegistryInv, NEW i \in Identities
    PROVE  /\ memory[i] # None <=> rows[i] # None
           /\ memory[i] # None => /\ MemoryPrototypes(i) = TemplatesOf(i)
                                  /\ memory[i].name = rows[i].name
<1>1. CASE NoPerson(i)
  BY <1>1 DEF NoPerson
<1>2. CASE SamePerson(i)
  <2>1. \A c \in Clips : <<i, c>> \in templates => c.model = Model
    BY DEF RegistryInv
  <2>2. QED
    BY <1>2, <2>1 DEF SamePerson, MemoryPrototypes, TemplatesOf
<1>3. QED
  BY <1>1, <1>2 DEF RegistryInv

(* So they come to the same decision.                                        *)
LEMMA SameAnswers == RegistryInv => SameDecisions
<1> SUFFICES ASSUME RegistryInv, NEW p \in Probes
             PROVE  MemoryIdentify(p) = DatabaseIdentify(p)
  BY DEF SameDecisions
<1> DEFINE entries == {i \in Identities : memory[i] # None}
           known == {i \in entries : MemoryPrototypes(i) # {}}
           joined == {i \in Identities : rows[i] # None /\ TemplatesOf(i) # {}}
           ours == [i \in known |-> Best(MemoryPrototypes(i), p)]
           theirs == [i \in joined |-> Best(TemplatesOf(i), p)]
           mine == [i \in entries |-> memory[i].name]
           yours == [i \in joined |-> rows[i].name]
<1>1. MemoryIdentify(p) = Identify(ours, mine, p)
  BY DEF MemoryIdentify
<1>2. DatabaseIdentify(p) = Identify(theirs, yours, p)
  BY DEF DatabaseIdentify
<1>3. known = joined
  BY SameMaterial
<1>4. \A i \in known : MemoryPrototypes(i) = TemplatesOf(i) /\ memory[i].name = rows[i].name
  BY SameMaterial
<1>5. ours = theirs
  BY <1>3, <1>4
<1>6. \A i \in DOMAIN ours : mine[i] = yours[i]
  BY <1>3, <1>4
<1> HIDE DEF ours, theirs, mine, yours
<1>7. Verdict(ours, mine) = Verdict(ours, yours)
  BY <1>6, VerdictNames
<1>8. QED
  BY <1>1, <1>2, <1>5, <1>7 DEF Identify

(* Whoever is recognised has a score, and carries the name that goes with    *)
(* it.                                                                       *)
LEMMA EnrolledHasScore ==
    ASSUME NEW scores, NEW name, NEW p, NEW d \in Identify(scores, name, p),
           d.status = "enrolled"
    PROVE  d.who \in DOMAIN scores /\ d.name = name[d.who]
<1>1. d \in Verdict(scores, name)
  BY DEF Identify, Nobody, Decision
<1> DEFINE best == Max({scores[i] : i \in DOMAIN scores})
           Close(i) == \E j \in DOMAIN scores \ {i} : best - scores[j] < AmbiguousMargin
           Of(i) == IF best < AcceptThreshold THEN Nobody("unknown")
                    ELSE IF Close(i) THEN Nobody("ambiguous")
                    ELSE Decision("enrolled", i, name[i])
<1>2. Verdict(scores, name) = {Of(i) : i \in {i \in DOMAIN scores : scores[i] = best}}
  BY DEF Verdict
<1> HIDE DEF best, Close
<1>3. PICK i \in DOMAIN scores : d = Of(i)
  BY <1>1, <1>2
<1>4. d = Decision("enrolled", i, name[i])
  BY <1>3 DEF Nobody, Decision
<1>5. QED
  BY <1>4 DEF Decision

(* Finitely many things, each a finite number of times, are finitely many.   *)
LEMMA CopiesFinite ==
    ASSUME NEW S, IsFiniteSet(S), NEW n \in [S -> Nat]
    PROVE  IsFiniteSet(UNION {{x} \X (1 .. n[x]) : x \in S})
<1> DEFINE copies == [x \in S |-> {x} \X (1 .. n[x])]
           all == {copies[x] : x \in S}
<1>1. \A x \in S : IsFiniteSet(copies[x])
  <2> TAKE x \in S
  <2>1. IsFiniteSet({x})
    BY FS_Singleton
  <2>2. IsFiniteSet(1 .. n[x])
    <3>1. 1 \in Int /\ n[x] \in Int
      OBVIOUS
    <3>2. QED
      BY <3>1, FS_Interval
  <2>3. IsFiniteSet({x} \X (1 .. n[x]))
    BY <2>1, <2>2, FS_Product
  <2>4. QED
    BY <2>3
<1>2. IsFiniteSet(all)
  <2>1. copies \in Surjection(S, all)
    BY DEF Surjection
  <2>2. QED
    BY <2>1, FS_Surjection DEF ExistsSurjection
<1>3. \A T \in all : IsFiniteSet(T)
  BY <1>1
<1>4. UNION all = UNION {{x} \X (1 .. n[x]) : x \in S}
  OBVIOUS
<1> HIDE DEF all
<1>5. QED
  BY <1>2, <1>3, <1>4, FS_UNION

(* The prototypes of an entry, and the speech in them, can be counted.       *)
LEMMA PrototypesFinite ==
    ASSUME NEW entry \in Entry
    PROVE  /\ PrototypesOf(entry) \subseteq Clips \X Nat
           /\ IsFiniteSet(PrototypesOf(entry))
           /\ IsFiniteSet(AcceptedSpeech(PrototypesOf(entry)))
<1> DEFINE own == PrototypesOf(entry)
           length == [p \in own |-> p[1].speech]
<1>1. entry.prototypes \in [Clips -> Nat]
  BY DEF Entry
<1>2. own \subseteq Clips \X Nat
  BY <1>1 DEF PrototypesOf
<1>3. IsFiniteSet(own)
  BY <1>1, CopiesFinite, EmbeddingAssumption DEF PrototypesOf
<1>4. \A c \in Clips : c.speech \in Nat
  BY EmbeddingAssumption DEF Embedding
<1> HIDE DEF own
<1>5. length \in [own -> Nat]
  BY <1>2, <1>4
<1>6. AcceptedSpeech(own) = UNION {{p} \X (1 .. length[p]) : p \in own}
  BY DEF AcceptedSpeech
<1> HIDE DEF length
<1>7. IsFiniteSet(AcceptedSpeech(own))
  BY <1>3, <1>5, <1>6, CopiesFinite
<1>8. QED
  BY <1>2, <1>3, <1>7 DEF own

(* A recognised person is in both registries, and has a prototype there.     *)
LEMMA Recognised == RegistryInv => NamesCurrent
<1> SUFFICES ASSUME RegistryInv, NEW p \in Probes, NEW d \in MemoryIdentify(p),
                    d.status = "enrolled"
             PROVE  /\ metadata[d.who] # None
                    /\ VoiceIdentityView(d.who).display_name = d.name
                    /\ VoiceIdentityView(d.who).prototype_count > 0
                    /\ VoiceIdentityView(d.who).consent_ref_present
  BY SameAnswers DEF NamesCurrent, SameDecisions
<1> DEFINE entries == {i \in Identities : memory[i] # None}
           known == {i \in entries : MemoryPrototypes(i) # {}}
           scores == [i \in known |-> Best(MemoryPrototypes(i), p)]
           name == [i \in entries |-> memory[i].name]
<1>1. MemoryIdentify(p) = Identify(scores, name, p)
  BY DEF MemoryIdentify
<1>2. DOMAIN scores = known /\ \A i \in known : name[i] = memory[i].name
  OBVIOUS
<1> HIDE DEF scores, name
<1>3. d.who \in known /\ d.name = memory[d.who].name
  BY <1>1, <1>2, EnrolledHasScore
<1>4. SamePerson(d.who)
  BY <1>3 DEF RegistryInv, NoPerson
<1>5. memory[d.who] \in Entry
  BY <1>3 DEF RegistryInv, RegistryTypeOK
<1>6. memory[d.who].consent # None
  BY <1>5, NoneAssumption DEF Entry
<1>7. PrototypeCount(memory[d.who]) > 0
  <2> DEFINE own == PrototypesOf(memory[d.who])
  <2>1. PICK c \in Clips : memory[d.who].prototypes[c] > 0
    BY <1>3 DEF MemoryPrototypes
  <2>2. memory[d.who].prototypes[c] \in Nat
    BY <1>5 DEF Entry
  <2>3. <<c, 1>> \in own
    BY <2>1, <2>2 DEF PrototypesOf
  <2>4. IsFiniteSet(own)
    BY <1>5, PrototypesFinite
  <2> HIDE DEF own
  <2>5. Cardinality(own) \in Nat /\ Cardinality(own) # 0
    BY <2>3, <2>4, FS_CardinalityType, FS_EmptySet
  <2>6. QED
    BY <2>5 DEF own, PrototypeCount
<1>8. QED
  BY <1>3, <1>4, <1>6, <1>7 DEF SamePerson, VoiceIdentityView

(* A smaller set of prototypes is reported with less of everything.          *)
LEMMA ReportMonotonic ==
    ASSUME NEW entry \in Entry, NEW P \in SUBSET PrototypesOf(entry)
    PROVE  /\ Report(P).prototype_count <= Report(PrototypesOf(entry)).prototype_count
           /\ Report(P).total_speech <= Report(PrototypesOf(entry)).total_speech
           /\ Report(P).meets_policy => Report(PrototypesOf(entry)).meets_policy
<1> DEFINE all == PrototypesOf(entry)
<1>1. IsFiniteSet(all) /\ IsFiniteSet(AcceptedSpeech(all))
  BY PrototypesFinite
<1>2. AcceptedSpeech(P) \subseteq AcceptedSpeech(all)
  BY DEF AcceptedSpeech
<1> HIDE DEF all
<1>3. P \subseteq all
  BY DEF all
<1>4. /\ Cardinality(P) \in Nat /\ Cardinality(all) \in Nat
      /\ Cardinality(P) <= Cardinality(all)
  BY <1>1, <1>3, FS_Subset, FS_CardinalityType
<1>5. /\ Cardinality(AcceptedSpeech(P)) \in Nat /\ Cardinality(AcceptedSpeech(all)) \in Nat
      /\ Cardinality(AcceptedSpeech(P)) <= Cardinality(AcceptedSpeech(all))
  BY <1>1, <1>2, FS_Subset, FS_CardinalityType
<1>6. MinimumClips \in Nat /\ MinimumTotalSpeech \in Nat
  BY ThresholdAssumption DEF VoiceIdConfig
<1> DEFINE fewer == Cardinality(P)
           more == Cardinality(all)
           shorter == Cardinality(AcceptedSpeech(P))
           longer == Cardinality(AcceptedSpeech(all))
<1>7. /\ Report(P).prototype_count = fewer /\ Report(P).total_speech = shorter
      /\ Report(P).meets_policy = (fewer >= MinimumClips /\ shorter >= MinimumTotalSpeech)
  BY DEF Report
<1>8. /\ Report(all).prototype_count = more /\ Report(all).total_speech = longer
      /\ Report(all).meets_policy = (more >= MinimumClips /\ longer >= MinimumTotalSpeech)
  BY DEF Report
<1> HIDE DEF fewer, more, shorter, longer
<1>9. /\ fewer \in Nat /\ more \in Nat /\ shorter \in Nat /\ longer \in Nat
      /\ fewer <= more /\ shorter <= longer
  BY <1>4, <1>5 DEF fewer, more, shorter, longer
<1>10. fewer >= MinimumClips /\ shorter >= MinimumTotalSpeech
           => more >= MinimumClips /\ longer >= MinimumTotalSpeech
  BY <1>6, <1>9
<1>11. /\ Report(P).prototype_count <= Report(all).prototype_count
       /\ Report(P).total_speech <= Report(all).total_speech
  BY <1>7, <1>8, <1>9
<1>12. Report(P).meets_policy => Report(all).meets_policy
  BY <1>7, <1>8, <1>10
<1>13. QED
  BY <1>11, <1>12 DEF all

(* Each template is a prototype in memory, there at least once.              *)
LEMMA ReportsOrdered == RegistryInv => PolicyNoStricter
<1> SUFFICES ASSUME RegistryInv, NEW i \in Identities, rows[i] # None
             PROVE  /\ memory[i] # None
                    /\ DatabaseReport(i).prototype_count <= MemoryReport(i).prototype_count
                    /\ DatabaseReport(i).total_speech <= MemoryReport(i).total_speech
                    /\ DatabaseReport(i).meets_policy => MemoryReport(i).meets_policy
  BY DEF PolicyNoStricter
<1>1. memory[i] # None /\ MemoryPrototypes(i) = TemplatesOf(i)
  BY SameMaterial
<1>2. memory[i] \in Entry
  BY <1>1 DEF RegistryInv, RegistryTypeOK
<1>3. memory[i].prototypes \in [Clips -> Nat]
  BY <1>2 DEF Entry
<1>4. TemplatesOf(i) \X {1} \subseteq PrototypesOf(memory[i])
  <2> SUFFICES ASSUME NEW c \in TemplatesOf(i) PROVE <<c, 1>> \in PrototypesOf(memory[i])
    OBVIOUS
  <2>1. c \in Clips /\ memory[i].prototypes[c] > 0
    BY <1>1 DEF MemoryPrototypes
  <2>2. 1 \in 1 .. memory[i].prototypes[c]
    BY <1>3, <2>1
  <2>3. QED
    BY <2>1, <2>2 DEF PrototypesOf
<1>5. QED
  BY <1>1, <1>2, <1>4, ReportMonotonic DEF DatabaseReport, MemoryReport

(* Whichever registry the service runs with, it recognises the same people,  *)
(* after any enrollments, re-posted clips and deletions and for any          *)
(* similarities and thresholds (FakeVoiceRegistry, PgVectorVoiceRegistry).   *)
THEOREM BackendsAgree == Spec => []SameDecisions
<1>1. Init => RegistryInv
  BY RegistryStarts DEF Init
<1>2. QED
  BY <1>1, RegistryKeeps, SameAnswers, PTL DEF Spec

(* Nobody is in a registry without a consent the API holds, and a later      *)
(* enrollment can not fall back to an older one (enroll_voice_identity).     *)
THEOREM ConsentNeverLost == Spec => []ConsentKept
<1>1. Init => RegistryInv
  BY RegistryStarts DEF Init
<1>2. RegistryInv => ConsentKept
  BY DEF RegistryInv, SamePerson, NoPerson, ConsentKept
<1>3. QED
  BY <1>1, <1>2, RegistryKeeps, PTL DEF Spec

(* A person is never recognised under the name or the consent of an identity *)
(* that was deleted, created again or renamed (identify of both registries). *)
THEOREM NobodyMisnamed == Spec => []NamesCurrent
<1>1. Init => RegistryInv
  BY RegistryStarts DEF Init
<1>2. QED
  BY <1>1, RegistryKeeps, Recognised, PTL DEF Spec

(* The database never reports more prototypes or speech for an identity than *)
(* the memory, so that who meets the enrollment policy there meets it here   *)
(* (EnrollmentReport of both registries).                                    *)
THEOREM ReportsComparable == Spec => []PolicyNoStricter
<1>1. Init => RegistryInv
  BY RegistryStarts DEF Init
<1>2. QED
  BY <1>1, RegistryKeeps, ReportsOrdered, PTL DEF Spec

-----------------------------------------------------------------------------
(* Retained audio *)

Distinct(list) == \A m, n \in 1 .. Len(list) : list[m] = list[n] => m = n

(* A job that is popped leaves the others, in their order and no further     *)
(* from the end than before.                                                 *)
LEMMA WithoutProperties ==
    ASSUME NEW S, NEW list \in Seq(S), NEW k, Distinct(list)
    PROVE  /\ Without(list, k) \in Seq(S)
           /\ Len(Without(list, k)) <= Len(list)
           /\ Elements(Without(list, k)) = Elements(list) \ {k}
           /\ Distinct(Without(list, k))
           /\ \A n \in 1 .. Len(Without(list, k)) :
                 \E m \in 1 .. Len(list) :
                     /\ Without(list, k)[n] = list[m]
                     /\ Len(Without(list, k)) - n <= Len(list) - m
<1>1. Len(list) \in Nat /\ \A n \in 1 .. Len(list) : list[n] \in S
  BY LenProperties, ElementOfSeq
<1>2. CASE k \notin Elements(list)
  <2>1. Without(list, k) = list
    BY <1>2 DEF Without
  <2>2. \A n \in 1 .. Len(list) : Len(list) - n <= Len(list) - n
    BY <1>1
  <2>3. QED
    BY <1>1, <1>2, <2>1, <2>2
<1>3. CASE k \in Elements(list)
  <2> DEFINE at == CHOOSE n \in 1 .. Len(list) : list[n] = k
             rest == [n \in 1 .. Len(list) - 1 |-> IF n < at THEN list[n] ELSE list[n + 1]]
  <2>1. at \in 1 .. Len(list) /\ list[at] = k
    BY <1>3 DEF Elements
  <2>2. Without(list, k) = rest
    BY <1>3 DEF Without
  <2> HIDE DEF at
  <2>3. /\ rest \in Seq(S) /\ Len(rest) = Len(list) - 1 /\ Len(rest) \in Nat
        /\ \A n \in 1 .. Len(rest) : rest[n] = IF n < at THEN list[n] ELSE list[n + 1]
    BY <1>1, <2>1
  <2> HIDE DEF rest
  <2>4. Distinct(rest)
    BY <1>1, <2>1, <2>3 DEF Distinct
  <2>5. \A n \in 1 .. Len(rest) :
            \E m \in 1 .. Len(list) :
                m # at /\ rest[n] = list[m] /\ Len(rest) - n <= Len(list) - m
    <3> TAKE n \in 1 .. Len(rest)
    <3>1. CASE n < at
      <4>1. n \in 1 .. Len(list) /\ n # at /\ rest[n] = list[n]
            /\ Len(rest) - n <= Len(list) - n
        <5>1. rest[n] = list[n]
          BY <2>3, <3>1
        <5>2. n \in 1 .. Len(list) /\ Len(rest) - n <= Len(list) - n
          BY <1>1, <2>3
        <5>3. QED
          BY <2>1, <3>1, <5>1, <5>2
      <4>2. QED
        BY <4>1
    <3>2. CASE ~ (n < at)
      <4>1. n + 1 \in 1 .. Len(list) /\ n + 1 # at /\ rest[n] = list[n + 1]
            /\ Len(rest) - n <= Len(list) - (n + 1)
        BY <1>1, <2>1, <2>3, <3>2
      <4>2. QED
        BY <4>1
    <3>3. QED
      BY <3>1, <3>2
  <2>6. \A m \in 1 .. Len(list) : m # at => \E n \in 1 .. Len(rest) : rest[n] = list[m]
    <3> SUFFICES ASSUME NEW m \in 1 .. Len(list), m # at
                 PROVE  \E n \in 1 .. Len(rest) : rest[n] = list[m]
      OBVIOUS
    <3>1. CASE m < at
      BY <1>1, <2>1, <2>3, <3>1
    <3>2. CASE m > at
      <4>1. m - 1 \in 1 .. Len(rest) /\ rest[m - 1] = list[m]
        BY <1>1, <2>1, <2>3, <3>2
      <4>2. QED
        BY <4>1
    <3>3. QED
      BY <1>1, <2>1, <3>1, <3>2
  <2>7. Elements(rest) = Elements(list) \ {k}
    <3>1. \A m \in 1 .. Len(list) : m # at <=> list[m] # k
      BY <2>1 DEF Distinct
    <3>2. Elements(rest) \subseteq Elements(list) \ {k}
      BY <2>5, <3>1 DEF Elements
    <3>3. Elements(list) \ {k} \subseteq Elements(rest)
      BY <2>6, <3>1 DEF Elements
    <3>4. QED
      BY <3>2, <3>3
  <2>8. QED
    BY <1>1, <2>2, <2>3, <2>4, <2>5, <2>7
<1>4. QED
  BY <1>2, <1>3

(* What is kept is the end of the list, at most as long as the bound.        *)
LEMMA NewestProperties ==
    ASSUME NEW S, NEW list \in Seq(S), Distinct(list)
    PROVE  /\ Newest(list) \in Seq(S)
           /\ Len(Newest(list)) <= MaxRetained
           /\ Elements(Newest(list)) = Elements(list) \ Evicted(list)
           /\ Distinct(Newest(list))
           /\ \A n \in 1 .. Len(Newest(list)) :
                 \E m \in 1 .. Len(list) :
                     /\ Newest(list)[n] = list[m]
                     /\ Len(Newest(list)) - n <= Len(list) - m
<1> DEFINE e == Excess(list)
           kept == Newest(list)
<1>1. Len(list) \in Nat /\ \A n \in 1 .. Len(list) : list[n] \in S
  BY LenProperties, ElementOfSeq
<1>2. e \in Nat /\ e <= Len(list) /\ Len(list) - e <= MaxRetained
  BY <1>1, RetainedAssumption DEF Excess
<1>3. kept = SubSeq(list, e + 1, Len(list))
  BY DEF Newest
<1>4. Evicted(list) = {list[n] : n \in 1 .. e}
  BY DEF Evicted
<1> HIDE DEF e, kept
<1>5. /\ kept \in Seq(S) /\ Len(kept) = Len(list) - e
      /\ \A n \in 1 .. Len(kept) : kept[n] = list[n + e]
  BY <1>1, <1>2, <1>3
<1>6. \A n \in 1 .. Len(kept) :
          n + e \in 1 .. Len(list) /\ Len(kept) - n <= Len(list) - (n + e)
  BY <1>1, <1>2, <1>5
<1>7. Elements(kept) = Elements(list) \ Evicted(list)
  <2>1. \A n \in 1 .. Len(kept) : kept[n] \notin Evicted(list)
    <3> SUFFICES ASSUME NEW n \in 1 .. Len(kept), NEW m \in 1 .. e, kept[n] = list[m]
                 PROVE  FALSE
      BY <1>4
    <3>1. m \in 1 .. Len(list) /\ n + e \in 1 .. Len(list) /\ m # n + e
      BY <1>1, <1>2, <1>6
    <3>2. QED
      BY <1>5, <3>1 DEF Distinct
  <2>2. \A m \in 1 .. Len(list) : list[m] \in Evicted(list) \/ m - e \in 1 .. Len(kept)
    BY <1>1, <1>2, <1>4, <1>5
  <2>3. \A m \in 1 .. Len(list) :
           m - e \in 1 .. Len(kept) => kept[m - e] = list[m]
    BY <1>1, <1>2, <1>5
  <2>4. Elements(kept) \subseteq Elements(list) \ Evicted(list)
    BY <1>5, <1>6, <2>1 DEF Elements
  <2>5. Elements(list) \ Evicted(list) \subseteq Elements(kept)
    <3> SUFFICES ASSUME NEW m \in 1 .. Len(list), list[m] \notin Evicted(list)
                 PROVE  list[m] \in Elements(kept)
      BY DEF Elements
    <3>1. m - e \in 1 .. Len(kept) /\ kept[m - e] = list[m]
      BY <2>2, <2>3
    <3>2. QED
      BY <3>1 DEF Elements
  <2>6. QED
    BY <2>4, <2>5
<1>8. Distinct(kept)
  BY <1>1, <1>2, <1>5 DEF Distinct
<1>9. QED
  BY <1>2, <1>5, <1>6, <1>7, <1>8 DEF kept

-----------------------------------------------------------------------------
(* Jobs *)

Made == {k \in Keys : jobs[k] # None}

(* The job at place n of the list has at least as many younger jobs as the   *)
(* list has entries behind it: deletions only take entries away.  So the     *)
(* first one is old enough to be evicted whenever the list is full.          *)
InOrder ==
    \A n \in 1 .. Len(retained) :
        /\ jobs[retained[n]] # None
        /\ jobs[retained[n]].number + (Len(retained) - n) <= Number - 1

NewestKept ==
    \A k \in Made :
        jobs[k].number > Number - 1 - MaxRetained /\ ~ jobs[k].deleted => k \in objects

JobsTypeOK ==
    /\ jobs \in [Keys -> Job \union {None}]
    /\ DOMAIN results = Keys /\ results = [k \in Keys |-> results[k]]
    /\ IsFiniteSet(Made)

RetainedInv ==
    /\ retained \in Seq(Keys)
    /\ Distinct(retained)
    /\ Len(retained) <= MaxRetained
    /\ objects = Elements(retained)
    /\ previews \subseteq objects

JobInv == JobsTypeOK /\ RetainedInv /\ InOrder /\ NewestKept

(* There is no job at the start.                                             *)
LEMMA JobsStart == Init => JobInv
<1> SUFFICES ASSUME Init PROVE JobInv
  OBVIOUS
<1>1. /\ jobs = [k \in Keys |-> None] /\ results = [k \in Keys |-> None]
      /\ retained = <<>> /\ objects = {} /\ previews = {}
  BY DEF Init
<1>2. Made = {}
  BY <1>1 DEF Made
<1>3. JobsTypeOK
  BY <1>1, <1>2, FS_EmptySet DEF JobsTypeOK
<1>4. retained \in Seq(Keys) /\ Len(retained) = 0
  BY <1>1
<1>5. RetainedInv /\ InOrder
  BY <1>1, <1>4, RetainedAssumption DEF RetainedInv, InOrder, Distinct, Elements
<1>6. QED
  BY <1>2, <1>3, <1>5 DEF JobInv, NewestKept

(* What a new job changes of the store, whatever its run does.               *)
LEMMA CreateJobWrites ==
    ASSUME JobInv, NEW k \in Keys, NEW input \in Inputs, CreateJob(k, input)
    PROVE  /\ jobs[k] = None /\ Number \in Nat \ {0}
           /\ JobsTypeOK'
           /\ jobs'[k] \in Job /\ jobs'[k].number = Number /\ jobs'[k] # None
           /\ \A j \in Keys \ {k} : jobs'[j] = jobs[j] /\ results'[j] = results[j]
           /\ Made' = Made \union {k} /\ Number' = Number + 1
<1>1. jobs[k] = None
  BY DEF CreateJob, Creates
<1>2. PICK state \in States :
         jobs' = [jobs EXCEPT ![k] = [input |-> input, state |-> state, number |-> Number,
                                      deleted |-> FALSE]]
  BY DEF CreateJob, RunSucceeds, RunRaises, States
<1>3. Cardinality(Made) \in Nat /\ Number = Cardinality(Made) + 1
  BY FS_CardinalityType DEF JobInv, JobsTypeOK, Number, Made
<1>4. /\ jobs'[k] \in Job /\ jobs'[k].number = Number
      /\ jobs' \in [Keys -> Job \union {None}]
      /\ \A j \in Keys \ {k} : jobs'[j] = jobs[j]
  BY <1>2, <1>3 DEF JobInv, JobsTypeOK, Job
<1>5. jobs'[k] # None
  BY <1>4, JobAssumption
<1>6. Made' = Made \union {k} /\ k \notin Made
  BY <1>1, <1>4, <1>5 DEF Made
<1>7. IsFiniteSet(Made') /\ Cardinality(Made') = Cardinality(Made) + 1
  BY <1>6, FS_AddElement DEF JobInv, JobsTypeOK
<1>8. Number' = Number + 1
  <2>1. Number' = Cardinality(Made') + 1
    BY DEF Number, Made
  <2>2. QED
    BY <1>3, <1>7, <2>1
<1>9. /\ DOMAIN results' = Keys /\ results' = [j \in Keys |-> results'[j]]
      /\ \A j \in Keys \ {k} : results'[j] = results[j]
  <2>1. \/ results' = results
        \/ \E d : results' = [results EXCEPT ![k] = d]
    BY DEF CreateJob, RunSucceeds, RunRaises
  <2>2. QED
    BY <2>1 DEF JobInv, JobsTypeOK
<1>10. QED
  BY <1>1, <1>3, <1>4, <1>5, <1>6, <1>7, <1>8, <1>9 DEF JobsTypeOK

(* A new job is retained, and pushes out the oldest one when the list is     *)
(* full.                                                                     *)
LEMMA CreateJobKeeps ==
    ASSUME JobInv, NEW k \in Keys, NEW input \in Inputs, CreateJob(k, input)
    PROVE  JobInv'
<1> DEFINE list == Append(retained, k)
<1>1. /\ retained' = Newest(list)
      /\ objects' = (objects \union {k}) \ Evicted(list)
      /\ previews' = previews \intersect Elements(retained')
  BY DEF CreateJob, RetainJobAudio
<1>2. /\ jobs[k] = None /\ Number \in Nat \ {0}
      /\ JobsTypeOK'
      /\ jobs'[k] \in Job /\ jobs'[k].number = Number /\ jobs'[k] # None
      /\ \A j \in Keys \ {k} : jobs'[j] = jobs[j]
      /\ Made' = Made \union {k} /\ Number' = Number + 1
  BY CreateJobWrites
<1>3. /\ retained \in Seq(Keys) /\ Distinct(retained) /\ Len(retained) \in Nat
      /\ Len(retained) <= MaxRetained
      /\ \A n \in 1 .. Len(retained) : retained[n] \in Keys /\ retained[n] # k
  <2>1. \A n \in 1 .. Len(retained) : retained[n] # k
    BY <1>2 DEF JobInv, InOrder
  <2>2. QED
    BY <2>1, LenProperties, ElementOfSeq DEF JobInv, RetainedInv
<1>4. /\ list \in Seq(Keys) /\ Len(list) = Len(retained) + 1
      /\ \A n \in 1 .. Len(retained) : list[n] = retained[n]
      /\ list[Len(retained) + 1] = k
  BY <1>3, AppendProperties
<1> HIDE DEF list
<1>5. Distinct(list)
  BY <1>3, <1>4 DEF Distinct
<1>6. Elements(list) = Elements(retained) \union {k}
  <2>1. \A n \in 1 .. Len(list) : n \in 1 .. Len(retained) \/ n = Len(retained) + 1
    BY <1>3, <1>4
  <2>2. Len(retained) + 1 \in 1 .. Len(list) /\ 1 .. Len(retained) \subseteq 1 .. Len(list)
    BY <1>3, <1>4
  <2>3. QED
    BY <1>4, <2>1, <2>2 DEF Elements
<1>7. \A n \in 1 .. Len(list) :
         /\ jobs'[list[n]] # None
         /\ jobs'[list[n]].number \in Nat
         /\ jobs'[list[n]].number + (Len(list) - n) <= Number
  <2> TAKE n \in 1 .. Len(list)
  <2>1. CASE n = Len(retained) + 1
    BY <1>2, <1>3, <1>4, <2>1
  <2>2. CASE n \in 1 .. Len(retained)
    <3>1. list[n] = retained[n] /\ jobs'[list[n]] = jobs[retained[n]]
      BY <1>2, <1>3, <1>4, <2>2
    <3>2. /\ jobs[retained[n]] \in Job
          /\ jobs[retained[n]] # None
          /\ jobs[retained[n]].number + (Len(retained) - n) <= Number - 1
      BY <1>3, <2>2 DEF JobInv, JobsTypeOK, InOrder
    <3>3. jobs[retained[n]].number \in Nat
      BY <3>2 DEF Job
    <3>4. QED
      BY <1>2, <1>3, <1>4, <3>1, <3>2, <3>3
  <2>3. QED
    BY <1>3, <1>4, <2>1, <2>2
<1>8. /\ retained' \in Seq(Keys) /\ Len(retained') <= MaxRetained
      /\ Elements(retained') = Elements(list) \ Evicted(list)
      /\ Distinct(retained')
      /\ \A n \in 1 .. Len(retained') :
            \E m \in 1 .. Len(list) :
                retained'[n] = list[m] /\ Len(retained') - n <= Len(list) - m
  BY <1>1, <1>4, <1>5, NewestProperties
<1>9. RetainedInv'
  <2>1. objects' = Elements(retained')
    BY <1>1, <1>6, <1>8 DEF JobInv, RetainedInv
  <2>2. QED
    BY <1>1, <1>8, <2>1 DEF RetainedInv, Distinct, Elements
<1>10. InOrder'
  <2> SUFFICES ASSUME NEW n \in 1 .. Len(retained')
               PROVE  /\ jobs'[retained'[n]] # None
                      /\ jobs'[retained'[n]].number + (Len(retained') - n) <= Number' - 1
    BY DEF InOrder
  <2>1. PICK m \in 1 .. Len(list) :
           retained'[n] = list[m] /\ Len(retained') - n <= Len(list) - m
    BY <1>8
  <2>2. Len(retained') \in Nat
    BY <1>8, LenProperties
  <2>3. QED
    BY <1>2, <1>3, <1>4, <1>7, <2>1, <2>2
<1>11. NewestKept'
  <2> SUFFICES ASSUME NEW j \in Made', jobs'[j].number > Number' - 1 - MaxRetained,
                      ~ jobs'[j].deleted
               PROVE  j \in objects'
    BY DEF NewestKept
  <2>1. j \in objects \union {k}
    <3>1. CASE j = k
      BY <3>1
    <3>2. CASE j # k
      <4>1. j \in Made /\ jobs'[j] = jobs[j] /\ jobs[j] \in Job
        BY <1>2, <3>2 DEF Made, JobInv, JobsTypeOK
      <4>2. jobs[j].number > Number - 1 - MaxRetained
        BY <1>2, <4>1, RetainedAssumption DEF Job
      <4>3. QED
        BY <4>1, <4>2 DEF JobInv, NewestKept
    <3>3. QED
      BY <3>1, <3>2
  <2>2. j \notin Evicted(list)
    <3> SUFFICES ASSUME NEW n \in 1 .. Excess(list), j = list[n] PROVE FALSE
      BY DEF Evicted
    <3>1. Excess(list) \in {0, 1} /\ (Excess(list) = 1 => Len(retained) = MaxRetained)
      BY <1>3, <1>4, RetainedAssumption DEF Excess
    <3>2. n = 1 /\ Len(list) = MaxRetained + 1
      BY <1>3, <1>4, <3>1
    <3>3. 1 \in 1 .. Len(list)
      BY <1>3, <1>4
    <3>4. jobs'[j].number \in Nat /\ jobs'[j].number + (Len(list) - 1) <= Number
      BY <1>7, <3>2, <3>3
    <3>5. QED
      BY <1>2, <3>2, <3>4, RetainedAssumption
  <2>3. QED
    BY <1>1, <2>1, <2>2
<1>12. QED
  BY <1>2, <1>9, <1>10, <1>11 DEF JobInv

(* What a deletion changes of the store.                                     *)
LEMMA DeleteJobWrites ==
    ASSUME JobInv, NEW k \in Keys, DeleteJob(k)
    PROVE  /\ JobsTypeOK'
           /\ jobs'[k] \in Job /\ jobs[k] \in Job
           /\ jobs'[k].deleted /\ jobs'[k].number = jobs[k].number
           /\ jobs'[k].state = IF jobs[k].state \in Terminal THEN jobs[k].state
                               ELSE "CANCELLED"
           /\ results'[k] = None
           /\ \A j \in Keys \ {k} : jobs'[j] = jobs[j] /\ results'[j] = results[j]
           /\ Made' = Made /\ Number' = Number
<1>1. /\ jobs[k] # None
      /\ results' = [results EXCEPT ![k] = None]
      /\ jobs' = [jobs EXCEPT ![k].deleted = TRUE,
                              ![k].state = IF @ \in Terminal THEN @ ELSE "CANCELLED"]
  BY DEF DeleteJob
<1>2. jobs[k] \in Job /\ jobs \in [Keys -> Job \union {None}]
  BY <1>1 DEF JobInv, JobsTypeOK
<1>3. /\ jobs'[k] = [jobs[k] EXCEPT !.deleted = TRUE,
                                    !.state = IF jobs[k].state \in Terminal
                                              THEN jobs[k].state ELSE "CANCELLED"]
      /\ \A j \in Keys \ {k} : jobs'[j] = jobs[j]
      /\ DOMAIN jobs' = Keys /\ jobs' = [j \in Keys |-> jobs'[j]]
  BY <1>1, <1>2 DEF Job
<1>4. /\ jobs'[k] \in Job /\ jobs'[k].deleted /\ jobs'[k].number = jobs[k].number
      /\ jobs'[k].state = IF jobs[k].state \in Terminal THEN jobs[k].state
                          ELSE "CANCELLED"
  BY <1>2, <1>3 DEF Job, States
<1>5. jobs' \in [Keys -> Job \union {None}]
  BY <1>2, <1>3, <1>4
<1>6. Made' = Made
  BY <1>1, <1>3, <1>4, JobAssumption DEF Made
<1>7. Number' = Number
  <2>1. Number' = Cardinality(Made') + 1 /\ Number = Cardinality(Made) + 1
    BY DEF Number, Made
  <2>2. QED
    BY <1>6, <2>1
<1>8. /\ DOMAIN results' = Keys /\ results' = [j \in Keys |-> results'[j]]
      /\ results'[k] = None
      /\ \A j \in Keys \ {k} : results'[j] = results[j]
  BY <1>1 DEF JobInv, JobsTypeOK
<1>9. QED
  BY <1>2, <1>3, <1>4, <1>5, <1>6, <1>7, <1>8 DEF JobInv, JobsTypeOK

(* A deleted job takes its audio along, and only its own.                    *)
LEMMA DeleteJobKeeps ==
    ASSUME JobInv, NEW k \in Keys, DeleteJob(k)
    PROVE  JobInv'
<1>1. /\ retained' = Without(retained, k)
      /\ previews' = previews \ {k}
      /\ objects' = IF k \in Elements(retained) THEN objects \ {k} ELSE objects
  BY DEF DeleteJob
<1>2. /\ JobsTypeOK'
      /\ jobs'[k] \in Job /\ jobs[k] \in Job /\ jobs'[k] # None
      /\ jobs'[k].deleted /\ jobs'[k].number = jobs[k].number
      /\ \A j \in Keys \ {k} : jobs'[j] = jobs[j]
      /\ Made' = Made /\ Number' = Number
  BY DeleteJobWrites, JobAssumption
<1>3. /\ retained \in Seq(Keys) /\ Distinct(retained) /\ Len(retained) \in Nat
      /\ Len(retained) <= MaxRetained
      /\ \A n \in 1 .. Len(retained) : retained[n] \in Keys
  BY LenProperties, ElementOfSeq DEF JobInv, RetainedInv
<1>4. /\ retained' \in Seq(Keys) /\ Len(retained') <= Len(retained)
      /\ Elements(retained') = Elements(retained) \ {k}
      /\ Distinct(retained')
      /\ \A n \in 1 .. Len(retained') :
            \E m \in 1 .. Len(retained) :
                retained'[n] = retained[m] /\ Len(retained') - n <= Len(retained) - m
  BY <1>1, <1>3, WithoutProperties
<1>5. Len(retained') \in Nat
  BY <1>4, LenProperties
<1>6. Number \in Nat
  BY FS_CardinalityType DEF JobInv, JobsTypeOK, Number, Made
<1>7. RetainedInv'
  <2>1. objects' = Elements(retained')
    BY <1>1, <1>4 DEF JobInv, RetainedInv
  <2>2. previews' \subseteq objects'
    BY <1>1 DEF JobInv, RetainedInv
  <2>3. QED
    BY <1>3, <1>4, <1>5, <2>1, <2>2, RetainedAssumption DEF RetainedInv, Distinct, Elements
<1>8. InOrder'
  <2> SUFFICES ASSUME NEW n \in 1 .. Len(retained')
               PROVE  /\ jobs'[retained'[n]] # None
                      /\ jobs'[retained'[n]].number + (Len(retained') - n) <= Number' - 1
    BY DEF InOrder
  <2>1. PICK m \in 1 .. Len(retained) :
           retained'[n] = retained[m] /\ Len(retained') - n <= Len(retained) - m
    BY <1>4
  <2>2. /\ jobs[retained[m]] # None /\ jobs[retained[m]] \in Job
        /\ jobs[retained[m]].number + (Len(retained) - m) <= Number - 1
    BY <1>3 DEF JobInv, InOrder, JobsTypeOK
  <2>3. /\ jobs'[retained[m]] # None
        /\ jobs'[retained[m]].number = jobs[retained[m]].number
        /\ jobs[retained[m]].number \in Nat
    BY <1>2, <1>3, <2>2 DEF Job
  <2>4. QED
    BY <1>2, <1>3, <1>5, <1>6, <2>1, <2>2, <2>3
<1>9. NewestKept'
  <2> SUFFICES ASSUME NEW j \in Made', jobs'[j].number > Number' - 1 - MaxRetained,
                      ~ jobs'[j].deleted
               PROVE  j \in objects'
    BY DEF NewestKept
  <2>1. j # k /\ j \in Made /\ jobs'[j] = jobs[j]
    BY <1>2 DEF Made
  <2>2. j \in objects
    BY <1>2, <2>1 DEF JobInv, NewestKept
  <2>3. QED
    BY <1>1, <2>1, <2>2
<1>10. QED
  BY <1>2, <1>7, <1>8, <1>9 DEF JobInv

(* Every step of the service keeps the jobs and their audio in order.        *)
LEMMA JobKeeps == JobInv /\ [Next]_vars => JobInv'
<1> SUFFICES ASSUME JobInv, [Next]_vars PROVE JobInv'
  OBVIOUS
<1>1. CASE UNCHANGED jobVars
  BY <1>1 DEF jobVars, JobInv, JobsTypeOK, RetainedInv, InOrder, NewestKept, Made, Number,
              Distinct, Elements
<1>2. ASSUME NEW k \in Keys, GetJobAudioPreview(k) PROVE JobInv'
  <2>1. /\ jobs' = jobs /\ results' = results /\ retained' = retained /\ objects' = objects
        /\ previews' = previews \union {k} /\ k \in objects
    BY <1>2 DEF GetJobAudioPreview
  <2>2. JobsTypeOK' /\ InOrder' /\ NewestKept'
    BY <2>1 DEF JobInv, JobsTypeOK, InOrder, NewestKept, Made, Number
  <2>3. RetainedInv'
    BY <2>1 DEF JobInv, RetainedInv, Distinct, Elements
  <2>4. QED
    BY <2>2, <2>3 DEF JobInv
<1>3. QED
  BY <1>1, <1>2, CreateJobKeeps, DeleteJobKeeps DEF Next, vars

(* A list holds no more jobs than it is long.                                *)
LEMMA ElementsBound ==
    ASSUME NEW S, NEW list \in Seq(S)
    PROVE  Cardinality(Elements(list)) <= Len(list)
<1>1. Len(list) \in Nat /\ list \in [1 .. Len(list) -> Elements(list)]
  BY LenProperties DEF Elements
<1>2. list \in Surjection(1 .. Len(list), Elements(list))
  BY <1>1 DEF Surjection, Elements
<1>3. ExistsSurjection(1 .. Len(list), Elements(list))
  BY <1>2 DEF ExistsSurjection
<1>4. QED
  BY <1>1, <1>3, FS_SurjCardinalityBound

(* The invariant accounts for the audio.                                     *)
LEMMA Accounted == JobInv => AudioAccounted
<1> SUFFICES ASSUME JobInv PROVE AudioAccounted
  OBVIOUS
<1>1. Cardinality(objects) <= MaxRetained
  <2>1. /\ objects = Elements(retained) /\ retained \in Seq(Keys)
        /\ Len(retained) \in Nat /\ Len(retained) <= MaxRetained
    BY LenProperties DEF JobInv, RetainedInv
  <2>2. IsFiniteSet(objects) /\ Cardinality(objects) <= Len(retained)
    <3>1. retained \in Surjection(1 .. Len(retained), Elements(retained))
      BY <2>1 DEF Surjection, Elements
    <3>2. IsFiniteSet(1 .. Len(retained))
      BY <2>1, FS_Interval
    <3>3. QED
      BY <2>1, <3>1, <3>2, FS_Surjection, ElementsBound
  <2>3. Cardinality(objects) \in Nat
    BY <2>2, FS_CardinalityType
  <2>4. QED
    BY <2>1, <2>2, <2>3, RetainedAssumption
<1>2. QED
  BY <1>1 DEF JobInv, RetainedInv, NewestKept, Made, AudioAccounted

(* One step shows a job as it was, or deleted.                               *)
LEMMA ShownAlike ==
    ASSUME JobInv, [Next]_vars, NEW k \in Keys, jobs[k] # None
    PROVE  /\ GetJobResult(k)' \in {GetJobResult(k), None}
           /\ JobView(k)' # JobView(k) => jobs'[k].deleted
           /\ JobView(k)'.state # JobView(k).state =>
                 jobs[k].state = "PREPROCESSING" /\ jobs'[k].state = "CANCELLED"
<1>1. \/ jobs'[k] = jobs[k] /\ results'[k] = results[k]
      \/ DeleteJob(k)
  <2>1. ASSUME NEW j \in Keys, NEW input \in Inputs, CreateJob(j, input)
        PROVE  jobs'[k] = jobs[k] /\ results'[k] = results[k]
    BY <2>1, CreateJobWrites
  <2>2. ASSUME NEW j \in Keys, DeleteJob(j), j # k
        PROVE  jobs'[k] = jobs[k] /\ results'[k] = results[k]
    BY <2>2, DeleteJobWrites
  <2>3. CASE UNCHANGED jobVars
    BY <2>3 DEF jobVars
  <2>4. ASSUME NEW j \in Keys, GetJobAudioPreview(j)
        PROVE  jobs'[k] = jobs[k] /\ results'[k] = results[k]
    BY <2>4 DEF GetJobAudioPreview
  <2>5. QED
    BY <2>1, <2>2, <2>3, <2>4 DEF Next, vars
<1>2. CASE jobs'[k] = jobs[k] /\ results'[k] = results[k]
  BY <1>2 DEF GetJobResult, JobView
<1>3. CASE DeleteJob(k)
  <2>1. /\ jobs[k] \in Job /\ jobs'[k].deleted /\ results'[k] = None
        /\ jobs'[k].state = IF jobs[k].state \in Terminal THEN jobs[k].state
                            ELSE "CANCELLED"
    BY <1>3, DeleteJobWrites
  <2>2. JobView(k).state = jobs[k].state /\ JobView(k)'.state = jobs'[k].state
    BY DEF JobView
  <2>3. jobs[k].state \notin Terminal => jobs[k].state = "PREPROCESSING"
    BY <2>1 DEF Job, States, Terminal
  <2>4. QED
    BY <2>1, <2>2, <2>3 DEF GetJobResult
<1>4. QED
  BY <1>1, <1>2, <1>3

(* For every bound and any order of jobs, previews and deletions, the inputs *)
(* in memory are those the process can find again, never more than the       *)
(* bound and all of the newest jobs that were not deleted, and no preview    *)
(* outlives its input (_retain_job_audio, delete_job, get_job_audio).        *)
THEOREM AudioInOrder == Spec => []AudioAccounted
  BY JobsStart, JobKeeps, Accounted, PTL DEF Spec

(* However often a key is posted and whatever its run raised, what the API   *)
(* shows of a job changes by its deletion only (create_job, _run_job,        *)
(* delete_job).                                                              *)
THEOREM JobRunsOnce == Spec => RunOnce
<1>1. JobInv /\ [Next]_vars =>
          \A k \in Keys : jobs[k] # None =>
              /\ GetJobResult(k)' \in {GetJobResult(k), None}
              /\ JobView(k)' # JobView(k) => jobs'[k].deleted
              /\ JobView(k)'.state # JobView(k).state =>
                    jobs[k].state = "PREPROCESSING" /\ jobs'[k].state = "CANCELLED"
  BY ShownAlike
<1>2. QED
  BY <1>1, JobsStart, JobKeeps, PTL DEF Spec, RunOnce
=============================================================================
