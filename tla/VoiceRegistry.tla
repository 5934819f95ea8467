---------------------------- MODULE VoiceRegistry ----------------------------
(***************************************************************************)
(* The open-set voice registry of one tenant and the HTTP routes that feed  *)
(* it (api/http.py).  The port has two implementations: FakeVoiceRegistry   *)
(* in memory (adapters/fake/models.py), which the service runs with, and    *)
(* PgVectorVoiceRegistry (adapters/persistence/pgvector_registry.py).  Both *)
(* get the same calls here, side by side, so that their answers can be      *)
(* compared in every state.                                                 *)
(*                                                                         *)
(* An embedding is a vector with its lineage; what the code uses of the     *)
(* vectors is their similarity.  The source_hash of a clip is taken from    *)
(* its vector and its length, so that a clip stands for its own hash.  The  *)
(* audit rows are written and never read, and are left out.                 *)
(***************************************************************************)
EXTENDS Integers, FiniteSets, FiniteSetsExt

CONSTANTS
    Identities,        \* external IDs of the people
    Names,             \* display names
    Consents,          \* consent references
    None,              \* Python's None, and no entry
    Clips,             \* the embeddings of enrollment audio
    Probes,            \* the embeddings identify is asked about
    Similarity,        \* cosine similarity of two vectors, in percent
    Model,             \* embedding_model_version of the registry
    Calibrated,        \* are the two thresholds set?
    AcceptThreshold, AmbiguousMargin,
    MinClip, MaxClip,  \* MIN_CLIP_MS and MAX_CLIP_MS
    MinimumClips, MinimumTotalSpeech,
    MaxPrototypes      \* bound: prototypes of all identities together

Embedding == [vector : STRING, model : STRING, speech : Nat, origin : {"clean", "separated"}]

(* What the API, the in-memory registry and the database know of a person.   *)
Metadata == [name : Names, consent : Consents \union {None}]
Entry == [name : Names, consent : Consents, prototypes : [Clips -> Nat]]
Row == [name : Names, consent : Consents]

ASSUME NoneAssumption ==
    /\ None \notin Identities \union Names \union Consents
    /\ None \notin Metadata \union Entry \union Row
ASSUME EmbeddingAssumption ==
    /\ Clips \subseteq Embedding /\ IsFiniteSet(Clips)
    /\ Probes \subseteq Embedding
ASSUME SimilarityAssumption ==
    \A c \in Clips, p \in Probes : Similarity[c.vector, p.vector] \in Int

(* VoiceIdConfig; speech is counted in seconds.                              *)
VoiceIdConfig ==
    /\ Calibrated \in BOOLEAN
    /\ {AcceptThreshold, AmbiguousMargin} \subseteq Int
    /\ MinimumClips \in Nat /\ MinimumClips >= 3
    /\ MinimumTotalSpeech \in Nat /\ MinimumTotalSpeech >= 15

ASSUME ThresholdAssumption == VoiceIdConfig
ASSUME ClipAssumption == {MinClip, MaxClip, MaxPrototypes} \subseteq Nat

VARIABLES
    metadata,     \* identity_metadata of the API, by identity
    memory,       \* _tenants of the in-memory registry: the entries
    rows,         \* voice_identities
    templates     \* voice_templates: which identity has which clip

registryVars == <<metadata, memory, rows, templates>>

RegistryInit ==
    /\ metadata = [i \in Identities |-> None]
    /\ memory = [i \in Identities |-> None]
    /\ rows = [i \in Identities |-> None]
    /\ templates = {}

Or(value, default) == IF value = None THEN default ELSE value

-----------------------------------------------------------------------------
(* Enrollment *)

(* Why a clip is no enrollment material; an accepted clip has no reason.     *)
ClipReasons(clip) ==
    {r \in {"model", "short", "long", "separated"} :
        \/ r = "model" /\ clip.model # Model
        \/ r = "short" /\ clip.speech < MinClip
        \/ r = "long" /\ clip.speech > MaxClip
        \/ r = "separated" /\ clip.origin = "separated"}

Accepted(clip) == ClipReasons(clip) = {}

(* The prototypes of an entry: a clip posted n times is there n times.       *)
PrototypesOf(entry) == UNION {{c} \X (1 .. entry.prototypes[c]) : c \in Clips}
PrototypeCount(entry) == Cardinality(PrototypesOf(entry))

(* What they hold of speech, second by second.                               *)
AcceptedSpeech(prototypes) == UNION {{p} \X (1 .. p[1].speech) : p \in prototypes}

(* _extract_enrollment_embedding: one embedding of the whole upload, never   *)
(* of a separated source.                                                    *)
Extracted == {c \in Clips : c.origin = "clean"}

(* FakeVoiceRegistry.enroll: the entry is there after a rejected clip too,   *)
(* and a clip that is posted again is one more prototype.                    *)
MemoryEnroll(i, clip, name, consent) ==
    LET old == IF memory[i] # None THEN memory[i]
               ELSE [name |-> Or(name, i), consent |-> None,
                     prototypes |-> [c \in Clips |-> 0]]
    IN  memory' = [memory EXCEPT ![i] =
            [name |-> Or(name, old.name),
             consent |-> Or(consent, old.consent),
             prototypes |-> [old.prototypes EXCEPT
                                ![clip] = IF Accepted(clip) THEN @ + 1 ELSE @]]]

(* PgVectorVoiceRegistry.enroll: the row is written over, a template with    *)
(* the hash of an earlier one is not added.                                  *)
DatabaseEnroll(i, clip, name, consent) ==
    /\ rows' = [rows EXCEPT ![i] = [name |-> Or(name, i),
                                    consent |-> Or(consent, "unspecified")]]
    /\ templates' = templates \union (IF Accepted(clip) THEN {<<i, clip>>} ELSE {})

(* prototypes_of.                                                            *)
MemoryPrototypes(i) == {c \in Clips : memory[i].prototypes[c] > 0}
TemplatesOf(i) == {c \in Clips : <<i, c>> \in templates /\ c.model = Model}

(* EnrollmentReport: what an identity has by now, and whether it is enough.  *)
Report(prototypes) ==
    LET count == Cardinality(prototypes)
        speech == Cardinality(AcceptedSpeech(prototypes))
    IN  [prototype_count |-> count, total_speech |-> speech,
         meets_policy |-> count >= MinimumClips /\ speech >= MinimumTotalSpeech]

(* The database has each template once.                                      *)
MemoryReport(i) == Report(PrototypesOf(memory[i]))
DatabaseReport(i) == Report(TemplatesOf(i) \X {1})

-----------------------------------------------------------------------------
(* Identification *)

Decision(status, who, name) == [status |-> status, who |-> who, name |-> name]
Nobody(status) == Decision(status, None, None)

(* The decision on the best score of every identity: nobody below the accept *)
(* threshold, nobody when the runner-up is too close.  Which of two equal    *)
(* scores comes first is left open.                                          *)
Verdict(scores, name) ==
    LET best == Max({scores[i] : i \in DOMAIN scores})
        Close(i) == \E j \in DOMAIN scores \ {i} : best - scores[j] < AmbiguousMargin
        Of(i) == IF best < AcceptThreshold THEN Nobody("unknown")
                 ELSE IF Close(i) THEN Nobody("ambiguous")
                 ELSE Decision("enrolled", i, name[i])
    IN  {Of(i) : i \in {i \in DOMAIN scores : scores[i] = best}}

(* The embedding model of the registry and its calibration come first.       *)
Identify(scores, name, probe) ==
    IF ~ Calibrated THEN {Nobody("uncalibrated")}
    ELSE IF probe.model # Model \/ DOMAIN scores = {} THEN {Nobody("unknown")}
    ELSE Verdict(scores, name)

Best(clips, probe) == Max({Similarity[c.vector, probe.vector] : c \in clips})

(* Entries without a prototype are passed over.                              *)
MemoryIdentify(probe) ==
    LET entries == {i \in Identities : memory[i] # None}
        known == {i \in entries : MemoryPrototypes(i) # {}}
    IN  Identify([i \in known |-> Best(MemoryPrototypes(i), probe)],
                 [i \in entries |-> memory[i].name], probe)

(* The join of templates and identities, grouped by identity.                *)
DatabaseIdentify(probe) ==
    LET joined == {i \in Identities : rows[i] # None /\ TemplatesOf(i) # {}}
    IN  Identify([i \in joined |-> Best(TemplatesOf(i), probe)],
                 [i \in joined |-> rows[i].name], probe)

-----------------------------------------------------------------------------
(* Deletion *)

MemoryDelete(i) == memory' = [memory EXCEPT ![i] = None]

(* Mutant: the templates stay when their identity goes.                      *)
DatabaseDeleteRowOnly(i) ==
    /\ rows' = [rows EXCEPT ![i] = None]
    /\ UNCHANGED templates

(* ON DELETE CASCADE takes the templates.                                    *)
DatabaseDelete(i) ==
    /\ rows' = [rows EXCEPT ![i] = None]
    /\ templates' = {t \in templates : t[1] # i}

-----------------------------------------------------------------------------
(* The routes *)

(* POST /v1/voice-identities; an ID that exists is answered with 409.        *)
CreateVoiceIdentity(i, name, consent) ==
    /\ metadata[i] = None
    /\ metadata' = [metadata EXCEPT ![i] = [name |-> name, consent |-> consent]]
    /\ UNCHANGED <<memory, rows, templates>>

Prototypes ==
    MapThenSumSet(LAMBDA i : PrototypeCount(memory[i]), {i \in Identities : memory[i] # None})

(* Mutant: the consent of the request is not written down.                   *)
EnrollForgetsConsent(i, given, clip) ==
    /\ metadata[i] # None
    /\ Prototypes < MaxPrototypes
    /\ LET consent == Or(given, metadata[i].consent)
       IN  /\ consent # None
           /\ MemoryEnroll(i, clip, metadata[i].name, consent)
           /\ DatabaseEnroll(i, clip, metadata[i].name, consent)
           /\ UNCHANGED metadata

(* POST .../enrollments: the consent comes with the request or was given     *)
(* before.  An extraction that raises changes nothing.                       *)
EnrollVoiceIdentity(i, given, clip) ==
    /\ metadata[i] # None
    /\ Prototypes < MaxPrototypes
    /\ LET consent == Or(given, metadata[i].consent)
       IN  /\ consent # None
           /\ MemoryEnroll(i, clip, metadata[i].name, consent)
           /\ DatabaseEnroll(i, clip, metadata[i].name, consent)
           /\ metadata' = [metadata EXCEPT ![i].consent = consent]

(* Mutant: the metadata go, the registry keeps the person.                   *)
DeleteMetadataOnly(i) ==
    /\ metadata[i] # None
    /\ metadata' = [metadata EXCEPT ![i] = None]
    /\ UNCHANGED <<memory, rows, templates>>

(* DELETE /v1/voice-identities/{id}: the registry first, then the metadata.  *)
DeleteVoiceIdentity(i) ==
    /\ metadata[i] # None
    /\ MemoryDelete(i)
    /\ DatabaseDelete(i)
    /\ metadata' = [metadata EXCEPT ![i] = None]

(* GET /v1/voice-identities/{id}, for an identity the API knows.             *)
VoiceIdentityView(i) ==
    [display_name |-> metadata[i].name,
     prototype_count |-> IF memory[i] = None THEN 0 ELSE PrototypeCount(memory[i]),
     consent_ref_present |-> metadata[i].consent # None]

RegistryNext ==
    \E i \in Identities :
        \/ \E n \in Names, c \in Consents \union {None} : CreateVoiceIdentity(i, n, c)
        \/ \E c \in Consents \union {None}, clip \in Extracted : EnrollVoiceIdentity(i, c, clip)
        \/ DeleteVoiceIdentity(i)

-----------------------------------------------------------------------------
RegistryTypeOK ==
    /\ metadata \in [Identities -> Metadata \union {None}]
    /\ memory \in [Identities -> Entry \union {None}]
    /\ rows \in [Identities -> Row \union {None}]
    /\ templates \subseteq Identities \X Clips

(* The backends answer every probe alike, after any enrollments, re-posted   *)
(* clips and deletions: "behaviour does not change with the backend"         *)
(* (pgvector_registry.py, module docstring).                                 *)
SameDecisions == \A p \in Probes : MemoryIdentify(p) = DatabaseIdentify(p)

(* A person is recognised only as an identity the API shows, under the name  *)
(* it shows now, with a template and a consent; also after the identity was  *)
(* deleted and created again under another name.                             *)
NamesCurrent ==
    \A p \in Probes : \A d \in MemoryIdentify(p) \union DatabaseIdentify(p) :
        d.status = "enrolled" =>
            /\ metadata[d.who] # None
            /\ LET view == VoiceIdentityView(d.who)
               IN  /\ view.display_name = d.name
                   /\ view.prototype_count > 0
                   /\ view.consent_ref_present

(* Whoever has an entry in a registry has given a consent, and it is the one *)
(* the API holds: a later enrollment without a consent reference cannot fall *)
(* back to an older one.                                                     *)
ConsentKept ==
    \A i \in Identities :
        /\ memory[i] # None =>
              metadata[i] # None /\ memory[i].consent = metadata[i].consent
        /\ rows[i] # None =>
              metadata[i] # None /\ rows[i].consent = metadata[i].consent

(* A clip that is posted again counts in memory and not in the database: the *)
(* database never reports more for an identity than the memory does, so that *)
(* who meets the policy there meets it here.                                 *)
PolicyNoStricter ==
    \A i \in Identities :
        rows[i] # None =>
            /\ memory[i] # None
            /\ DatabaseReport(i).prototype_count <= MemoryReport(i).prototype_count
            /\ DatabaseReport(i).total_speech <= MemoryReport(i).total_speech
            /\ DatabaseReport(i).meets_policy => MemoryReport(i).meets_policy
=============================================================================
