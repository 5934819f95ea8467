---------------------------- MODULE LocalService -----------------------------
(***************************************************************************)
(* The API process without a task queue (api/http.py): POST /v1/jobs runs   *)
(* the pipeline inside the request, the inputs of the newest jobs are kept  *)
(* in memory for playback, and the results name the people of the voice     *)
(* registry.  No handler awaits, so the event loop runs each one alone and  *)
(* a request is one step, whatever it raises.                               *)
(*                                                                         *)
(* create_or_get makes one job per idempotency key (module JobPipeline has  *)
(* the path through the queue), so that a key stands for its job.           *)
(***************************************************************************)
EXTENDS VoiceRegistry, Sequences

CONSTANTS
    Keys,           \* idempotency keys, and the jobs
    Inputs,         \* uploads, by hash
    SpeakersIn,     \* the prototypes of the speakers found in an upload
    MaxRetained     \* MAX_RETAINED_JOB_AUDIO

ASSUME InputAssumption == SpeakersIn \in [Inputs -> SUBSET Probes]
ASSUME RetainedAssumption == MaxRetained \in Nat \ {0}

VARIABLES
    jobs,        \* the job store
    results,     \* results: the decisions of Voice ID in the transcript
    retained,    \* job_audio_keys, in the order of the dict
    objects,     \* the in-memory object store: whose input it holds
    previews     \* job_audio_previews

jobVars == <<jobs, results, retained, objects, previews>>
vars == <<registryVars, jobVars>>

States == {"PREPROCESSING", "SUCCEEDED", "DEGRADED_SUCCEEDED", "FAILED", "CANCELLED"}
Terminal == {"SUCCEEDED", "DEGRADED_SUCCEEDED", "FAILED", "CANCELLED"}

(* A job with its number in the order of creation and, for the properties,   *)
(* whether it was deleted.                                                   *)
Job == [input : Inputs, state : States, number : Nat, deleted : BOOLEAN]

ASSUME JobAssumption == None \notin Job

Init ==
    /\ RegistryInit
    /\ jobs = [k \in Keys |-> None]
    /\ results = [k \in Keys |-> None]
    /\ retained = <<>>
    /\ objects = {}
    /\ previews = {}

Elements(list) == {list[n] : n \in 1 .. Len(list)}

-----------------------------------------------------------------------------
(* Retention *)

(* What _retain_job_audio evicts, oldest first, once the new job is in, and  *)
(* what it keeps.                                                            *)
Excess(list) == IF Len(list) > MaxRetained THEN Len(list) - MaxRetained ELSE 0
Evicted(list) == {list[n] : n \in 1 .. Excess(list)}
Newest(list) == SubSeq(list, Excess(list) + 1, Len(list))

(* job_audio_keys.pop(k, None): the others keep their order.                 *)
Without(list, k) ==
    LET at == CHOOSE n \in 1 .. Len(list) : list[n] = k
    IN  IF k \in Elements(list)
        THEN [n \in 1 .. Len(list) - 1 |-> IF n < at THEN list[n] ELSE list[n + 1]]
        ELSE list

(* Mutant: previews of evicted inputs stay until the next job.               *)
RetainPrunesFirst(k) ==
    LET list == Append(retained, k)
    IN  /\ retained' = Newest(list)
        /\ objects' = (objects \union {k}) \ Evicted(list)
        /\ previews' = previews \intersect Elements(list)

RetainJobAudio(k) ==
    LET list == Append(retained, k)
    IN  /\ retained' = Newest(list)
        /\ objects' = (objects \union {k}) \ Evicted(list)
        /\ previews' = previews \intersect Elements(retained')

-----------------------------------------------------------------------------
(* Jobs *)

(* Mutant: a key that is known starts a job again.                           *)
CreatesAgain(k, input) == jobs[k] # None => jobs[k].input = input

(* create_or_get: a known key returns its job, or raises for another input.  *)
Creates(k, input) == jobs[k] = None

Number == Cardinality({k \in Keys : jobs[k] # None}) + 1

(* Voice ID over the speakers of a run, each with one of the decisions the   *)
(* registry may come to.                                                     *)
Identified(input) ==
    {d \in [SpeakersIn[input] -> UNION {MemoryIdentify(p) : p \in SpeakersIn[input]}] :
        \A p \in SpeakersIn[input] : d[p] \in MemoryIdentify(p)}

(* _run_job: the result is stored and the job ends in its state.             *)
RunSucceeds(k, input, state) ==
    /\ \E d \in Identified(input) : results' = [results EXCEPT ![k] = d]
    /\ jobs' = [jobs EXCEPT ![k] = [input |-> input, state |-> state, number |-> Number,
                                    deleted |-> FALSE]]

(* A SasttError fails the job.  Any other exception leaves it as it is, in   *)
(* PREPROCESSING; either way the request is answered with an error.          *)
RunRaises(k, input, state) ==
    /\ jobs' = [jobs EXCEPT ![k] = [input |-> input, state |-> state, number |-> Number,
                                    deleted |-> FALSE]]
    /\ UNCHANGED results

(* POST /v1/jobs.                                                            *)
CreateJob(k, input) ==
    /\ Creates(k, input)
    /\ RetainJobAudio(k)
    /\ \/ \E state \in {"SUCCEEDED", "DEGRADED_SUCCEEDED"} : RunSucceeds(k, input, state)
       \/ \E state \in {"FAILED", "PREPROCESSING"} : RunRaises(k, input, state)
    /\ UNCHANGED registryVars

(* GET /v1/jobs/{id} and .../result; None is the answer 409, not finished,   *)
(* which a job gets again once it is deleted.                                *)
JobView(k) ==
    [state |-> jobs[k].state,
     degraded_mode |-> results[k] # None /\ jobs[k].state = "DEGRADED_SUCCEEDED"]

GetJobResult(k) == results[k]

(* GET /v1/jobs/{id}/audio?preview=1, when ffmpeg makes a preview.           *)
GetJobAudioPreview(k) ==
    /\ jobs[k] # None
    /\ k \in objects
    /\ previews' = previews \union {k}
    /\ UNCHANGED <<registryVars, jobs, results, retained, objects>>

(* DELETE /v1/jobs/{id}: the record stays, and a job that did not end is     *)
(* cancelled.                                                                *)
DeleteJob(k) ==
    /\ jobs[k] # None
    /\ results' = [results EXCEPT ![k] = None]
    /\ retained' = Without(retained, k)
    /\ previews' = previews \ {k}
    /\ objects' = IF k \in Elements(retained) THEN objects \ {k} ELSE objects
    /\ jobs' = [jobs EXCEPT ![k].deleted = TRUE,
                            ![k].state = IF @ \in Terminal THEN @ ELSE "CANCELLED"]
    /\ UNCHANGED registryVars

Next ==
    \/ RegistryNext /\ UNCHANGED jobVars
    \/ \E k \in Keys : \/ \E input \in Inputs : CreateJob(k, input)
                       \/ GetJobAudioPreview(k)
                       \/ DeleteJob(k)

Spec == Init /\ [][Next]_vars

-----------------------------------------------------------------------------
(* Every variable keeps its type.                                            *)
TypeOK ==
    /\ RegistryTypeOK
    /\ jobs \in [Keys -> Job \union {None}]
    /\ Elements(retained) \subseteq Keys
    /\ objects \subseteq Keys
    /\ previews \subseteq Keys

(* The inputs the process holds are those it can find again, never more than *)
(* the bound, and among them every one of the newest jobs that was not       *)
(* deleted ("every job still listed is still playable", api/http.py); and a  *)
(* preview "must never outlive the input it came from" (_retain_job_audio).  *)
AudioAccounted ==
    /\ objects = Elements(retained)
    /\ Cardinality(objects) <= MaxRetained
    /\ \A k \in Keys :
          jobs[k] # None /\ jobs[k].number > Number - 1 - MaxRetained /\ ~ jobs[k].deleted
              => k \in objects
    /\ previews \subseteq objects

(* A job runs once, however often its key is posted and whatever the run     *)
(* raised: what the API shows of it changes by its deletion only, which      *)
(* takes the transcript for good, and cancels a job that was left in         *)
(* PREPROCESSING.                                                            *)
RunOnce ==
    [][\A k \in Keys : jobs[k] # None =>
          /\ GetJobResult(k)' \in {GetJobResult(k), None}
          /\ JobView(k)' # JobView(k) => jobs'[k].deleted
          /\ JobView(k)'.state # JobView(k).state =>
                jobs[k].state = "PREPROCESSING" /\ jobs'[k].state = "CANCELLED"]_vars
=============================================================================
