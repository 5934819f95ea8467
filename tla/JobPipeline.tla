----------------------------- MODULE JobPipeline -----------------------------
(***************************************************************************)
(* The batch job path with the queue runner: the API process (api/http.py), *)
(* the Redis task queue (adapters/queue/redis_queue.py), the worker         *)
(* processes (workers/offline_worker.py), the PostgreSQL job store          *)
(* (adapters/persistence/postgres.py) and the audio object store.           *)
(*                                                                         *)
(* The API runs one handler at a time (its handlers never await between     *)
(* their store calls) but interleaves with the workers at every store call, *)
(* and any process can die between two of its calls.  PostgresJobStore      *)
(* .update_state is two of them: a SELECT checked by JobRecord.transition,  *)
(* then an UPDATE that writes the record it read.                           *)
(*                                                                         *)
(* A job stands for its (tenant, idempotency key); the unique index makes   *)
(* the two the same thing.  A Redis list is a sequence, oldest task first.  *)
(***************************************************************************)
EXTENDS Integers, Sequences, FiniteSets

CONSTANTS
    Jobs,          \* (tenant, idempotency key) pairs clients submit
    NoJob,         \* what an idle process is working on
    Workers,       \* consumer names
    Stages,        \* job states _report_stage announces, in order
    MaxAttempts,   \* max_attempts of RedisTaskQueue.retry
    MaxDepth,      \* max_depth of the queue
    Deletable,     \* jobs whose client may call DELETE
    Faulty,        \* who may crash or lose a store call: "api" and workers
    MaxFaults      \* bound: crashes and failing store calls in one behaviour

Terminal == {"SUCCEEDED", "DEGRADED_SUCCEEDED", "FAILED", "CANCELLED"}
Running == {"PREPROCESSING", "DIARIZING", "TRANSCRIBING", "SEPARATING", "LINKING", "FUSING"}
JobState == {"absent", "QUEUED"} \union Running \union Terminal

ASSUME StagesAssumption == Stages \in Seq(Running) /\ Stages # <<>>
ASSUME BoundsAssumption ==
    /\ MaxAttempts \in Nat \ {0}
    /\ MaxDepth \in Nat
    /\ MaxFaults \in Nat
ASSUME NoJobAssumption == NoJob \notin Jobs
ASSUME SetsAssumption == Deletable \subseteq Jobs /\ Faulty \subseteq Workers \union {"api"}

Final == Len(Stages) + 1        \* the update_state after save_result

Task == [job : Jobs, attempts : 0 .. MaxAttempts]
Record == [state : JobState, error : BOOLEAN]

VARIABLES
    db,          \* the jobs table: state and error_code of each job
    results,     \* jobs with rows in transcript_segments
    objects,     \* jobs whose input audio is in the object store
    queue,       \* the Redis list of speaker.batch
    processing,  \* the processing list of each consumer
    dead,        \* the dead list
    audioKeys,   \* AppState.job_audio_keys, in the memory of the API
    api,         \* the API handler under way
    worker,      \* what each worker is doing
    faults       \* crashes and store failures so far

stores == <<db, results, objects>>
redis == <<queue, processing, dead>>
vars == <<stores, redis, audioKeys, api, worker, faults>>

ApiPc == {"idle", "put", "enqueue", "refuse", "cancel_read", "cancel_write"}
WorkerPc == {"down", "recover", "recover_push", "idle", "load", "read", "write", "save",
             "ack", "raised", "repush", "fail_error", "fail_read", "fail_write"}

NoRecord == [state |-> "absent", error |-> FALSE]
NoTask == [job |-> NoJob, attempts |-> 0]

(* A handler that has returned, and a process that handles no task.           *)
ApiResting == [pc |-> "idle", job |-> NoJob, read |-> NoRecord]
Resting(pc) == [pc |-> pc, task |-> NoTask, stage |-> 1, read |-> NoRecord]

Init ==
    /\ db = [j \in Jobs |-> NoRecord]
    /\ results = {}
    /\ objects = {}
    /\ queue = <<>>
    /\ processing = [w \in Workers |-> <<>>]
    /\ dead = <<>>
    /\ audioKeys = {}
    /\ api = ApiResting
    /\ worker = [w \in Workers |-> Resting("down")]
    /\ faults = 0

(* Mutant: the terminal guard is dropped.                                    *)
MayEnterAlways(record, state) == TRUE

(* JobRecord.transition: a terminal job only accepts the state it is in.     *)
MayEnter(record, state) == record.state \in Terminal => record.state = state

(* One more crash or failing store call.                                      *)
Fault(who) ==
    /\ who \in Faulty
    /\ faults < MaxFaults
    /\ faults' = faults + 1

-----------------------------------------------------------------------------
(* POST /v1/jobs *)

ApiAt(pc) == api.pc = pc
ApiGoes(pc) == api' = [api EXCEPT !.pc = pc]
ApiReturns == api' = ApiResting

(* create_or_get inserts the job; the handler goes on to store its audio.    *)
Submit(j) ==
    /\ ApiAt("idle")
    /\ db[j].state = "absent"
    /\ db' = [db EXCEPT ![j].state = "QUEUED"]
    /\ api' = [api EXCEPT !.pc = "put", !.job = j]
    /\ UNCHANGED <<results, objects, redis, audioKeys, worker, faults>>

(* A retried POST finds the job and does no more (409 on another input).     *)
Resubmit(j) ==
    /\ ApiAt("idle")
    /\ db[j].state # "absent"
    /\ UNCHANGED vars

(* _retain_job_audio *)
PutAudio ==
    /\ ApiAt("put")
    /\ objects' = objects \union {api.job}
    /\ audioKeys' = audioKeys \union {api.job}
    /\ ApiGoes("enqueue")
    /\ UNCHANGED <<db, results, redis, worker, faults>>

Enqueue ==
    /\ ApiAt("enqueue")
    /\ IF Len(queue) >= MaxDepth
       THEN ApiGoes("refuse") /\ UNCHANGED queue
       ELSE /\ queue' = Append(queue, [job |-> api.job, attempts |-> 0])
            /\ ApiReturns
    /\ UNCHANGED <<stores, processing, dead, audioKeys, worker, faults>>

(* Mutant: the refused job is not cancelled.                                 *)
RefuseWithoutCancel ==
    /\ ApiAt("refuse")
    /\ objects' = objects \ {api.job}
    /\ audioKeys' = audioKeys \ {api.job}
    /\ ApiReturns
    /\ UNCHANGED <<db, results, redis, worker, faults>>

(* QueueOverloadedError: drop the audio, then cancel the job.                *)
Refuse ==
    /\ ApiAt("refuse")
    /\ objects' = objects \ {api.job}
    /\ audioKeys' = audioKeys \ {api.job}
    /\ ApiGoes("cancel_read")
    /\ UNCHANGED <<db, results, redis, worker, faults>>

(* A store raises something the handler does not catch: it ends where it is. *)
StoreFails ==
    /\ ~ ApiAt("idle")
    /\ Fault("api")
    /\ ApiReturns
    /\ UNCHANGED <<stores, redis, audioKeys, worker>>

(* Mutant: only the key is forgotten, the object stays.                      *)
DeleteForgetsKey(j) ==
    /\ ApiAt("idle")
    /\ j \in Deletable
    /\ db[j].state # "absent"
    /\ audioKeys' = audioKeys \ {j}
    /\ IF db[j].state \in Terminal
       THEN ApiReturns
       ELSE api' = [api EXCEPT !.pc = "cancel_read", !.job = j]
    /\ UNCHANGED <<stores, redis, worker, faults>>

(* DELETE /v1/jobs/{id}: only audio this process remembers is deleted.       *)
Delete(j) ==
    /\ ApiAt("idle")
    /\ j \in Deletable
    /\ db[j].state # "absent"
    /\ audioKeys' = audioKeys \ {j}
    /\ objects' = IF j \in audioKeys THEN objects \ {j} ELSE objects
    /\ IF db[j].state \in Terminal
       THEN ApiReturns
       ELSE api' = [api EXCEPT !.pc = "cancel_read", !.job = j]
    /\ UNCHANGED <<db, results, redis, worker, faults>>

(* update_state(CANCELLED), first the SELECT and the guard, ...              *)
CancelRead ==
    /\ ApiAt("cancel_read")
    /\ IF MayEnter(db[api.job], "CANCELLED")
       THEN api' = [api EXCEPT !.pc = "cancel_write", !.read = db[api.job]]
       ELSE ApiReturns
    /\ UNCHANGED <<stores, redis, audioKeys, worker, faults>>

(* ... then the UPDATE of every column of the record that was read.          *)
CancelWrite ==
    /\ ApiAt("cancel_write")
    /\ db' = [db EXCEPT ![api.job] = [api.read EXCEPT !.state = "CANCELLED"]]
    /\ ApiReturns
    /\ UNCHANGED <<results, objects, redis, audioKeys, worker, faults>>

(* The API dies and comes back: the handler and job_audio_keys are gone.     *)
ApiRestart ==
    /\ Fault("api")
    /\ audioKeys' = {}
    /\ ApiReturns
    /\ UNCHANGED <<stores, redis, worker>>

Api ==
    \/ PutAudio
    \/ Enqueue
    \/ Refuse
    \/ CancelRead
    \/ CancelWrite

-----------------------------------------------------------------------------
(* A worker process *)

At(w, pc) == worker[w].pc = pc
Goes(w, pc) == worker' = [worker EXCEPT ![w].pc = pc, ![w].read = NoRecord]
Rests(w, pc) == worker' = [worker EXCEPT ![w] = Resting(pc)]
Job(w) == worker[w].task.job

(* lrem key 1 value: the first element equal to the task goes.               *)
Lrem(list, task) ==
    LET hits == {i \in DOMAIN list : list[i] = task}
        at == CHOOSE i \in hits : \A k \in hits : i <= k
    IN  IF hits = {} THEN list
        ELSE [k \in 1 .. Len(list) - 1 |-> IF k < at THEN list[k] ELSE list[k + 1]]

Start(w) ==
    /\ At(w, "down")
    /\ Rests(w, "recover")
    /\ UNCHANGED <<stores, redis, audioKeys, api, faults>>

(* Mutant: the stale task is read but stays on the processing list.          *)
RecoverPeek(w) ==
    /\ At(w, "recover")
    /\ IF processing[w] = <<>>
       THEN Rests(w, "idle")
       ELSE worker' = [worker EXCEPT ![w].pc = "recover_push",
                                     ![w].task = Head(processing[w])]
    /\ UNCHANGED <<stores, redis, audioKeys, api, faults>>

(* requeue_stale pops the oldest task an earlier incarnation was holding.    *)
RecoverPop(w) ==
    /\ At(w, "recover")
    /\ IF processing[w] = <<>>
       THEN Rests(w, "idle") /\ UNCHANGED processing
       ELSE /\ worker' = [worker EXCEPT ![w].pc = "recover_push",
                                        ![w].task = Head(processing[w])]
            /\ processing' = [processing EXCEPT ![w] = Tail(@)]
    /\ UNCHANGED <<stores, queue, dead, audioKeys, api, faults>>

(* Past the visibility timeout: back to the queue, and look at the next one. *)
RecoverExpired(w) ==
    /\ At(w, "recover_push")
    /\ queue' = Append(queue, worker[w].task)
    /\ Rests(w, "recover")
    /\ UNCHANGED <<stores, processing, dead, audioKeys, api, faults>>

(* Within its lease: put back untouched, and stop looking.                   *)
RecoverLeased(w) ==
    /\ At(w, "recover_push")
    /\ processing' = [processing EXCEPT ![w] = Append(@, worker[w].task)]
    /\ Rests(w, "idle")
    /\ UNCHANGED <<stores, queue, dead, audioKeys, api, faults>>

(* rpoplpush moves the oldest task to the processing list in one command.    *)
Reserve(w) ==
    /\ At(w, "idle")
    /\ queue # <<>>
    /\ queue' = Tail(queue)
    /\ processing' = [processing EXCEPT ![w] = Append(@, Head(queue))]
    /\ worker' = [worker EXCEPT ![w].pc = "load", ![w].task = Head(queue)]
    /\ UNCHANGED <<stores, dead, audioKeys, api, faults>>

(* _load_audio raises when the object is gone.                               *)
Load(w) ==
    /\ At(w, "load")
    /\ worker' = [worker EXCEPT ![w].pc = IF Job(w) \in objects THEN "read" ELSE "raised",
                                ![w].stage = 1]
    /\ UNCHANGED <<stores, redis, audioKeys, api, faults>>

(* The state the next update_state asks for; the last one is the outcome.    *)
Targets(stage) ==
    IF stage = Final THEN {"SUCCEEDED", "DEGRADED_SUCCEEDED"} ELSE {Stages[stage]}

UpdateRead(w) ==
    /\ At(w, "read")
    /\ \E state \in Targets(worker[w].stage) :
          IF MayEnter(db[Job(w)], state)
          THEN worker' = [worker EXCEPT ![w].pc = "write",
                                        ![w].read = [db[Job(w)] EXCEPT !.state = state]]
          ELSE Goes(w, "raised")
    /\ UNCHANGED <<stores, redis, audioKeys, api, faults>>

(* SEPARATING is reported only when there are overlap regions.               *)
Following(stage) ==
    {stage + 1}
        \union {i \in {stage + 2} : stage < Len(Stages) /\ Stages[stage + 1] = "SEPARATING"}

(* Mutant: the outcome is announced before the segments are saved.           *)
UpdateWriteSkipsSave(w) ==
    /\ At(w, "write")
    /\ db' = [db EXCEPT ![Job(w)] = worker[w].read]
    /\ IF worker[w].stage = Final
       THEN Goes(w, "ack")
       ELSE \E next \in Following(worker[w].stage) :
               worker' = [worker EXCEPT ![w].stage = next, ![w].read = NoRecord,
                                        ![w].pc = "read"]
    /\ UNCHANGED <<results, objects, redis, audioKeys, api, faults>>

UpdateWrite(w) ==
    /\ At(w, "write")
    /\ db' = [db EXCEPT ![Job(w)] = worker[w].read]
    /\ IF worker[w].stage = Final
       THEN Goes(w, "ack")
       ELSE \E next \in Following(worker[w].stage) :
               worker' = [worker EXCEPT ![w].stage = next,
                                        ![w].read = NoRecord,
                                        ![w].pc = IF next = Final THEN "save" ELSE "read"]
    /\ UNCHANGED <<results, objects, redis, audioKeys, api, faults>>

(* A model, a timeout, the audio itself or a store call makes handle raise.  *)
HandleRaises(w) ==
    /\ worker[w].pc \in {"read", "write", "save"}
    /\ Goes(w, "raised")
    /\ UNCHANGED <<stores, redis, audioKeys, api, faults>>

(* save_result replaces the segments in one transaction, in any job state.   *)
SaveResult(w) ==
    /\ At(w, "save")
    /\ results' = results \union {Job(w)}
    /\ Goes(w, "read")
    /\ UNCHANGED <<db, objects, redis, audioKeys, api, faults>>

Ack(w) ==
    /\ At(w, "ack")
    /\ processing' = [processing EXCEPT ![w] = Lrem(@, worker[w].task)]
    /\ Rests(w, "idle")
    /\ UNCHANGED <<stores, queue, dead, audioKeys, api, faults>>

(* Mutant: a failed task is pushed again without being acknowledged.         *)
RetryWithoutAck(w) ==
    /\ At(w, "raised")
    /\ Goes(w, "repush")
    /\ UNCHANGED <<stores, redis, audioKeys, api, faults>>

(* retry: acknowledge first, ...                                             *)
RetryAck(w) ==
    /\ At(w, "raised")
    /\ processing' = [processing EXCEPT ![w] = Lrem(@, worker[w].task)]
    /\ Goes(w, "repush")
    /\ UNCHANGED <<stores, queue, dead, audioKeys, api, faults>>

(* Mutant: > for >=, one attempt too many.                                   *)
RepushOnceMore(w) ==
    LET again == [worker[w].task EXCEPT !.attempts = @ + 1]
    IN  /\ At(w, "repush")
        /\ IF again.attempts > MaxAttempts
           THEN /\ dead' = Append(dead, again)
                /\ Goes(w, "fail_error")
                /\ UNCHANGED queue
           ELSE /\ queue' = Append(queue, again)
                /\ Rests(w, "idle")
                /\ UNCHANGED dead
        /\ UNCHANGED <<stores, processing, audioKeys, api, faults>>

(* Mutant: the attempt is not counted, the task is retried for ever.         *)
RepushUncounted(w) ==
    /\ At(w, "repush")
    /\ queue' = Append(queue, worker[w].task)
    /\ Rests(w, "idle")
    /\ UNCHANGED <<stores, processing, dead, audioKeys, api, faults>>

(* Mutant: a task out of attempts is dropped instead of parked.              *)
RepushDrops(w) ==
    LET again == [worker[w].task EXCEPT !.attempts = @ + 1]
    IN  /\ At(w, "repush")
        /\ IF again.attempts >= MaxAttempts
           THEN Goes(w, "fail_error") /\ UNCHANGED queue
           ELSE queue' = Append(queue, again) /\ Rests(w, "idle")
        /\ UNCHANGED <<stores, processing, dead, audioKeys, api, faults>>

(* ... then push the task again, or park it on the dead list.                *)
Repush(w) ==
    LET again == [worker[w].task EXCEPT !.attempts = @ + 1]
    IN  /\ At(w, "repush")
        /\ IF again.attempts >= MaxAttempts
           THEN /\ dead' = Append(dead, again)
                /\ Goes(w, "fail_error")
                /\ UNCHANGED queue
           ELSE /\ queue' = Append(queue, again)
                /\ Rests(w, "idle")
                /\ UNCHANGED dead
        /\ UNCHANGED <<stores, processing, audioKeys, api, faults>>

(* _fail_job: set_error, then update_state(FAILED); its errors are swallowed.*)
FailError(w) ==
    /\ At(w, "fail_error")
    /\ db' = [db EXCEPT ![Job(w)].error = TRUE]
    /\ Goes(w, "fail_read")
    /\ UNCHANGED <<results, objects, redis, audioKeys, api, faults>>

FailRead(w) ==
    /\ At(w, "fail_read")
    /\ IF MayEnter(db[Job(w)], "FAILED")
       THEN worker' = [worker EXCEPT ![w].pc = "fail_write",
                                     ![w].read = [db[Job(w)] EXCEPT !.state = "FAILED"]]
       ELSE Rests(w, "idle")
    /\ UNCHANGED <<stores, redis, audioKeys, api, faults>>

FailWrite(w) ==
    /\ At(w, "fail_write")
    /\ db' = [db EXCEPT ![Job(w)] = worker[w].read]
    /\ Rests(w, "idle")
    /\ UNCHANGED <<results, objects, redis, audioKeys, api, faults>>

(* A store call of _fail_job raises: the error is logged, the job left as is.*)
FailSwallowed(w) ==
    /\ worker[w].pc \in {"fail_error", "fail_read", "fail_write"}
    /\ Fault(w)
    /\ Rests(w, "idle")
    /\ UNCHANGED <<stores, redis, audioKeys, api>>

(* The process dies; what it held in memory is gone.                         *)
WorkerCrash(w) ==
    /\ ~ At(w, "down")
    /\ Fault(w)
    /\ Rests(w, "down")
    /\ UNCHANGED <<stores, redis, audioKeys, api>>

Work(w) ==
    \/ Start(w)
    \/ RecoverPop(w)
    \/ RecoverExpired(w)
    \/ RecoverLeased(w)
    \/ Reserve(w)
    \/ Load(w)
    \/ UpdateRead(w)
    \/ UpdateWrite(w)
    \/ HandleRaises(w)
    \/ SaveResult(w)
    \/ Ack(w)
    \/ RetryAck(w)
    \/ Repush(w)
    \/ FailError(w)
    \/ FailRead(w)
    \/ FailWrite(w)

-----------------------------------------------------------------------------
Next ==
    \/ \E j \in Jobs : Submit(j) \/ Resubmit(j) \/ Delete(j)
    \/ Api
    \/ StoreFails
    \/ ApiRestart
    \/ \E w \in Workers : Work(w) \/ FailSwallowed(w) \/ WorkerCrash(w)

Spec == Init /\ [][Next]_vars

(* A handler that has started goes on, and so does a worker process.         *)
FairSpec ==
    /\ Spec
    /\ WF_vars(Api)
    /\ \A w \in Workers : WF_vars(Work(w))

-----------------------------------------------------------------------------
(* Properties *)

(* The pcs of a worker that holds a task.                                    *)
Busy(w) == worker[w].pc \notin {"down", "recover", "idle"}

(* A task with an attempt left; retry counts the attempt on the copy it      *)
(* pushes.                                                                   *)
HeldTask == [job : Jobs, attempts : 0 .. MaxAttempts - 1]

WorkerRecord ==
    [pc : WorkerPc, task : Task \union {NoTask}, stage : 1 .. Final, read : Record]

StoresTypeOK ==
    /\ db \in [Jobs -> Record]
    /\ results \subseteq Jobs
    /\ objects \subseteq Jobs
    /\ audioKeys \subseteq Jobs
    /\ faults \in 0 .. MaxFaults

RedisTypeOK ==
    /\ queue \in Seq(HeldTask)
    /\ processing \in [Workers -> Seq(HeldTask)]
    /\ dead \in Seq(Task)

ApiTypeOK ==
    /\ api \in [pc : ApiPc, job : Jobs \union {NoJob}, read : Record]
    /\ ~ ApiAt("idle") => api.job \in Jobs

WorkersTypeOK ==
    /\ worker \in [Workers -> WorkerRecord]
    /\ \A w \in Workers : Busy(w) => worker[w].task \in HeldTask

(* Every variable keeps its type, a process that is not idle has a job, and  *)
(* no list but the dead one holds a task without an attempt left.            *)
TypeOK ==
    /\ StoresTypeOK
    /\ RedisTypeOK
    /\ ApiTypeOK
    /\ WorkersTypeOK

Places(list, j) == {i \in DOMAIN list : list[i].job = j}

(* A worker between popping a task and pushing it again is its only holder.  *)
Carries(w, j) == worker[w].pc \in {"recover_push", "repush"} /\ Job(w) = j

(* The workers inside handle, or about to retry or acknowledge its task.     *)
Handles(w) == worker[w].pc \in {"load", "read", "write", "save", "ack", "raised"}

(* reserve, retry and requeue_stale never make a second copy of a task: a    *)
(* job is in one list or one worker's hand, and a task being handled is on   *)
(* the processing list of its worker.  With both, no two processes ever      *)
(* transcribe the same job, whatever crashes in between.                     *)
SingleDelivery ==
    /\ \A j \in Jobs :
          Cardinality(Places(queue, j)) + Cardinality(Places(dead, j))
            + Cardinality(UNION {{w} \X Places(processing[w], j) : w \in Workers})
            + Cardinality({w \in Workers : Carries(w, j)}) <= 1
    /\ \A w \in Workers :
          Handles(w) => \E i \in DOMAIN processing[w] : processing[w][i] = worker[w].task

(* A job reported as successful has its segments in the store, even when     *)
(* cancellations and redeliveries overwrite its state from stale reads.      *)
SuccessHasResult ==
    \A j \in Jobs : db[j].state \in {"SUCCEEDED", "DEGRADED_SUCCEEDED"} => j \in results

(* Why: a worker asks for the final state, or is about to write it, only     *)
(* after save_result, and no other write can carry a successful state.       *)
SavedBeforeSuccess ==
    \A w \in Workers :
        /\ At(w, "read") /\ worker[w].stage = Final => Job(w) \in results
        /\ worker[w].pc \in {"write", "fail_write"}
              /\ worker[w].read.state \in {"SUCCEEDED", "DEGRADED_SUCCEEDED"}
                => Job(w) \in results

(* A FAILED job says why, and its task is parked on the dead list.           *)
FailureExplained ==
    \A j \in Jobs : db[j].state = "FAILED" => db[j].error /\ Places(dead, j) # {}

(* A cancelled job's audio is gone once the handler has answered.            *)
CancelledHasNoAudio ==
    ApiAt("idle") => \A j \in Jobs : db[j].state = "CANCELLED" => j \notin objects

(* Someone is still going to finish the job.                                 *)
Pending(j) ==
    \/ ~ ApiAt("idle") /\ api.job = j
    \/ Places(queue, j) # {}
    \/ \E w \in Workers :
          \/ Places(processing[w], j) # {}
          \/ Job(w) = j /\ worker[w].pc \in
                {"recover_push", "repush", "fail_error", "fail_read", "fail_write"}

(* A task a dying worker held is recoverable: an unfinished job is on a list *)
(* or in the hands of a live process.                                        *)
NoJobStranded ==
    \A j \in Jobs : db[j].state \notin Terminal \union {"absent"} => Pending(j)

(* A terminal job never changes state (JobRecord.transition).                *)
TerminalStable ==
    [][\A j \in Jobs : db[j].state \in Terminal => db'[j].state = db[j].state]_vars

(* Every job that is created is finished, failed or cancelled in the end.    *)
JobsFinish == \A j \in Jobs : db[j].state = "QUEUED" ~> db[j].state \in Terminal

(* The lifecycle the job store promises its clients.                         *)
Lifecycle == INSTANCE JobLifecycle WITH state <- [j \in Jobs |-> db[j].state], stored <- results

(* The job path keeps that promise.                                          *)
LifecycleSpec == Lifecycle!Spec
=============================================================================
