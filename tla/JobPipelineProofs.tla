-------------------------- MODULE JobPipelineProofs --------------------------
(***************************************************************************)
(* Theorems about the job path for any number of jobs and workers, any      *)
(* list of stages, any queue depth, attempt limit and number of faults, in  *)
(* three parts: types, and a result for every success; where the task of a  *)
(* job is, of which there is only one; and what a client may rely on        *)
(* because of that: explained failures, the lifecycle of JobLifecycle, no   *)
(* audio of a cancelled job and no stranded job.                            *)
(***************************************************************************)
EXTENDS JobPipeline, SequenceTheorems, FiniteSetTheorems, TLAPS

-----------------------------------------------------------------------------
(* Lemmas about the operators of the model *)

(* lrem returns a list of tasks when it is given one.                        *)
LEMMA LremType ==
    ASSUME NEW S, NEW list \in Seq(S), NEW task
    PROVE  Lrem(list, task) \in Seq(S)
<1> DEFINE hits == {i \in DOMAIN list : list[i] = task}
<1> DEFINE at == CHOOSE i \in hits : \A k \in hits : i <= k
<1> DEFINE rest == [k \in 1 .. Len(list) - 1 |-> IF k < at THEN list[k] ELSE list[k + 1]]
<1>1. Lrem(list, task) = IF hits = {} THEN list ELSE rest
  BY DEF Lrem
<1>2. CASE hits = {}
  BY <1>1, <1>2
<1>3. CASE hits # {}
  <2>1. Len(list) - 1 \in Nat
    BY <1>3
  <2>2. \A k \in 1 .. Len(list) - 1 : rest[k] \in S
    <3> HIDE DEF at
    <3> QED
      BY ElementOfSeq
  <2>3. rest \in Seq(S)
    <3> HIDE DEF at
    <3> QED
      BY <2>1, <2>2, IsASeq
  <2>4. QED
    BY <1>1, <1>3, <2>3
<1>4. QED
  BY <1>2, <1>3

(* The last update_state comes after at least one reported stage.            *)
LEMMA FinalFacts ==
    /\ Final \in Nat
    /\ Final > 1
    /\ \A stage \in 1 .. Final : Targets(stage) \subseteq JobState
    /\ \A stage \in 1 .. Final : stage # Final => Following(stage) \subseteq 1 .. Final
<1>1. Len(Stages) \in Nat /\ Len(Stages) > 0
  BY StagesAssumption, EmptySeq
<1>2. \A stage \in 1 .. Final : stage # Final => Stages[stage] \in Running
  BY <1>1, StagesAssumption, ElementOfSeq DEF Final
<1>3. \A stage \in 1 .. Final : Targets(stage) \subseteq JobState
  BY <1>2 DEF Targets, JobState, Terminal
<1>4. \A stage \in 1 .. Final : stage # Final => Following(stage) \subseteq 1 .. Final
  BY <1>1 DEF Following, Final
<1>5. QED
  BY <1>1, <1>3, <1>4 DEF Final

(* A stage before the last update_state is a running state.                  *)
LEMMA StageRuns ==
    ASSUME NEW stage \in 1 .. Final, stage # Final
    PROVE  Stages[stage] \in Running
<1>1. Len(Stages) \in Nat
  BY StagesAssumption, LenProperties
<1>2. stage \in 1 .. Len(Stages)
  BY <1>1 DEF Final
<1>3. QED
  BY <1>2, StagesAssumption, ElementOfSeq

-----------------------------------------------------------------------------
(* Type correctness *)

(* The values a process holds while it rests have the types of the variables.*)
LEMMA RestingTypes ==
    /\ NoRecord \in Record
    /\ HeldTask \subseteq Task
    /\ ApiResting \in [pc : ApiPc, job : Jobs \union {NoJob}, read : Record]
    /\ \A pc \in WorkerPc : Resting(pc) \in WorkerRecord
<1>1. NoRecord \in Record
  BY DEF NoRecord, Record, JobState
<1>2. HeldTask \subseteq Task
  BY BoundsAssumption DEF HeldTask, Task
<1>3. ApiResting \in [pc : ApiPc, job : Jobs \union {NoJob}, read : Record]
  BY <1>1 DEF ApiResting, ApiPc
<1>4. \A pc \in WorkerPc : Resting(pc) \in WorkerRecord
  BY <1>1, FinalFacts DEF Resting, WorkerRecord
<1>5. QED
  BY <1>1, <1>2, <1>3, <1>4

(* A worker that comes to rest, or goes on with the task it has, keeps the    *)
(* type of the worker table.                                                 *)
LEMMA WorkerRests ==
    ASSUME WorkersTypeOK, NEW w \in Workers, NEW pc \in {"down", "recover", "idle"},
           Rests(w, pc)
    PROVE  WorkersTypeOK'
  BY RestingTypes DEF WorkersTypeOK, Rests, Resting, Busy, WorkerPc

(* A worker that holds a task works on a job.                                *)
LEMMA BusyJob ==
    ASSUME WorkersTypeOK, NEW w \in Workers, Busy(w)
    PROVE  /\ worker[w] \in WorkerRecord
           /\ worker[w].task \in HeldTask
           /\ Job(w) \in Jobs
           /\ worker[w].read \in Record
           /\ worker[w].stage \in 1 .. Final
<1>1. worker[w] \in WorkerRecord /\ worker[w].task \in HeldTask
  BY DEF WorkersTypeOK
<1>2. QED
  BY <1>1 DEF WorkerRecord, Job, HeldTask

(* The worker table after one worker took a step.                            *)
LEMMA WorkerBecomes ==
    ASSUME WorkersTypeOK, NEW w \in Workers, NEW x \in WorkerRecord, x.task \in HeldTask,
           worker' = [worker EXCEPT ![w] = x]
    PROVE  WorkersTypeOK'
  BY DEF WorkersTypeOK, Busy

(* A worker that takes a task off a list has the type of a busy worker.      *)
LEMMA TakesTask ==
    ASSUME WorkersTypeOK, NEW w \in Workers, NEW pc \in WorkerPc, NEW task \in HeldTask
    PROVE  LET x == [worker[w] EXCEPT !.pc = pc, !.task = task]
           IN  x \in WorkerRecord /\ x.task \in HeldTask
<1>1. worker[w] \in WorkerRecord
  BY DEF WorkersTypeOK
<1>2. task \in Task \union {NoTask}
  BY RestingTypes
<1>3. QED
  BY <1>1, <1>2 DEF WorkerRecord

(* A worker that goes on to another step of the same task keeps the type of *)
(* the worker table.                                                        *)
LEMMA WorkerGoes ==
    ASSUME WorkersTypeOK, NEW w \in Workers, Busy(w), NEW pc \in WorkerPc, Goes(w, pc)
    PROVE  WorkersTypeOK'
<1> DEFINE x == [worker[w] EXCEPT !.pc = pc, !.read = NoRecord]
<1>1. NoRecord \in Record /\ worker[w] \in WorkerRecord /\ worker[w].task \in HeldTask
  BY RestingTypes, BusyJob
<1>2. x \in WorkerRecord /\ x.task \in HeldTask
  BY <1>1 DEF WorkerRecord
<1>3. worker' = [worker EXCEPT ![w] = x]
  BY DEF Goes
<1>4. QED
  BY <1>2, <1>3, WorkerBecomes

(* Before the first submission every variable has its type.                 *)
LEMMA TypeInit == Init => TypeOK
<1> SUFFICES ASSUME Init PROVE TypeOK
  OBVIOUS
<1>1. StoresTypeOK
  BY RestingTypes, BoundsAssumption DEF Init, StoresTypeOK
<1>2. RedisTypeOK
  BY DEF Init, RedisTypeOK
<1>3. ApiTypeOK
  BY RestingTypes DEF Init, ApiTypeOK, ApiAt, ApiResting
<1>4. WorkersTypeOK
  BY RestingTypes DEF Init, WorkersTypeOK, Busy, Resting, WorkerPc
<1>5. QED
  BY <1>1, <1>2, <1>3, <1>4 DEF TypeOK

(* Every step of the API, the workers and the faults keeps the types.        *)
LEMMA TypeStep == TypeOK /\ [Next]_vars => TypeOK'
<1> SUFFICES ASSUME StoresTypeOK, RedisTypeOK, ApiTypeOK, WorkersTypeOK, [Next]_vars
             PROVE  TypeOK'
  BY DEF TypeOK
<1>1. ASSUME NEW j \in Jobs, Submit(j) PROVE TypeOK'
  <2>1. StoresTypeOK'
    BY <1>1 DEF Submit, StoresTypeOK, Record, JobState
  <2>2. RedisTypeOK'
    BY <1>1 DEF Submit, redis, RedisTypeOK
  <2>3. ApiTypeOK'
    BY <1>1 DEF Submit, ApiTypeOK, ApiAt, ApiPc
  <2>4. WorkersTypeOK'
    BY <1>1 DEF Submit, WorkersTypeOK, Busy
  <2>5. QED
    BY <2>1, <2>2, <2>3, <2>4 DEF TypeOK
<1>2. ASSUME NEW j \in Jobs, Resubmit(j) PROVE TypeOK'
  <2>1. StoresTypeOK'
    BY <1>2 DEF Resubmit, vars, stores, redis, StoresTypeOK
  <2>2. RedisTypeOK'
    BY <1>2 DEF Resubmit, vars, stores, redis, RedisTypeOK
  <2>3. ApiTypeOK'
    BY <1>2 DEF Resubmit, vars, stores, redis, ApiTypeOK, ApiAt
  <2>4. WorkersTypeOK'
    BY <1>2 DEF Resubmit, vars, stores, redis, WorkersTypeOK, Busy
  <2>5. QED
    BY <2>1, <2>2, <2>3, <2>4 DEF TypeOK
<1>3. ASSUME NEW j \in Jobs, Delete(j) PROVE TypeOK'
  <2>1. StoresTypeOK'
    BY <1>3 DEF Delete, StoresTypeOK
  <2>2. RedisTypeOK'
    BY <1>3 DEF Delete, redis, RedisTypeOK
  <2>3. ApiTypeOK'
    BY <1>3, RestingTypes DEF Delete, ApiReturns, ApiTypeOK, ApiAt, ApiPc, ApiResting
  <2>4. WorkersTypeOK'
    BY <1>3 DEF Delete, WorkersTypeOK, Busy
  <2>5. QED
    BY <2>1, <2>2, <2>3, <2>4 DEF TypeOK
<1>4. CASE PutAudio
  <2>1. StoresTypeOK'
    BY <1>4 DEF PutAudio, StoresTypeOK, ApiTypeOK, ApiAt
  <2>2. RedisTypeOK'
    BY <1>4 DEF PutAudio, redis, RedisTypeOK
  <2>3. ApiTypeOK'
    BY <1>4 DEF PutAudio, ApiGoes, ApiTypeOK, ApiAt, ApiPc
  <2>4. WorkersTypeOK'
    BY <1>4 DEF PutAudio, WorkersTypeOK, Busy
  <2>5. QED
    BY <2>1, <2>2, <2>3, <2>4 DEF TypeOK
<1>5. CASE Enqueue
  <2>1. StoresTypeOK'
    BY <1>5 DEF Enqueue, StoresTypeOK, stores
  <2>2. RedisTypeOK'
    <3>1. [job |-> api.job, attempts |-> 0] \in HeldTask
      BY <1>5, BoundsAssumption DEF Enqueue, ApiTypeOK, ApiAt, HeldTask
    <3>2. QED
      <4>1. Append(queue, [job |-> api.job, attempts |-> 0]) \in Seq(HeldTask)
        BY <3>1, AppendProperties DEF RedisTypeOK
      <4>2. QED
        BY <1>5, <4>1 DEF Enqueue, RedisTypeOK
  <2>3. ApiTypeOK'
    BY <1>5, RestingTypes
       DEF Enqueue, ApiGoes, ApiReturns, ApiTypeOK, ApiAt, ApiPc, ApiResting
  <2>4. WorkersTypeOK'
    BY <1>5 DEF Enqueue, WorkersTypeOK, Busy
  <2>5. QED
    BY <2>1, <2>2, <2>3, <2>4 DEF TypeOK
<1>6. CASE Refuse
  <2>1. StoresTypeOK'
    BY <1>6 DEF Refuse, StoresTypeOK
  <2>2. RedisTypeOK'
    BY <1>6 DEF Refuse, redis, RedisTypeOK
  <2>3. ApiTypeOK'
    BY <1>6 DEF Refuse, ApiGoes, ApiTypeOK, ApiAt, ApiPc
  <2>4. WorkersTypeOK'
    BY <1>6 DEF Refuse, WorkersTypeOK, Busy
  <2>5. QED
    BY <2>1, <2>2, <2>3, <2>4 DEF TypeOK
<1>7. CASE CancelRead
  <2>1. StoresTypeOK'
    BY <1>7 DEF CancelRead, stores, StoresTypeOK
  <2>2. RedisTypeOK'
    BY <1>7 DEF CancelRead, redis, RedisTypeOK
  <2>3. ApiTypeOK'
    BY <1>7, RestingTypes
       DEF CancelRead, ApiReturns, ApiTypeOK, ApiAt, ApiPc, ApiResting, StoresTypeOK
  <2>4. WorkersTypeOK'
    BY <1>7 DEF CancelRead, WorkersTypeOK, Busy
  <2>5. QED
    BY <2>1, <2>2, <2>3, <2>4 DEF TypeOK
<1>8. CASE CancelWrite
  <2>1. StoresTypeOK'
    BY <1>8 DEF CancelWrite, StoresTypeOK, ApiTypeOK, ApiAt, Record, JobState, Terminal
  <2>2. RedisTypeOK'
    BY <1>8 DEF CancelWrite, redis, RedisTypeOK
  <2>3. ApiTypeOK'
    BY <1>8, RestingTypes DEF CancelWrite, ApiReturns, ApiTypeOK, ApiAt, ApiResting
  <2>4. WorkersTypeOK'
    BY <1>8 DEF CancelWrite, WorkersTypeOK, Busy
  <2>5. QED
    BY <2>1, <2>2, <2>3, <2>4 DEF TypeOK
<1>9. CASE StoreFails
  <2>1. StoresTypeOK'
    BY <1>9, BoundsAssumption DEF StoreFails, Fault, StoresTypeOK, stores
  <2>2. RedisTypeOK'
    BY <1>9 DEF StoreFails, redis, RedisTypeOK
  <2>3. ApiTypeOK'
    BY <1>9, RestingTypes DEF StoreFails, ApiReturns, ApiTypeOK, ApiAt, ApiResting
  <2>4. WorkersTypeOK'
    BY <1>9 DEF StoreFails, WorkersTypeOK, Busy
  <2>5. QED
    BY <2>1, <2>2, <2>3, <2>4 DEF TypeOK
<1>10. CASE ApiRestart
  <2>1. StoresTypeOK'
    BY <1>10, BoundsAssumption DEF ApiRestart, Fault, StoresTypeOK, stores
  <2>2. RedisTypeOK'
    BY <1>10 DEF ApiRestart, redis, RedisTypeOK
  <2>3. ApiTypeOK'
    BY <1>10, RestingTypes DEF ApiRestart, ApiReturns, ApiTypeOK, ApiAt, ApiResting
  <2>4. WorkersTypeOK'
    BY <1>10 DEF ApiRestart, WorkersTypeOK, Busy
  <2>5. QED
    BY <2>1, <2>2, <2>3, <2>4 DEF TypeOK
<1>11. ASSUME NEW w \in Workers, Work(w) PROVE TypeOK'
  <2>1. CASE Start(w)
    <3>1. StoresTypeOK'
      BY <2>1 DEF Start, stores, StoresTypeOK
    <3>2. RedisTypeOK'
      BY <2>1 DEF Start, redis, RedisTypeOK
    <3>3. ApiTypeOK'
      BY <2>1 DEF Start, ApiTypeOK, ApiAt
    <3>4. WorkersTypeOK'
      BY <2>1, WorkerRests DEF Start
    <3>5. QED
      BY <3>1, <3>2, <3>3, <3>4 DEF TypeOK
  <2>2. CASE RecoverPop(w)
    <3>1. StoresTypeOK'
      BY <2>2 DEF RecoverPop, stores, StoresTypeOK
    <3>2. RedisTypeOK'
      <4>1. processing[w] \in Seq(HeldTask)
        BY DEF RedisTypeOK
      <4>2. processing[w] # <<>> => Tail(processing[w]) \in Seq(HeldTask)
        BY <4>1, HeadTailProperties
      <4>3. QED
        BY <2>2, <4>2 DEF RecoverPop, RedisTypeOK
    <3>3. ApiTypeOK'
      BY <2>2 DEF RecoverPop, ApiTypeOK, ApiAt
    <3>4. WorkersTypeOK'
      <4>1. CASE processing[w] = <<>>
        BY <2>2, <4>1, WorkerRests DEF RecoverPop
      <4>2. CASE processing[w] # <<>>
        <5>1. Head(processing[w]) \in HeldTask
          BY <4>2, HeadTailProperties DEF RedisTypeOK
        <5>2. QED
          <6> DEFINE x == [worker[w] EXCEPT !.pc = "recover_push", !.task = Head(processing[w])]
          <6>1. x \in WorkerRecord /\ x.task \in HeldTask
            BY <5>1, TakesTask DEF WorkerPc
          <6>2. worker' = [worker EXCEPT ![w] = x]
            BY <2>2, <4>2 DEF RecoverPop
          <6>3. QED
            BY <6>1, <6>2, WorkerBecomes
      <4>3. QED
        BY <4>1, <4>2
    <3>5. QED
      BY <3>1, <3>2, <3>3, <3>4 DEF TypeOK
  <2>3. CASE RecoverExpired(w)
    <3>1. StoresTypeOK'
      BY <2>3 DEF RecoverExpired, stores, StoresTypeOK
    <3>2. RedisTypeOK'
      <4>1. worker[w].task \in HeldTask
        BY <2>3 DEF RecoverExpired, WorkersTypeOK, At, Busy
      <4>2. QED
        BY <2>3, <4>1, AppendProperties DEF RecoverExpired, RedisTypeOK
    <3>3. ApiTypeOK'
      BY <2>3 DEF RecoverExpired, ApiTypeOK, ApiAt
    <3>4. WorkersTypeOK'
      BY <2>3, WorkerRests DEF RecoverExpired
    <3>5. QED
      BY <3>1, <3>2, <3>3, <3>4 DEF TypeOK
  <2>4. CASE RecoverLeased(w)
    <3>1. StoresTypeOK'
      BY <2>4 DEF RecoverLeased, stores, StoresTypeOK
    <3>2. RedisTypeOK'
      <4>1. worker[w].task \in HeldTask
        BY <2>4 DEF RecoverLeased, WorkersTypeOK, At, Busy
      <4>2. QED
        BY <2>4, <4>1, AppendProperties DEF RecoverLeased, RedisTypeOK
    <3>3. ApiTypeOK'
      BY <2>4 DEF RecoverLeased, ApiTypeOK, ApiAt
    <3>4. WorkersTypeOK'
      BY <2>4, WorkerRests DEF RecoverLeased
    <3>5. QED
      BY <3>1, <3>2, <3>3, <3>4 DEF TypeOK
  <2>5. CASE Reserve(w)
    <3>1. StoresTypeOK'
      BY <2>5 DEF Reserve, stores, StoresTypeOK
    <3>2. RedisTypeOK'
      BY <2>5, HeadTailProperties DEF Reserve, RedisTypeOK
    <3>3. ApiTypeOK'
      BY <2>5 DEF Reserve, ApiTypeOK, ApiAt
    <3>4. WorkersTypeOK'
      <4> DEFINE x == [worker[w] EXCEPT !.pc = "load", !.task = Head(queue)]
      <4>1. Head(queue) \in HeldTask
        BY <2>5, HeadTailProperties DEF Reserve, RedisTypeOK
      <4>2. x \in WorkerRecord /\ x.task \in HeldTask
        BY <4>1, TakesTask DEF WorkerPc
      <4>3. worker' = [worker EXCEPT ![w] = x]
        BY <2>5 DEF Reserve
      <4>4. QED
        BY <4>2, <4>3, WorkerBecomes
    <3>5. QED
      BY <3>1, <3>2, <3>3, <3>4 DEF TypeOK
  <2>6. CASE Load(w)
    <3>1. StoresTypeOK'
      BY <2>6 DEF Load, stores, StoresTypeOK
    <3>2. RedisTypeOK'
      BY <2>6 DEF Load, redis, RedisTypeOK
    <3>3. ApiTypeOK'
      BY <2>6 DEF Load, ApiTypeOK, ApiAt
    <3>4. WorkersTypeOK'
      <4> DEFINE x == [worker[w] EXCEPT !.pc = IF Job(w) \in objects THEN "read" ELSE "raised",
                                        !.stage = 1]
      <4>1. x \in WorkerRecord /\ x.task \in HeldTask
        <5>1. worker[w] \in WorkerRecord /\ worker[w].task \in HeldTask
          BY <2>6, BusyJob DEF Load, At, Busy
        <5>2. 1 \in 1 .. Final
          BY FinalFacts
        <5>3. (IF Job(w) \in objects THEN "read" ELSE "raised") \in WorkerPc
          BY DEF WorkerPc
        <5>4. QED
          BY <5>1, <5>2, <5>3 DEF WorkerRecord
      <4>2. worker' = [worker EXCEPT ![w] = x]
        BY <2>6 DEF Load
      <4>3. QED
        BY <4>1, <4>2, WorkerBecomes
    <3>5. QED
      BY <3>1, <3>2, <3>3, <3>4 DEF TypeOK
  <2>7. CASE UpdateRead(w)
    <3>1. StoresTypeOK'
      BY <2>7 DEF UpdateRead, stores, StoresTypeOK
    <3>2. RedisTypeOK'
      BY <2>7 DEF UpdateRead, redis, RedisTypeOK
    <3>3. ApiTypeOK'
      BY <2>7 DEF UpdateRead, ApiTypeOK, ApiAt
    <3>4. WorkersTypeOK'
      <4> PICK state \in Targets(worker[w].stage) :
              IF MayEnter(db[Job(w)], state)
              THEN worker' = [worker EXCEPT ![w].pc = "write",
                                            ![w].read = [db[Job(w)] EXCEPT !.state = state]]
              ELSE Goes(w, "raised")
        BY <2>7 DEF UpdateRead
      <4>1. [db[Job(w)] EXCEPT !.state = state] \in Record
        BY <2>7, BusyJob, FinalFacts DEF UpdateRead, At, Busy, StoresTypeOK, Record
      <4>2. QED
        BY <2>7, <4>1, WorkerGoes
           DEF UpdateRead, At, Busy, WorkerPc, WorkersTypeOK, WorkerRecord
    <3>5. QED
      BY <3>1, <3>2, <3>3, <3>4 DEF TypeOK
  <2>8. CASE UpdateWrite(w)
    <3>1. StoresTypeOK'
      BY <2>8, BusyJob DEF UpdateWrite, StoresTypeOK, At, Busy
    <3>2. RedisTypeOK'
      BY <2>8 DEF UpdateWrite, redis, RedisTypeOK
    <3>3. ApiTypeOK'
      BY <2>8 DEF UpdateWrite, ApiTypeOK, ApiAt
    <3>4. WorkersTypeOK'
      <4>1. CASE worker[w].stage = Final
        BY <2>8, <4>1, WorkerGoes DEF UpdateWrite, At, Busy, WorkerPc
      <4>2. CASE worker[w].stage # Final
        <5>1. Following(worker[w].stage) \subseteq 1 .. Final
          BY <2>8, <4>2, BusyJob, FinalFacts DEF UpdateWrite, At, Busy
        <5>2. PICK next \in Following(worker[w].stage) :
                 worker' = [worker EXCEPT ![w].stage = next, ![w].read = NoRecord,
                                          ![w].pc = IF next = Final THEN "save" ELSE "read"]
          BY <2>8, <4>2 DEF UpdateWrite
        <5> DEFINE x == [worker[w] EXCEPT !.stage = next, !.read = NoRecord,
                                          !.pc = IF next = Final THEN "save" ELSE "read"]
        <5>3. x \in WorkerRecord /\ x.task \in HeldTask
          <6>1. worker[w] \in WorkerRecord /\ worker[w].task \in HeldTask
            BY <2>8, BusyJob DEF UpdateWrite, At, Busy
          <6>2. NoRecord \in Record
            BY RestingTypes
          <6>3. QED
            BY <5>1, <6>1, <6>2 DEF WorkerRecord, WorkerPc
        <5>4. worker' = [worker EXCEPT ![w] = x]
          BY <5>2
        <5>5. QED
          BY <5>3, <5>4, WorkerBecomes
      <4>3. QED
        BY <4>1, <4>2
    <3>5. QED
      BY <3>1, <3>2, <3>3, <3>4 DEF TypeOK
  <2>9. CASE HandleRaises(w)
    <3>1. StoresTypeOK'
      BY <2>9 DEF HandleRaises, stores, StoresTypeOK
    <3>2. RedisTypeOK'
      BY <2>9 DEF HandleRaises, redis, RedisTypeOK
    <3>3. ApiTypeOK'
      BY <2>9 DEF HandleRaises, ApiTypeOK, ApiAt
    <3>4. WorkersTypeOK'
      BY <2>9, WorkerGoes DEF HandleRaises, Busy, WorkerPc
    <3>5. QED
      BY <3>1, <3>2, <3>3, <3>4 DEF TypeOK
  <2>10. CASE SaveResult(w)
    <3>1. StoresTypeOK'
      BY <2>10, BusyJob DEF SaveResult, StoresTypeOK, At, Busy
    <3>2. RedisTypeOK'
      BY <2>10 DEF SaveResult, redis, RedisTypeOK
    <3>3. ApiTypeOK'
      BY <2>10 DEF SaveResult, ApiTypeOK, ApiAt
    <3>4. WorkersTypeOK'
      BY <2>10, WorkerGoes DEF SaveResult, At, Busy, WorkerPc
    <3>5. QED
      BY <3>1, <3>2, <3>3, <3>4 DEF TypeOK
  <2>11. CASE Ack(w)
    <3>1. StoresTypeOK'
      BY <2>11 DEF Ack, stores, StoresTypeOK
    <3>2. RedisTypeOK'
      BY <2>11, LremType DEF Ack, RedisTypeOK
    <3>3. ApiTypeOK'
      BY <2>11 DEF Ack, ApiTypeOK, ApiAt
    <3>4. WorkersTypeOK'
      BY <2>11, WorkerRests DEF Ack
    <3>5. QED
      BY <3>1, <3>2, <3>3, <3>4 DEF TypeOK
  <2>12. CASE RetryAck(w)
    <3>1. StoresTypeOK'
      BY <2>12 DEF RetryAck, stores, StoresTypeOK
    <3>2. RedisTypeOK'
      BY <2>12, LremType DEF RetryAck, RedisTypeOK
    <3>3. ApiTypeOK'
      BY <2>12 DEF RetryAck, ApiTypeOK, ApiAt
    <3>4. WorkersTypeOK'
      BY <2>12, WorkerGoes DEF RetryAck, At, Busy, WorkerPc
    <3>5. QED
      BY <3>1, <3>2, <3>3, <3>4 DEF TypeOK
  <2>13. CASE Repush(w)
    <3>1. StoresTypeOK'
      BY <2>13 DEF Repush, stores, StoresTypeOK
    <3>2. RedisTypeOK'
      <4> DEFINE again == [worker[w].task EXCEPT !.attempts = @ + 1]
      <4>1. worker[w].task \in HeldTask
        BY <2>13 DEF Repush, WorkersTypeOK, At, Busy
      <4>2. again \in Task /\ (again.attempts < MaxAttempts => again \in HeldTask)
        BY <4>1, BoundsAssumption DEF HeldTask, Task
      <4>3. again.attempts \in Int /\ MaxAttempts \in Int
        BY <4>2, BoundsAssumption DEF Task
      <4>4. /\ UNCHANGED processing
            /\ IF again.attempts >= MaxAttempts
               THEN dead' = Append(dead, again) /\ UNCHANGED queue
               ELSE queue' = Append(queue, again) /\ UNCHANGED dead
        BY <2>13 DEF Repush
      <4> HIDE DEF again
      <4>5. Append(dead, again) \in Seq(Task)
        BY <4>2, AppendProperties DEF RedisTypeOK
      <4>6. again.attempts < MaxAttempts => Append(queue, again) \in Seq(HeldTask)
        BY <4>2, AppendProperties DEF RedisTypeOK
      <4>7. CASE again.attempts >= MaxAttempts
        BY <4>4, <4>5, <4>7 DEF RedisTypeOK
      <4>8. CASE ~ (again.attempts >= MaxAttempts)
        <5>1. again.attempts < MaxAttempts
          BY <4>3, <4>8
        <5>2. QED
          BY <4>4, <4>6, <4>8, <5>1 DEF RedisTypeOK
      <4>9. QED
        BY <4>7, <4>8
    <3>3. ApiTypeOK'
      BY <2>13 DEF Repush, ApiTypeOK, ApiAt
    <3>4. WorkersTypeOK'
      BY <2>13, WorkerRests, WorkerGoes DEF Repush, At, Busy, WorkerPc
    <3>5. QED
      BY <3>1, <3>2, <3>3, <3>4 DEF TypeOK
  <2>14. CASE FailError(w)
    <3>1. StoresTypeOK'
      BY <2>14, BusyJob DEF FailError, StoresTypeOK, At, Busy, Record
    <3>2. RedisTypeOK'
      BY <2>14 DEF FailError, redis, RedisTypeOK
    <3>3. ApiTypeOK'
      BY <2>14 DEF FailError, ApiTypeOK, ApiAt
    <3>4. WorkersTypeOK'
      BY <2>14, WorkerGoes DEF FailError, At, Busy, WorkerPc
    <3>5. QED
      BY <3>1, <3>2, <3>3, <3>4 DEF TypeOK
  <2>15. CASE FailRead(w)
    <3>1. StoresTypeOK'
      BY <2>15 DEF FailRead, stores, StoresTypeOK
    <3>2. RedisTypeOK'
      BY <2>15 DEF FailRead, redis, RedisTypeOK
    <3>3. ApiTypeOK'
      BY <2>15 DEF FailRead, ApiTypeOK, ApiAt
    <3>4. WorkersTypeOK'
      <4>1. [db[Job(w)] EXCEPT !.state = "FAILED"] \in Record
        BY <2>15, BusyJob DEF FailRead, At, Busy, StoresTypeOK, Record, JobState, Terminal
      <4>2. QED
        BY <2>15, <4>1, WorkerRests
           DEF FailRead, At, Busy, WorkerPc, WorkersTypeOK, WorkerRecord
    <3>5. QED
      BY <3>1, <3>2, <3>3, <3>4 DEF TypeOK
  <2>16. CASE FailWrite(w)
    <3>1. StoresTypeOK'
      BY <2>16, BusyJob DEF FailWrite, StoresTypeOK, At, Busy
    <3>2. RedisTypeOK'
      BY <2>16 DEF FailWrite, redis, RedisTypeOK
    <3>3. ApiTypeOK'
      BY <2>16 DEF FailWrite, ApiTypeOK, ApiAt
    <3>4. WorkersTypeOK'
      BY <2>16, WorkerRests DEF FailWrite
    <3>5. QED
      BY <3>1, <3>2, <3>3, <3>4 DEF TypeOK
  <2>17. QED
    BY <1>11, <2>1, <2>2, <2>3, <2>4, <2>5, <2>6, <2>7, <2>8,
       <2>9, <2>10, <2>11, <2>12, <2>13, <2>14, <2>15, <2>16 DEF Work
<1>12. ASSUME NEW w \in Workers, FailSwallowed(w) PROVE TypeOK'
  <2>1. StoresTypeOK'
    BY <1>12, BoundsAssumption DEF FailSwallowed, Fault, StoresTypeOK, stores
  <2>2. RedisTypeOK'
    BY <1>12 DEF FailSwallowed, redis, RedisTypeOK
  <2>3. ApiTypeOK'
    BY <1>12 DEF FailSwallowed, ApiTypeOK, ApiAt
  <2>4. WorkersTypeOK'
    BY <1>12, WorkerRests DEF FailSwallowed
  <2>5. QED
    BY <2>1, <2>2, <2>3, <2>4 DEF TypeOK
<1>13. ASSUME NEW w \in Workers, WorkerCrash(w) PROVE TypeOK'
  <2>1. StoresTypeOK'
    BY <1>13, BoundsAssumption DEF WorkerCrash, Fault, StoresTypeOK, stores
  <2>2. RedisTypeOK'
    BY <1>13 DEF WorkerCrash, redis, RedisTypeOK
  <2>3. ApiTypeOK'
    BY <1>13 DEF WorkerCrash, ApiTypeOK, ApiAt
  <2>4. WorkersTypeOK'
    BY <1>13, WorkerRests DEF WorkerCrash
  <2>5. QED
    BY <2>1, <2>2, <2>3, <2>4 DEF TypeOK
<1>14. CASE UNCHANGED vars
  BY <1>14 DEF vars, stores, redis, TypeOK, StoresTypeOK, RedisTypeOK, ApiTypeOK, ApiAt,
              WorkersTypeOK, Busy
<1>15. QED
  BY <1>1, <1>2, <1>3, <1>4, <1>5, <1>6, <1>7,
     <1>8, <1>9, <1>10, <1>11, <1>12, <1>13, <1>14 DEF Next, Api

(* No list but the dead one ever holds a task without an attempt left, and   *)
(* every process that is not idle works on a job, in every behaviour of the  *)
(* job path.                                                                 *)
THEOREM TypeCorrect == Spec => []TypeOK
<1>1. QED
  BY TypeInit, TypeStep, PTL DEF Spec

-----------------------------------------------------------------------------
(* A successful job has its transcript *)

(* The inductive strengthening: what a worker is about to write is as safe as *)
(* what is already in the database.                                          *)
ResultInv == TypeOK /\ SuccessHasResult /\ SavedBeforeSuccess

(* Before the first submission no job has succeeded and no worker is about  *)
(* to say so.                                                               *)
LEMMA ResultInit == Init => SuccessHasResult /\ SavedBeforeSuccess
  BY DEF Init, SuccessHasResult, SavedBeforeSuccess, At, NoRecord, Resting

(* A step that leaves the database, the results and the workers alone.       *)
LEMMA ResultFrame ==
    ASSUME SuccessHasResult, SavedBeforeSuccess, UNCHANGED <<results, worker>>, UNCHANGED db
    PROVE  SuccessHasResult' /\ SavedBeforeSuccess'
  BY DEF SuccessHasResult, SavedBeforeSuccess, At, Job

(* A worker that comes to rest, or goes on to a step other than the two that *)
(* lead to success, owes nothing.                                            *)
LEMMA ResultRests ==
    ASSUME WorkersTypeOK, SavedBeforeSuccess, NEW w \in Workers,
           NEW pc \in {"down", "recover", "idle"}, Rests(w, pc), results \subseteq results'
    PROVE  SavedBeforeSuccess'
  BY DEF WorkersTypeOK, SavedBeforeSuccess, Rests, Resting, At, Job

(* A worker that goes on to a step that cannot announce success owes nothing.*)
LEMMA ResultGoes ==
    ASSUME WorkersTypeOK, SavedBeforeSuccess, NEW w \in Workers,
           NEW pc \in {"ack", "raised", "repush", "fail_error", "fail_read"}, Goes(w, pc),
           results \subseteq results'
    PROVE  SavedBeforeSuccess'
  BY DEF WorkersTypeOK, WorkerRecord, SavedBeforeSuccess, Goes, At, Job

(* Every step of the API, the workers and the faults keeps the two halves of*)
(* the invariant: no state says success before save_result has run.         *)
LEMMA ResultStep == ResultInv /\ [Next]_vars => SuccessHasResult' /\ SavedBeforeSuccess'
<1> DEFINE Goal == SuccessHasResult /\ SavedBeforeSuccess
<1> SUFFICES ASSUME ResultInv, [Next]_vars PROVE Goal'
  OBVIOUS
<1>t. StoresTypeOK /\ WorkersTypeOK /\ ApiTypeOK /\ SuccessHasResult /\ SavedBeforeSuccess
  BY DEF ResultInv, TypeOK
<1>1. ASSUME NEW j \in Jobs, Submit(j) PROVE Goal'
  BY <1>1, <1>t DEF Submit, StoresTypeOK, Record, SuccessHasResult, SavedBeforeSuccess, At, Job
<1>2. ASSUME NEW j \in Jobs, Resubmit(j) \/ Delete(j) PROVE Goal'
  BY <1>2, <1>t, ResultFrame DEF Resubmit, Delete, vars, stores
<1>3. CASE PutAudio \/ Enqueue \/ Refuse \/ CancelRead \/ StoreFails \/ ApiRestart
  BY <1>3, <1>t, ResultFrame
     DEF PutAudio, Enqueue, Refuse, CancelRead, StoreFails, ApiRestart, stores
<1>4. CASE CancelWrite
  <2>1. SuccessHasResult'
    <3>1. db' = [db EXCEPT ![api.job] = [api.read EXCEPT !.state = "CANCELLED"]] /\ results' = results
      BY <1>4 DEF CancelWrite
    <3>2. \A j \in Jobs : db'[j].state \in {"SUCCEEDED", "DEGRADED_SUCCEEDED"} => db'[j] = db[j]
      BY <1>t, <3>1 DEF StoresTypeOK, ApiTypeOK, Record
    <3>3. QED
      BY <1>t, <3>1, <3>2 DEF SuccessHasResult
  <2>2. SavedBeforeSuccess'
    BY <1>4, <1>t DEF CancelWrite, SavedBeforeSuccess, At, Job
  <2>3. QED
    BY <2>1, <2>2
<1>5. ASSUME NEW w \in Workers, Work(w) PROVE Goal'
  <2>1. CASE Start(w) \/ RecoverExpired(w) \/ RecoverLeased(w) \/ Ack(w)
    BY <2>1, <1>t, ResultRests
       DEF Start, RecoverExpired, RecoverLeased, Ack, stores, SuccessHasResult
  <2>2. CASE RecoverPop(w)
    <3>1. SuccessHasResult' /\ results' = results
      BY <2>2, <1>t DEF RecoverPop, stores, SuccessHasResult
    <3>2. CASE processing[w] = <<>>
      BY <2>2, <1>t, <3>1, <3>2, ResultRests DEF RecoverPop
    <3>3. CASE processing[w] # <<>>
      <4>1. worker' = [worker EXCEPT ![w].pc = "recover_push",
                                     ![w].task = Head(processing[w])]
        BY <2>2, <3>3 DEF RecoverPop
      <4>2. worker'[w].pc = "recover_push" /\ \A v \in Workers \ {w} : worker'[v] = worker[v]
        BY <1>t, <4>1 DEF WorkersTypeOK, WorkerRecord
      <4>3. SavedBeforeSuccess'
        BY <1>t, <3>1, <4>2 DEF SavedBeforeSuccess, At, Job
      <4>4. QED
        BY <3>1, <4>3
    <3>4. QED
      BY <3>2, <3>3
  <2>3. CASE Reserve(w)
    BY <2>3, <1>t
       DEF Reserve, WorkersTypeOK, WorkerRecord, SavedBeforeSuccess, SuccessHasResult, At, Job,
           stores
  <2>4. CASE Load(w)
    BY <2>4, <1>t, FinalFacts
       DEF Load, WorkersTypeOK, WorkerRecord, SavedBeforeSuccess, SuccessHasResult, At, Job, stores
  <2>5. CASE UpdateRead(w)
    <3>1. SuccessHasResult' /\ results' = results
      BY <2>5, <1>t DEF UpdateRead, stores, SuccessHasResult
    <3>2. PICK state \in Targets(worker[w].stage) :
            IF MayEnter(db[Job(w)], state)
            THEN worker' = [worker EXCEPT ![w].pc = "write",
                                          ![w].read = [db[Job(w)] EXCEPT !.state = state]]
            ELSE Goes(w, "raised")
      BY <2>5 DEF UpdateRead
    <3>3. CASE MayEnter(db[Job(w)], state)
      <4>1. state \in {"SUCCEEDED", "DEGRADED_SUCCEEDED"} => Job(w) \in results
        <5>1. worker[w].stage \in 1 .. Final
          BY <2>5, <1>t, BusyJob DEF UpdateRead, At, Busy
        <5>2. CASE worker[w].stage = Final
          BY <2>5, <1>t, <5>2 DEF UpdateRead, SavedBeforeSuccess
        <5>3. CASE worker[w].stage # Final
          <6>1. state \in Running
            BY <3>2, <5>1, <5>3, StageRuns DEF Targets
          <6>2. QED
            BY <6>1 DEF Running
        <5>4. QED
          BY <5>2, <5>3
      <4>2. db[Job(w)] \in Record
        BY <2>5, <1>t, BusyJob DEF UpdateRead, At, Busy, StoresTypeOK
      <4>3. worker' = [worker EXCEPT ![w].pc = "write",
                                     ![w].read = [db[Job(w)] EXCEPT !.state = state]]
        BY <3>2, <3>3
      <4>4. SavedBeforeSuccess'
        BY <1>t, <3>1, <4>1, <4>2, <4>3
           DEF WorkersTypeOK, WorkerRecord, Record, SavedBeforeSuccess, At, Job
      <4>5. QED
        BY <3>1, <4>4
    <3>4. CASE ~ MayEnter(db[Job(w)], state)
      BY <1>t, <3>1, <3>2, <3>4, ResultGoes
    <3>5. QED
      BY <3>3, <3>4
  <2>6. CASE UpdateWrite(w)
    <3>1. SuccessHasResult'
      <4>1. worker[w].read.state \in {"SUCCEEDED", "DEGRADED_SUCCEEDED"} => Job(w) \in results
        BY <2>6, <1>t DEF UpdateWrite, At, SavedBeforeSuccess
      <4>2. db' = [db EXCEPT ![Job(w)] = worker[w].read] /\ results' = results
        BY <2>6 DEF UpdateWrite
      <4>3. QED
        BY <1>t, <4>1, <4>2 DEF StoresTypeOK, SuccessHasResult
    <3>2. SavedBeforeSuccess'
      <4>1. CASE worker[w].stage = Final
        BY <2>6, <1>t, <4>1, ResultGoes DEF UpdateWrite
      <4>2. CASE worker[w].stage # Final
        <5>1. PICK next \in Following(worker[w].stage) :
                 worker' = [worker EXCEPT ![w].stage = next, ![w].read = NoRecord,
                                          ![w].pc = IF next = Final THEN "save" ELSE "read"]
          BY <2>6, <4>2 DEF UpdateWrite
        <5>2. results' = results
          BY <2>6 DEF UpdateWrite
        <5>3. ~ (At(w, "read") /\ worker[w].stage = Final)'
          BY <1>t, <5>1 DEF WorkersTypeOK, WorkerRecord, At
        <5>4. worker'[w].pc \notin {"write", "fail_write"}
          BY <1>t, <5>1 DEF WorkersTypeOK, WorkerRecord
        <5>5. \A v \in Workers \ {w} : worker'[v] = worker[v]
          BY <1>t, <5>1 DEF WorkersTypeOK
        <5>6. QED
          BY <1>t, <5>2, <5>3, <5>4, <5>5 DEF SavedBeforeSuccess, At, Job
      <4>3. QED
        BY <4>1, <4>2
    <3>3. QED
      BY <3>1, <3>2
  <2>7. CASE HandleRaises(w) \/ RetryAck(w)
    BY <2>7, <1>t, ResultGoes DEF HandleRaises, RetryAck, stores, SuccessHasResult
  <2>8. CASE SaveResult(w)
    <3>1. SuccessHasResult'
      BY <2>8, <1>t DEF SaveResult, SuccessHasResult
    <3>2. SavedBeforeSuccess'
      BY <2>8, <1>t DEF SaveResult, Goes, WorkersTypeOK, WorkerRecord, SavedBeforeSuccess, At, Job
    <3>3. QED
      BY <3>1, <3>2
  <2>9. CASE Repush(w)
    BY <2>9, <1>t, ResultGoes, ResultRests DEF Repush, stores, SuccessHasResult
  <2>10. CASE FailError(w)
    <3>1. SuccessHasResult'
      BY <2>10, <1>t DEF FailError, StoresTypeOK, Record, SuccessHasResult
    <3>2. SavedBeforeSuccess'
      BY <2>10, <1>t, ResultGoes DEF FailError
    <3>3. QED
      BY <3>1, <3>2
  <2>11. CASE FailRead(w)
    <3>1. SuccessHasResult' /\ results' = results
      BY <2>11, <1>t DEF FailRead, stores, SuccessHasResult
    <3>2. CASE MayEnter(db[Job(w)], "FAILED")
      <4>1. db[Job(w)] \in Record
        BY <2>11, <1>t, BusyJob DEF FailRead, At, Busy, StoresTypeOK
      <4>2. worker' = [worker EXCEPT ![w].pc = "fail_write",
                                     ![w].read = [db[Job(w)] EXCEPT !.state = "FAILED"]]
        BY <2>11, <3>2 DEF FailRead
      <4>3. SavedBeforeSuccess'
        BY <1>t, <3>1, <4>1, <4>2
           DEF WorkersTypeOK, WorkerRecord, Record, SavedBeforeSuccess, At, Job
      <4>4. QED
        BY <3>1, <4>3
    <3>3. CASE ~ MayEnter(db[Job(w)], "FAILED")
      BY <2>11, <1>t, <3>1, <3>3, ResultRests DEF FailRead
    <3>4. QED
      BY <3>2, <3>3
  <2>12. CASE FailWrite(w)
    <3>1. SuccessHasResult'
      <4>1. worker[w].read.state \in {"SUCCEEDED", "DEGRADED_SUCCEEDED"} => Job(w) \in results
        BY <2>12, <1>t DEF FailWrite, At, SavedBeforeSuccess
      <4>2. db' = [db EXCEPT ![Job(w)] = worker[w].read] /\ results' = results
        BY <2>12 DEF FailWrite
      <4>3. QED
        BY <1>t, <4>1, <4>2 DEF StoresTypeOK, SuccessHasResult
    <3>2. SavedBeforeSuccess'
      BY <2>12, <1>t, ResultRests DEF FailWrite
    <3>3. QED
      BY <3>1, <3>2
  <2>13. QED
    BY <1>5, <2>1, <2>2, <2>3, <2>4, <2>5, <2>6, <2>7, <2>8, <2>9, <2>10, <2>11, <2>12 DEF Work
<1>6. ASSUME NEW w \in Workers, FailSwallowed(w) \/ WorkerCrash(w) PROVE Goal'
  BY <1>6, <1>t, ResultRests DEF FailSwallowed, WorkerCrash, stores, SuccessHasResult
<1>7. CASE UNCHANGED vars
  BY <1>7, <1>t, ResultFrame DEF vars, stores
<1>8. QED
  BY <1>1, <1>2, <1>3, <1>4, <1>5, <1>6, <1>7 DEF Next, Api

(* A job the API reports as SUCCEEDED or DEGRADED_SUCCEEDED has its segments  *)
(* in the store, whatever cancellations, crashes, retries and redeliveries   *)
(* came before: update_state writes a successful state only from a worker    *)
(* that has saved the result.                                                *)
THEOREM SuccessCorrect == Spec => []SuccessHasResult
<1>1. Init => ResultInv
  BY TypeInit, ResultInit DEF ResultInv
<1>2. ResultInv /\ [Next]_vars => ResultInv'
  BY TypeStep, ResultStep DEF ResultInv
<1>3. ResultInv => SuccessHasResult
  BY DEF ResultInv
<1>4. QED
  BY <1>1, <1>2, <1>3, PTL DEF Spec

-----------------------------------------------------------------------------
(* Lists of tasks *)

(* A list has a task of the job, or has at most one.                         *)
Holds(list, j) == Places(list, j) # {}
One(list, j) == \A a, b \in Places(list, j) : a = b

(* The empty list holds nothing.                                             *)
LEMMA EmptyHolds ==
    ASSUME NEW j
    PROVE  ~ Holds(<<>>, j) /\ One(<<>>, j)
  BY DEF Holds, One, Places

(* Pushing a task adds the job of that task and nothing else.                *)
LEMMA PushHolds ==
    ASSUME NEW S, NEW list \in Seq(S), NEW task \in S, NEW j
    PROVE  /\ Holds(Append(list, task), j) <=> Holds(list, j) \/ task.job = j
           /\ One(list, j) /\ (task.job = j => ~ Holds(list, j)) => One(Append(list, task), j)
<1> DEFINE longer == Append(list, task)
<1>1. /\ Len(list) \in Nat
      /\ DOMAIN list = 1 .. Len(list)
      /\ DOMAIN longer = 1 .. Len(list) + 1
      /\ \A i \in 1 .. Len(list) : longer[i] = list[i]
      /\ longer[Len(list) + 1] = task
  BY AppendProperties, LenProperties
<1> HIDE DEF longer
<1>2. Places(longer, j)
        = Places(list, j) \union (IF task.job = j THEN {Len(list) + 1} ELSE {})
  BY <1>1 DEF Places
<1>3. QED
  BY <1>2 DEF Holds, One, longer

(* Popping the oldest task takes only its job off the list.                  *)
LEMMA PopHolds ==
    ASSUME NEW S, NEW list \in Seq(S), list # <<>>, NEW j
    PROVE  /\ Holds(list, Head(list).job)
           /\ Holds(list, j) => Holds(Tail(list), j) \/ Head(list).job = j
           /\ Holds(Tail(list), j) => Holds(list, j)
           /\ One(list, j) => One(Tail(list), j)
           /\ One(list, j) /\ Head(list).job = j => ~ Holds(Tail(list), j)
<1> DEFINE rest == Tail(list)
<1>1. /\ Len(list) \in Nat
      /\ Len(list) > 0
      /\ DOMAIN list = 1 .. Len(list)
      /\ DOMAIN rest = 1 .. Len(list) - 1
      /\ \A i \in 1 .. Len(list) - 1 : rest[i] = list[i + 1]
      /\ Head(list) = list[1]
  BY HeadTailProperties, LenProperties, EmptySeq
<1> HIDE DEF rest
<1>2. 1 \in Places(list, Head(list).job)
  BY <1>1 DEF Places
<1>3. \A i \in Places(rest, j) : i + 1 \in Places(list, j) /\ i + 1 # 1 /\ i \in Int
  BY <1>1 DEF Places
<1>4. \A i \in Places(list, j) : i = 1 \/ i - 1 \in Places(rest, j)
  BY <1>1 DEF Places
<1>5. Head(list).job = j => 1 \in Places(list, j)
  BY <1>2
<1>6. 1 \in Places(list, j) => Head(list).job = j
  BY <1>1 DEF Places
<1>7. One(list, j) => One(rest, j)
  <2> SUFFICES ASSUME One(list, j), NEW a \in Places(rest, j), NEW b \in Places(rest, j)
               PROVE  a = b
    BY DEF One
  <2>1. a + 1 = b + 1
    BY <1>3 DEF One
  <2>2. QED
    BY <1>3, <2>1
<1>8. One(list, j) /\ Head(list).job = j => Places(rest, j) = {}
  BY <1>3, <1>5 DEF One
<1>9. QED
  BY <1>2, <1>3, <1>4, <1>6, <1>7, <1>8 DEF Holds, rest

(* A set of naturals that is not empty has a smallest member.                *)
LEMMA LeastNatural ==
    ASSUME NEW T, T \subseteq Nat, T # {}
    PROVE  \E i \in T : \A k \in T : i <= k
<1> DEFINE less == {pair \in Nat \X Nat : pair[1] < pair[2]}
<1>1. IsWellFoundedOn(less, Nat)
  BY NatLessThanWellFounded DEF OpToRel
<1>2. \A k, n \in Nat : <<k, n>> \in less <=> k < n
  OBVIOUS
<1> HIDE DEF less
<1>3. \E n \in T : \A k \in T : ~ (<<k, n>> \in less)
  BY <1>1, WFMin, Zenon
<1>4. \A k, n \in Nat : ~ (<<k, n>> \in less) => n <= k
  BY <1>2
<1>5. QED
  BY <1>3, <1>4, Zenon

(* lrem takes at most one task off, which is of the job it was asked for.    *)
LEMMA LremHolds ==
    ASSUME NEW S, NEW list \in Seq(S), NEW task, NEW j
    PROVE  /\ Holds(list, j) => Holds(Lrem(list, task), j) \/ task.job = j
           /\ Holds(Lrem(list, task), j) => Holds(list, j)
           /\ One(list, j) => One(Lrem(list, task), j)
           /\ One(list, j) /\ task.job = j /\ (\E i \in DOMAIN list : list[i] = task)
                 => ~ Holds(Lrem(list, task), j)
<1> DEFINE hits == {i \in DOMAIN list : list[i] = task}
<1> DEFINE at == CHOOSE i \in hits : \A k \in hits : i <= k
<1> DEFINE rest == [k \in 1 .. Len(list) - 1 |-> IF k < at THEN list[k] ELSE list[k + 1]]
<1>1. Lrem(list, task) = IF hits = {} THEN list ELSE rest
  BY DEF Lrem
<1>2. Len(list) \in Nat /\ DOMAIN list = 1 .. Len(list)
  BY LenProperties
<1>3. CASE hits = {}
  BY <1>1, <1>3 DEF Holds
<1>4. CASE hits # {}
  <2>1. \E i \in hits : \A k \in hits : i <= k
    <3>1. hits \subseteq Nat
      BY <1>2
    <3> HIDE DEF hits
    <3>2. QED
      BY <1>4, <3>1, LeastNatural
  <2>2. at \in 1 .. Len(list) /\ list[at] = task
    BY <1>2, <2>1
  <2> HIDE DEF at
  <2>3. DOMAIN rest = 1 .. Len(list) - 1
    OBVIOUS
  <2>4. \A i \in Places(rest, j) :
           /\ i \in Int
           /\ IF i < at THEN i \in Places(list, j) ELSE i + 1 \in Places(list, j)
    BY <1>2, <2>2, <2>3 DEF Places
  <2>5. \A i \in Places(list, j) :
           /\ i \in Int
           /\ \/ i = at /\ task.job = j
              \/ i < at /\ i \in Places(rest, j)
              \/ i > at /\ i - 1 \in Places(rest, j)
    BY <1>2, <2>2, <2>3 DEF Places
  <2>6. task.job = j => at \in Places(list, j)
    BY <1>2, <2>2 DEF Places
  <2> HIDE DEF rest
  <2>7. One(list, j) => One(rest, j)
    <3> SUFFICES ASSUME One(list, j), NEW a \in Places(rest, j), NEW b \in Places(rest, j)
                 PROVE  a = b
      BY DEF One
    <3>1. CASE a < at /\ b < at
      BY <2>4, <3>1 DEF One
    <3>2. CASE ~ (a < at) /\ ~ (b < at)
      BY <2>4, <3>2 DEF One
    <3>3. CASE a < at /\ ~ (b < at)
      BY <2>2, <2>4, <3>3 DEF One
    <3>4. CASE ~ (a < at) /\ b < at
      BY <2>2, <2>4, <3>4 DEF One
    <3>5. QED
      BY <3>1, <3>2, <3>3, <3>4
  <2>8. One(list, j) /\ task.job = j => Places(rest, j) = {}
    BY <2>2, <2>4, <2>6 DEF One
  <2>9. QED
    BY <1>1, <1>4, <2>4, <2>5, <2>7, <2>8 DEF Holds
<1>5. QED
  BY <1>3, <1>4

-----------------------------------------------------------------------------
(* The inductive invariant *)

(* The worker has the task of the job, on its processing list or in memory.  *)
Near(w, j) == Holds(processing[w], j) \/ Carries(w, j)

(* No list and no worker has a task of the job.                              *)
Untouched(j) == ~ Holds(queue, j) /\ ~ Holds(dead, j) /\ \A w \in Workers : ~ Near(w, j)

(* A job has one task, and it is in one place.                               *)
Apart ==
    \A j \in Jobs :
        /\ One(queue, j)
        /\ One(dead, j)
        /\ ~ (Holds(queue, j) /\ Holds(dead, j))
        /\ \A w \in Workers :
              /\ One(processing[w], j)
              /\ ~ (Holds(processing[w], j) /\ Carries(w, j))
              /\ Near(w, j) =>
                    /\ ~ Holds(queue, j)
                    /\ ~ Holds(dead, j)
                    /\ \A v \in Workers : Near(v, j) => v = w

(* A task being handled is on its worker's processing list.                  *)
HandledListed ==
    \A w \in Workers :
        Handles(w) => \E i \in DOMAIN processing[w] : processing[w][i] = worker[w].task

(* A job being failed is on the dead list.                                   *)
Failing(w) == worker[w].pc \in {"fail_error", "fail_read", "fail_write"}
FailingParked == \A w \in Workers : Failing(w) => Holds(dead, Job(w))

(* What a worker is about to write is what its step asks for.                *)
Asks ==
    \A w \in Workers :
        /\ At(w, "write") => worker[w].read.state \in Targets(worker[w].stage)
        /\ At(w, "fail_write") => worker[w].read.state = "FAILED"

(* A job that does not exist has no task and no transcript.                  *)
NewUntouched ==
    \A j \in Jobs : db[j].state = "absent" => Untouched(j) /\ j \notin results

(* POST has not pushed the task yet, or has been refused: the job is as it   *)
(* was created.  Only DELETE cancels a job that was pushed.                  *)
Submitting ==
    \/ api.pc \in {"put", "enqueue", "refuse"}
    \/ api.pc \in {"cancel_read", "cancel_write"} /\ api.job \notin Deletable

Undelivered ==
    Submitting => Untouched(api.job) /\ db[api.job].state = "QUEUED" /\ api.job \notin results

DeliveryInv ==
    /\ TypeOK
    /\ Apart
    /\ HandledListed
    /\ FailingParked
    /\ Asks
    /\ NewUntouched
    /\ Undelivered

(* Before the first submission there is no task anywhere.                    *)
LEMMA DeliveryInit == Init => DeliveryInv
<1> SUFFICES ASSUME Init PROVE DeliveryInv
  OBVIOUS
<1>1. \A w \in Workers : worker[w].pc = "down" /\ processing[w] = <<>>
  BY DEF Init, Resting
<1>2. queue = <<>> /\ dead = <<>> /\ results = {} /\ api.pc = "idle"
  BY DEF Init, ApiResting
<1>3. Apart /\ \A j \in Jobs : Untouched(j)
  BY <1>1, <1>2, EmptyHolds DEF Apart, Untouched, Near, Carries
<1>4. HandledListed /\ FailingParked /\ Asks
  BY <1>1 DEF HandledListed, FailingParked, Asks, Handles, Failing, At
<1>5. NewUntouched /\ Undelivered
  BY <1>2, <1>3 DEF NewUntouched, Undelivered, Submitting
<1>6. QED
  BY <1>3, <1>4, <1>5, TypeInit DEF DeliveryInv

(* A worker asks for a running or a successful state.                        *)
LEMMA TargetsReal ==
    ASSUME NEW stage \in 1 .. Final
    PROVE  /\ stage # Final => Targets(stage) \subseteq Running
           /\ stage = Final => Targets(stage) = {"SUCCEEDED", "DEGRADED_SUCCEEDED"}
           /\ Targets(stage) \intersect {"absent", "QUEUED", "FAILED", "CANCELLED"} = {}
<1>1. stage # Final => Targets(stage) \subseteq Running
  BY StageRuns DEF Targets
<1>2. stage = Final => Targets(stage) = {"SUCCEEDED", "DEGRADED_SUCCEEDED"}
  BY DEF Targets
<1>3. QED
  BY <1>1, <1>2 DEF Running

(* A step that leaves the lists and the hands of the workers alone.          *)
LEMMA CopiesFrame ==
    ASSUME Apart, UNCHANGED redis, UNCHANGED worker
    PROVE  Apart' /\ \A j : Untouched(j)' <=> Untouched(j)
  BY DEF Apart, Untouched, Near, Carries, Job, redis

(* A worker with a task has touched the job.                                 *)
LEMMA BusyTouches ==
    ASSUME HandledListed, FailingParked, WorkersTypeOK, NEW w \in Workers, Busy(w)
    PROVE  /\ ~ Untouched(Job(w))
           /\ Handles(w) => Holds(processing[w], Job(w))
           /\ ~ Handles(w) /\ ~ Failing(w) => Carries(w, Job(w))
<1>1. Handles(w) => Holds(processing[w], Job(w))
  BY DEF HandledListed, Holds, Places, Job
<1>2. ~ Handles(w) /\ ~ Failing(w) => Carries(w, Job(w))
  BY DEF WorkersTypeOK, WorkerRecord, WorkerPc, Busy, Handles, Failing, Carries
<1>3. QED
  BY <1>1, <1>2 DEF FailingParked, Untouched, Near

-----------------------------------------------------------------------------
(* A step of a worker moves at most the one task it holds *)

(* The lists and hands after a step of the worker, and no job is newly       *)
(* touched.                                                                  *)
CopiesKept ==
    /\ Apart'
    /\ HandledListed'
    /\ FailingParked'
    /\ \A j \in Jobs : Untouched(j) => Untouched(j)'

(* The worker goes on with what it has, and leaves the lists alone.          *)
LEMMA CopiesStay ==
    ASSUME DeliveryInv, NEW w \in Workers, UNCHANGED redis,
           \A v \in Workers \ {w} : worker'[v] = worker[v],
           worker[w].pc \notin {"recover_push", "repush"},
           worker'[w].pc \notin {"recover_push", "repush"},
           Handles(w)' => Handles(w) /\ worker'[w].task = worker[w].task,
           Failing(w)' => Failing(w) /\ worker'[w].task = worker[w].task
    PROVE  CopiesKept
<1>1. Apart /\ HandledListed /\ FailingParked
  BY DEF DeliveryInv
<1>2. UNCHANGED <<queue, processing, dead>>
  BY DEF redis
<1>3. \A v \in Workers, j \in Jobs : Carries(v, j)' <=> Carries(v, j)
  BY DEF Carries, Job
<1>4. Apart' /\ \A j \in Jobs : Untouched(j) => Untouched(j)'
  BY <1>1, <1>2, <1>3 DEF Apart, Untouched, Near
<1>5. HandledListed'
  BY <1>1, <1>2 DEF HandledListed, Handles
<1>6. FailingParked'
  BY <1>1, <1>2 DEF FailingParked, Failing, Job
<1>7. QED
  BY <1>4, <1>5, <1>6 DEF CopiesKept

(* Another worker's lists and task stay, so what it handles is still listed. *)
LEMMA OthersListed ==
    ASSUME HandledListed, NEW w \in Workers,
           \A v \in Workers \ {w} : worker'[v] = worker[v] /\ processing'[v] = processing[v],
           Handles(w)' => \E i \in DOMAIN processing'[w] : processing'[w][i] = worker'[w].task
    PROVE  HandledListed'
  BY DEF HandledListed, Handles

(* The dead list only grows, so what a worker fails is still parked.         *)
LEMMA StillParked ==
    ASSUME FailingParked, NEW w \in Workers,
           \A v \in Workers \ {w} : worker'[v] = worker[v],
           \A j \in Jobs : Holds(dead, j) => Holds(dead', j),
           \A v \in Workers : Failing(v) => Job(v) \in Jobs,
           Failing(w)' => Holds(dead', Job(w)')
    PROVE  FailingParked'
  BY DEF FailingParked, Failing, Job

(* A resting or going worker, field by field.                                *)
LEMMA RestsFields ==
    ASSUME WorkersTypeOK, NEW w \in Workers, NEW pc, Rests(w, pc)
    PROVE  worker'[w].pc = pc /\ \A v \in Workers \ {w} : worker'[v] = worker[v]
  BY DEF WorkersTypeOK, Rests, Resting

(* A worker that goes on keeps its task and its stage.                       *)
LEMMA GoesFields ==
    ASSUME WorkersTypeOK, NEW w \in Workers, NEW pc, Goes(w, pc)
    PROVE  /\ worker'[w].pc = pc
           /\ worker'[w].task = worker[w].task
           /\ worker'[w].stage = worker[w].stage
           /\ worker'[w].read = NoRecord
           /\ \A v \in Workers \ {w} : worker'[v] = worker[v]
  BY DEF WorkersTypeOK, WorkerRecord, Goes

(* A worker that has written a stage goes on to the next stage, to           *)
(* save_result, or after the outcome to the acknowledgement.                 *)
LEMMA WriteFields ==
    ASSUME WorkersTypeOK, NEW w \in Workers, UpdateWrite(w)
    PROVE  /\ worker'[w].task = worker[w].task
           /\ \A v \in Workers \ {w} : worker'[v] = worker[v]
           /\ \/ worker[w].stage = Final /\ worker'[w].pc = "ack"
              \/ /\ worker[w].stage # Final
                 /\ worker'[w].stage \in Following(worker[w].stage)
                 /\ worker'[w].pc = IF worker'[w].stage = Final THEN "save" ELSE "read"
<1>1. CASE worker[w].stage = Final
  BY <1>1, GoesFields DEF UpdateWrite
<1>2. CASE worker[w].stage # Final
  <2>1. PICK next \in Following(worker[w].stage) :
           worker' = [worker EXCEPT ![w].stage = next,
                                    ![w].read = NoRecord,
                                    ![w].pc = IF next = Final THEN "save" ELSE "read"]
    BY <1>2 DEF UpdateWrite
  <2>2. QED
    BY <1>2, <2>1 DEF WorkersTypeOK, WorkerRecord
<1>3. QED
  BY <1>1, <1>2

(* A worker step that moves no task.                                         *)
LEMMA CopiesQuiet ==
    ASSUME DeliveryInv, NEW w \in Workers,
           \/ Start(w) \/ Load(w) \/ UpdateRead(w) \/ UpdateWrite(w) \/ HandleRaises(w)
           \/ SaveResult(w) \/ FailError(w) \/ FailRead(w) \/ FailWrite(w)
    PROVE  CopiesKept
<1>t. WorkersTypeOK /\ StoresTypeOK
  BY DEF DeliveryInv, TypeOK
<1>1. CASE Start(w)
  BY <1>1, <1>t, RestsFields, CopiesStay DEF Start, At, Handles, Failing
<1>2. CASE Load(w)
  <2>1. /\ worker'[w].pc \in {"read", "raised"}
        /\ worker'[w].task = worker[w].task
        /\ \A v \in Workers \ {w} : worker'[v] = worker[v]
    BY <1>2, <1>t DEF Load, WorkersTypeOK, WorkerRecord
  <2>2. QED
    BY <1>2, <2>1, CopiesStay DEF Load, At, Handles, Failing
<1>3. CASE UpdateRead(w)
  <2>1. /\ worker'[w].pc \in {"write", "raised"}
        /\ worker'[w].task = worker[w].task
        /\ \A v \in Workers \ {w} : worker'[v] = worker[v]
    BY <1>3, <1>t DEF UpdateRead, Goes, WorkersTypeOK, WorkerRecord
  <2>2. QED
    BY <1>3, <2>1, CopiesStay DEF UpdateRead, At, Handles, Failing
<1>4. CASE UpdateWrite(w)
  <2>1. /\ worker'[w].pc \in {"read", "save", "ack"}
        /\ worker'[w].task = worker[w].task
        /\ \A v \in Workers \ {w} : worker'[v] = worker[v]
    BY <1>4, <1>t, WriteFields
  <2>2. QED
    BY <1>4, <2>1, CopiesStay DEF UpdateWrite, At, Handles, Failing
<1>5. CASE HandleRaises(w)
  BY <1>5, <1>t, GoesFields, CopiesStay DEF HandleRaises, Handles, Failing
<1>6. CASE SaveResult(w)
  BY <1>6, <1>t, GoesFields, CopiesStay DEF SaveResult, At, Handles, Failing
<1>7. CASE FailError(w)
  BY <1>7, <1>t, GoesFields, CopiesStay DEF FailError, At, Handles, Failing
<1>8. CASE FailRead(w)
  <2>1. /\ \/ worker'[w].pc = "idle"
           \/ worker'[w].pc = "fail_write" /\ worker'[w].task = worker[w].task
        /\ \A v \in Workers \ {w} : worker'[v] = worker[v]
    BY <1>8, <1>t DEF FailRead, Rests, Resting, WorkersTypeOK, WorkerRecord
  <2>2. QED
    BY <1>8, <2>1, CopiesStay DEF FailRead, At, Handles, Failing
<1>9. CASE FailWrite(w)
  BY <1>9, <1>t, RestsFields, CopiesStay DEF FailWrite, At, Handles, Failing
<1>10. QED
  BY <1>1, <1>2, <1>3, <1>4, <1>5, <1>6, <1>7, <1>8, <1>9

(* requeue_stale takes the oldest task off the worker's own list.            *)
LEMMA CopiesPop ==
    ASSUME DeliveryInv, NEW w \in Workers, RecoverPop(w)
    PROVE  CopiesKept
<1>t. /\ WorkersTypeOK
      /\ RedisTypeOK
      /\ Apart /\ HandledListed /\ FailingParked
  BY DEF DeliveryInv, TypeOK
<1>1. CASE processing[w] = <<>>
  <2>1. UNCHANGED redis
    BY <1>1 DEF RecoverPop, redis
  <2>2. QED
    BY <1>1, <1>t, <2>1, RestsFields, CopiesStay DEF RecoverPop, At, Handles, Failing
<1>2. CASE processing[w] # <<>>
  <2> DEFINE head == Head(processing[w])
  <2>1. /\ UNCHANGED <<queue, dead>>
        /\ processing'[w] = Tail(processing[w])
        /\ \A v \in Workers \ {w} : processing'[v] = processing[v]
    BY <1>2, <1>t DEF RecoverPop, RedisTypeOK
  <2>2. /\ worker[w].pc = "recover"
        /\ worker'[w].pc = "recover_push"
        /\ worker'[w].task = head
        /\ \A v \in Workers \ {w} : worker'[v] = worker[v]
    BY <1>2, <1>t DEF RecoverPop, At, WorkersTypeOK, WorkerRecord
  <2>3. processing[w] \in Seq(HeldTask)
    BY <1>t DEF RedisTypeOK
  <2> HIDE DEF head
  <2>4. \A j \in Jobs :
           /\ head.job = j => Holds(processing[w], j)
           /\ Holds(processing'[w], j) => Holds(processing[w], j)
           /\ One(processing[w], j) => One(processing'[w], j)
           /\ One(processing[w], j) /\ head.job = j => ~ Holds(processing'[w], j)
    BY <1>2, <2>1, <2>3, PopHolds DEF head
  <2>5. \A j \in Jobs :
           /\ ~ Carries(w, j)
           /\ Carries(w, j)' <=> head.job = j
           /\ \A v \in Workers \ {w} : Carries(v, j)' <=> Carries(v, j)
    BY <2>2 DEF Carries, Job
  <2>6. Apart' /\ \A j \in Jobs : Untouched(j) => Untouched(j)'
    BY <1>t, <2>1, <2>4, <2>5 DEF Apart, Untouched, Near
  <2>7. HandledListed'
    BY <1>t, <2>1, <2>2, OthersListed DEF Handles
  <2>8. FailingParked'
    BY <1>t, <2>1, <2>2, BusyJob, StillParked DEF Failing, Busy
  <2>9. QED
    BY <2>6, <2>7, <2>8 DEF CopiesKept
<1>3. QED
  BY <1>1, <1>2

(* A worker that carries a task puts it on one list and rests.               *)
LEMMA CopiesPush ==
    ASSUME DeliveryInv, NEW w \in Workers, NEW task \in Task,
           worker[w].pc \in {"recover_push", "repush"},
           task.job = Job(w),
           worker'[w].pc \notin {"recover_push", "repush"},
           ~ Handles(w)',
           \A v \in Workers \ {w} : worker'[v] = worker[v],
           \/ /\ queue' = Append(queue, task) /\ UNCHANGED <<processing, dead>>
              /\ task \in HeldTask
           \/ /\ dead' = Append(dead, task) /\ UNCHANGED <<processing, queue>>
           \/ /\ processing' = [processing EXCEPT ![w] = Append(@, task)]
              /\ task \in HeldTask
              /\ UNCHANGED <<queue, dead>>,
           Failing(w)' => worker'[w].task = worker[w].task /\ dead' = Append(dead, task)
    PROVE  CopiesKept
<1>t. /\ WorkersTypeOK
      /\ RedisTypeOK
      /\ Apart /\ HandledListed /\ FailingParked
  BY DEF DeliveryInv, TypeOK
<1>1. Job(w) \in Jobs /\ \A v \in Workers : Failing(v) => Job(v) \in Jobs
  BY <1>t, BusyJob DEF Busy, Failing
<1>2. \A j \in Jobs :
         /\ Carries(w, j) <=> Job(w) = j
         /\ ~ Carries(w, j)'
         /\ \A v \in Workers \ {w} : Carries(v, j)' <=> Carries(v, j)
  BY DEF Carries, Job
<1>3. ~ Holds(processing[w], Job(w)) /\ ~ Holds(queue, Job(w)) /\ ~ Holds(dead, Job(w))
  BY <1>t, <1>1, <1>2 DEF Apart, Near
<1>4. CASE /\ queue' = Append(queue, task) /\ UNCHANGED <<processing, dead>>
           /\ task \in HeldTask
  <2>1. \A j \in Jobs :
           /\ Holds(queue', j) <=> Holds(queue, j) \/ Job(w) = j
           /\ One(queue, j) /\ (Job(w) = j => ~ Holds(queue, j)) => One(queue', j)
    BY <1>t, <1>4, PushHolds DEF RedisTypeOK
  <2>2. Apart' /\ \A j \in Jobs : Untouched(j) => Untouched(j)'
    BY <1>t, <1>2, <1>3, <1>4, <2>1 DEF Apart, Untouched, Near
  <2>3. ~ Failing(w)'
    BY <1>t, <1>1, <1>3, <1>4, PushHolds DEF RedisTypeOK
  <2>4. QED
    BY <1>t, <1>1, <1>4, <2>2, <2>3, OthersListed, StillParked DEF CopiesKept
<1>5. CASE dead' = Append(dead, task) /\ UNCHANGED <<processing, queue>>
  <2>1. \A j \in Jobs :
           /\ Holds(dead', j) <=> Holds(dead, j) \/ Job(w) = j
           /\ One(dead, j) /\ (Job(w) = j => ~ Holds(dead, j)) => One(dead', j)
    BY <1>t, <1>5, PushHolds DEF RedisTypeOK
  <2>2. Apart' /\ \A j \in Jobs : Untouched(j) => Untouched(j)'
    BY <1>t, <1>2, <1>3, <1>5, <2>1 DEF Apart, Untouched, Near
  <2>3. Failing(w)' => Holds(dead', Job(w)')
    BY <1>1, <2>1 DEF Job
  <2>4. QED
    BY <1>t, <1>1, <1>5, <2>1, <2>2, <2>3, OthersListed, StillParked DEF CopiesKept
<1>6. CASE /\ processing' = [processing EXCEPT ![w] = Append(@, task)]
           /\ task \in HeldTask
           /\ UNCHANGED <<queue, dead>>
  <2>1. /\ processing'[w] = Append(processing[w], task)
        /\ \A v \in Workers \ {w} : processing'[v] = processing[v]
    BY <1>t, <1>6 DEF RedisTypeOK
  <2>2. \A j \in Jobs :
           /\ Holds(processing'[w], j) <=> Holds(processing[w], j) \/ Job(w) = j
           /\ One(processing[w], j) /\ (Job(w) = j => ~ Holds(processing[w], j))
                 => One(processing'[w], j)
    BY <1>t, <1>6, <2>1, PushHolds DEF RedisTypeOK
  <2>3. Apart' /\ \A j \in Jobs : Untouched(j) => Untouched(j)'
    BY <1>t, <1>2, <1>3, <1>6, <2>1, <2>2 DEF Apart, Untouched, Near
  <2>4. ~ Failing(w)'
    BY <1>t, <1>1, <1>3, <1>6, PushHolds DEF RedisTypeOK
  <2>5. QED
    BY <1>t, <1>1, <1>6, <2>1, <2>3, <2>4, OthersListed, StillParked DEF CopiesKept
<1>7. QED
  BY <1>4, <1>5, <1>6

(* rpoplpush takes the task off the queue and puts it on the worker's list.  *)
LEMMA CopiesReserve ==
    ASSUME DeliveryInv, NEW w \in Workers, Reserve(w)
    PROVE  CopiesKept
<1> DEFINE head == Head(queue)
<1>t. /\ WorkersTypeOK
      /\ RedisTypeOK
      /\ Apart /\ HandledListed /\ FailingParked
  BY DEF DeliveryInv, TypeOK
<1>1. /\ queue # <<>>
      /\ queue' = Tail(queue)
      /\ dead' = dead
      /\ processing'[w] = Append(processing[w], head)
      /\ \A v \in Workers \ {w} : processing'[v] = processing[v]
  BY <1>t DEF Reserve, RedisTypeOK
<1>2. /\ worker[w].pc = "idle"
      /\ worker'[w].pc = "load"
      /\ worker'[w].task = head
      /\ \A v \in Workers \ {w} : worker'[v] = worker[v]
  BY <1>t DEF Reserve, At, WorkersTypeOK, WorkerRecord
<1>3. head \in HeldTask /\ queue \in Seq(HeldTask) /\ processing[w] \in Seq(HeldTask)
  BY <1>t, <1>1, HeadTailProperties DEF RedisTypeOK
<1> HIDE DEF head
<1>4. \A j \in Jobs :
         /\ head.job = j => Holds(queue, j)
         /\ Holds(queue', j) => Holds(queue, j)
         /\ One(queue, j) => One(queue', j)
         /\ One(queue, j) /\ head.job = j => ~ Holds(queue', j)
  BY <1>1, <1>3, PopHolds DEF head
<1>5. \A j \in Jobs :
         /\ Holds(processing'[w], j) <=> Holds(processing[w], j) \/ head.job = j
         /\ One(processing[w], j) /\ (head.job = j => ~ Holds(processing[w], j))
               => One(processing'[w], j)
  BY <1>1, <1>3, PushHolds
<1>6. \A j \in Jobs :
         /\ ~ Carries(w, j) /\ ~ Carries(w, j)'
         /\ \A v \in Workers \ {w} : Carries(v, j)' <=> Carries(v, j)
  BY <1>2 DEF Carries, Job
<1>7. Apart' /\ \A j \in Jobs : Untouched(j) => Untouched(j)'
  <2>1. \A j \in Jobs :
           /\ Near(w, j)' <=> Near(w, j) \/ head.job = j
           /\ \A v \in Workers \ {w} : Near(v, j)' <=> Near(v, j)
    BY <1>1, <1>5, <1>6 DEF Near
  <2>2. \A j \in Jobs : Untouched(j) => Untouched(j)'
    BY <1>1, <1>4, <2>1 DEF Untouched
  <2>3. ASSUME NEW j \in Jobs
        PROVE  /\ One(queue', j) /\ One(dead', j) /\ ~ (Holds(queue', j) /\ Holds(dead', j))
               /\ \A v \in Workers : /\ One(processing'[v], j)
                                     /\ ~ (Holds(processing'[v], j) /\ Carries(v, j)')
    BY <1>t, <1>1, <1>4, <1>5, <1>6, <2>3 DEF Apart, Near
  <2>4. ASSUME NEW j \in Jobs, NEW v \in Workers, Near(v, j)'
        PROVE  /\ ~ Holds(queue', j) /\ ~ Holds(dead', j)
               /\ \A u \in Workers : Near(u, j)' => u = v
    <3>1. CASE head.job = j
      BY <1>t, <1>1, <1>4, <2>1, <2>4, <3>1 DEF Apart
    <3>2. CASE head.job # j
      BY <1>t, <1>1, <1>4, <2>1, <2>4, <3>2 DEF Apart
    <3>3. QED
      BY <3>1, <3>2
  <2>5. Apart'
    BY <2>3, <2>4 DEF Apart
  <2>6. QED
    BY <2>2, <2>5
<1>8. HandledListed'
  <2>1. \E i \in DOMAIN processing'[w] : processing'[w][i] = head
    <3>1. /\ Len(processing[w]) + 1 \in DOMAIN Append(processing[w], head)
          /\ Append(processing[w], head)[Len(processing[w]) + 1] = head
      BY <1>3, AppendProperties, LenProperties
    <3>2. QED
      BY <1>1, <3>1
  <2>2. QED
    BY <1>t, <1>1, <1>2, <2>1, OthersListed
<1>9. FailingParked'
  BY <1>t, <1>1, <1>2, BusyJob, StillParked DEF Failing, Busy
<1>10. QED
  BY <1>7, <1>8, <1>9 DEF CopiesKept

(* ack takes the task off the list; after retry's the worker carries it.     *)
LEMMA CopiesAck ==
    ASSUME DeliveryInv, NEW w \in Workers, Ack(w) \/ RetryAck(w)
    PROVE  CopiesKept
<1>t. /\ WorkersTypeOK
      /\ RedisTypeOK
      /\ Apart /\ HandledListed /\ FailingParked
  BY DEF DeliveryInv, TypeOK
<1>1. /\ UNCHANGED <<queue, dead>>
      /\ processing'[w] = Lrem(processing[w], worker[w].task)
      /\ \A v \in Workers \ {w} : processing'[v] = processing[v]
  BY <1>t DEF Ack, RetryAck, RedisTypeOK
<1>2. /\ worker[w].pc \in {"ack", "raised"}
      /\ \/ worker'[w].pc = "idle"
         \/ worker'[w].pc = "repush" /\ worker'[w].task = worker[w].task
      /\ \A v \in Workers \ {w} : worker'[v] = worker[v]
  BY <1>t, RestsFields, GoesFields DEF Ack, RetryAck, At
<1>3. Job(w) \in Jobs /\ Holds(processing[w], Job(w))
  BY <1>t, <1>2, BusyJob, BusyTouches DEF Busy, Handles
<1>4. processing[w] \in Seq(HeldTask) /\ \E i \in DOMAIN processing[w] : processing[w][i] = worker[w].task
  BY <1>t, <1>2 DEF RedisTypeOK, HandledListed, Handles
<1>5. \A j \in Jobs :
         /\ Holds(processing'[w], j) => Holds(processing[w], j)
         /\ One(processing[w], j) => One(processing'[w], j)
         /\ One(processing[w], j) /\ Job(w) = j => ~ Holds(processing'[w], j)
  BY <1>1, <1>4, LremHolds DEF Job
<1>6. \A j \in Jobs :
         /\ ~ Carries(w, j)
         /\ Carries(w, j)' => Job(w) = j
         /\ \A v \in Workers \ {w} : Carries(v, j)' <=> Carries(v, j)
  BY <1>2 DEF Carries, Job
<1>7. Apart' /\ \A j \in Jobs : Untouched(j) => Untouched(j)'
  BY <1>t, <1>1, <1>3, <1>5, <1>6 DEF Apart, Untouched, Near
<1>8. HandledListed'
  BY <1>t, <1>1, <1>2, OthersListed DEF Handles
<1>9. FailingParked'
  BY <1>t, <1>1, <1>2, BusyJob, StillParked DEF Failing, Busy
<1>10. QED
  BY <1>7, <1>8, <1>9 DEF CopiesKept

(* A worker that rests without pushing what it carries loses the task.       *)
LEMMA CopiesLost ==
    ASSUME DeliveryInv, NEW w \in Workers, NEW pc \in {"down", "idle"}, Rests(w, pc),
           UNCHANGED redis
    PROVE  CopiesKept
<1>t. /\ WorkersTypeOK
      /\ Apart /\ HandledListed /\ FailingParked
  BY DEF DeliveryInv, TypeOK
<1>1. worker'[w].pc = pc /\ \A v \in Workers \ {w} : worker'[v] = worker[v]
  BY <1>t, RestsFields
<1>2. UNCHANGED <<queue, processing, dead>>
  BY DEF redis
<1>3. \A j \in Jobs :
         /\ ~ Carries(w, j)'
         /\ \A v \in Workers \ {w} : Carries(v, j)' <=> Carries(v, j)
  BY <1>1 DEF Carries, Job
<1>4. Apart' /\ \A j \in Jobs : Untouched(j) => Untouched(j)'
  BY <1>t, <1>2, <1>3 DEF Apart, Untouched, Near
<1>5. HandledListed'
  BY <1>t, <1>1, <1>2, OthersListed DEF Handles
<1>6. FailingParked'
  BY <1>t, <1>1, <1>2, BusyJob, StillParked DEF Failing, Busy
<1>7. QED
  BY <1>4, <1>5, <1>6 DEF CopiesKept

(* retry pushes the task again with one more attempt, or parks it.           *)
LEMMA CopiesRepush ==
    ASSUME DeliveryInv, NEW w \in Workers, Repush(w)
    PROVE  CopiesKept
<1> DEFINE again == [worker[w].task EXCEPT !.attempts = @ + 1]
<1>t. WorkersTypeOK /\ RedisTypeOK
  BY DEF DeliveryInv, TypeOK
<1>1. worker[w].task \in HeldTask /\ worker[w].pc = "repush"
  BY <1>t, BusyJob DEF Repush, At, Busy
<1>2. /\ again \in Task
      /\ again.job = Job(w)
      /\ again.attempts < MaxAttempts => again \in HeldTask
  BY <1>1, BoundsAssumption DEF HeldTask, Task, Job
<1>3. \/ /\ dead' = Append(dead, again) /\ Goes(w, "fail_error") /\ UNCHANGED <<queue, processing>>
      \/ /\ queue' = Append(queue, again) /\ again \in HeldTask
         /\ Rests(w, "idle")
         /\ UNCHANGED <<dead, processing>>
  <2>1. again.attempts \in Int /\ MaxAttempts \in Int
    BY <1>2, BoundsAssumption DEF Task
  <2> HIDE DEF again
  <2>2. QED
    BY <1>2, <2>1 DEF Repush, again
<1> HIDE DEF again
<1>4. CASE dead' = Append(dead, again) /\ Goes(w, "fail_error") /\ UNCHANGED <<queue, processing>>
  BY <1>t, <1>1, <1>2, <1>4, GoesFields, CopiesPush DEF Handles
<1>5. CASE /\ queue' = Append(queue, again) /\ again \in HeldTask
           /\ Rests(w, "idle")
           /\ UNCHANGED <<dead, processing>>
  BY <1>t, <1>1, <1>2, <1>5, RestsFields, CopiesPush DEF Handles, Failing
<1>6. QED
  BY <1>3, <1>4, <1>5

(* Every step of a worker keeps the tasks apart.                             *)
LEMMA CopiesWork ==
    ASSUME DeliveryInv, NEW w \in Workers, Work(w) \/ FailSwallowed(w) \/ WorkerCrash(w)
    PROVE  CopiesKept
<1>t. WorkersTypeOK
  BY DEF DeliveryInv, TypeOK
<1>1. CASE RecoverExpired(w)
  <2>1. worker[w].task \in HeldTask /\ worker[w].task \in Task
    BY <1>t, <1>1, BusyJob, RestingTypes DEF RecoverExpired, At, Busy
  <2>2. QED
    BY <1>t, <1>1, <2>1, RestsFields, CopiesPush DEF RecoverExpired, At, Handles, Failing, Job
<1>2. CASE RecoverLeased(w)
  <2>1. worker[w].task \in HeldTask /\ worker[w].task \in Task
    BY <1>t, <1>2, BusyJob, RestingTypes DEF RecoverLeased, At, Busy
  <2>2. QED
    <3>1. worker[w].pc = "recover_push" /\ worker'[w].pc = "idle"
      BY <1>t, <1>2, RestsFields DEF RecoverLeased, At
    <3>2. \A v \in Workers \ {w} : worker'[v] = worker[v]
      BY <1>t, <1>2, RestsFields DEF RecoverLeased
    <3>3. /\ processing' = [processing EXCEPT ![w] = Append(@, worker[w].task)]
          /\ UNCHANGED <<queue, dead>>
      BY <1>2 DEF RecoverLeased
    <3>4. QED
      BY <2>1, <3>1, <3>2, <3>3, CopiesPush DEF Handles, Failing, Job
<1>3. CASE FailSwallowed(w) \/ WorkerCrash(w)
  BY <1>3, CopiesLost DEF FailSwallowed, WorkerCrash
<1>4. QED
  BY <1>1, <1>2, <1>3, CopiesQuiet, CopiesPop, CopiesReserve, CopiesAck, CopiesRepush DEF Work

-----------------------------------------------------------------------------
(* A worker writes only about its own job, and only what it asks for *)

(* The worker steps that leave the job store alone.                          *)
LEMMA OnlyWrites ==
    ASSUME NEW w \in Workers, Work(w) \/ FailSwallowed(w) \/ WorkerCrash(w)
    PROVE  /\ UNCHANGED <<api, objects, audioKeys>>
           /\ ~ (UpdateWrite(w) \/ FailError(w) \/ FailWrite(w)) => UNCHANGED db
           /\ ~ SaveResult(w) => UNCHANGED results
  BY DEF Work, FailSwallowed, WorkerCrash, Start, RecoverPop, RecoverExpired, RecoverLeased,
         Reserve, Load, UpdateRead, UpdateWrite, HandleRaises, SaveResult, Ack, RetryAck, Repush,
         FailError, FailRead, FailWrite, stores

(* What a worker step does to the record and the transcript of a job.        *)
LEMMA WorkWrites ==
    ASSUME DeliveryInv, NEW w \in Workers, Work(w) \/ FailSwallowed(w) \/ WorkerCrash(w)
    PROVE  \A j \in Jobs :
              /\ Untouched(j) => db'[j] = db[j] /\ (j \in results' <=> j \in results)
              /\ db'[j].state = "absent" => db[j].state = "absent"
<1>t. /\ StoresTypeOK /\ WorkersTypeOK
      /\ HandledListed /\ FailingParked /\ Asks
  BY DEF DeliveryInv, TypeOK
<1>1. CASE UpdateWrite(w) \/ FailError(w) \/ FailWrite(w) \/ SaveResult(w)
  <2>1. Job(w) \in Jobs /\ ~ Untouched(Job(w))
    BY <1>t, <1>1, BusyJob, BusyTouches
       DEF UpdateWrite, FailError, FailWrite, SaveResult, At, Busy
  <2>2. \A j \in Jobs \ {Job(w)} : db'[j] = db[j] /\ (j \in results' <=> j \in results)
    BY <1>t, <1>1 DEF UpdateWrite, FailError, FailWrite, SaveResult, StoresTypeOK
  <2>3. db'[Job(w)].state = "absent" => db[Job(w)].state = "absent"
    <3>1. CASE UpdateWrite(w)
      <4>1. worker[w].stage \in 1 .. Final /\ worker[w].read.state \in Targets(worker[w].stage)
        BY <1>t, <3>1, BusyJob DEF UpdateWrite, At, Busy, Asks
      <4>2. worker[w].read.state # "absent"
        BY <4>1, TargetsReal
      <4>3. QED
        BY <1>t, <2>1, <3>1, <4>2 DEF UpdateWrite, StoresTypeOK
    <3>2. CASE FailError(w)
      BY <1>t, <2>1, <3>2 DEF FailError, StoresTypeOK, Record
    <3>3. CASE FailWrite(w)
      BY <1>t, <2>1, <3>3 DEF FailWrite, StoresTypeOK, Asks, At
    <3>4. CASE SaveResult(w)
      BY <3>4 DEF SaveResult
    <3>5. QED
      BY <1>1, <3>1, <3>2, <3>3, <3>4
  <2>4. QED
    BY <2>1, <2>2, <2>3
<1>2. QED
  BY <1>1, OnlyWrites

(* A worker that is at neither write asks for nothing.                       *)
LEMMA AsksNothing ==
    ASSUME Asks, NEW w \in Workers, \A v \in Workers \ {w} : worker'[v] = worker[v],
           worker'[w].pc \notin {"write", "fail_write"}
    PROVE  Asks'
  BY DEF Asks, At

(* A worker reaches the write only from the read that chose the state.       *)
LEMMA AsksStep ==
    ASSUME TypeOK, Asks, NEW w \in Workers, Work(w) \/ FailSwallowed(w) \/ WorkerCrash(w)
    PROVE  Asks'
<1>t. WorkersTypeOK /\ StoresTypeOK
  BY DEF TypeOK
<1>1. CASE Start(w) \/ RecoverExpired(w) \/ RecoverLeased(w) \/ Ack(w) \/ FailWrite(w)
             \/ FailSwallowed(w) \/ WorkerCrash(w)
  BY <1>t, <1>1, RestsFields, AsksNothing
     DEF Start, RecoverExpired, RecoverLeased, Ack, FailWrite, FailSwallowed, WorkerCrash
<1>2. CASE HandleRaises(w) \/ SaveResult(w) \/ RetryAck(w) \/ FailError(w)
  BY <1>t, <1>2, GoesFields, AsksNothing DEF HandleRaises, SaveResult, RetryAck, FailError
<1>3. CASE Repush(w)
  BY <1>t, <1>3, GoesFields, RestsFields, AsksNothing DEF Repush
<1>4. CASE RecoverPop(w) \/ Reserve(w) \/ Load(w)
  <2>1. /\ worker'[w].pc \in {"idle", "recover_push", "load", "read", "raised"}
        /\ \A v \in Workers \ {w} : worker'[v] = worker[v]
    BY <1>t, <1>4
       DEF RecoverPop, Reserve, Load, Rests, Resting, WorkersTypeOK, WorkerRecord
  <2>2. QED
    BY <2>1, AsksNothing
<1>5. CASE UpdateWrite(w)
  BY <1>t, <1>5, WriteFields, AsksNothing
<1>6. CASE UpdateRead(w)
  <2>1. db[Job(w)] \in Record
    BY <1>t, <1>6, BusyJob DEF UpdateRead, At, Busy, StoresTypeOK
  <2>2. PICK state \in Targets(worker[w].stage) :
           IF MayEnter(db[Job(w)], state)
           THEN worker' = [worker EXCEPT ![w].pc = "write",
                                         ![w].read = [db[Job(w)] EXCEPT !.state = state]]
           ELSE Goes(w, "raised")
    BY <1>6 DEF UpdateRead
  <2>3. CASE MayEnter(db[Job(w)], state)
    <3>1. /\ worker'[w].pc = "write"
          /\ worker'[w].stage = worker[w].stage
          /\ worker'[w].read.state = state
          /\ \A v \in Workers \ {w} : worker'[v] = worker[v]
      BY <1>t, <2>1, <2>2, <2>3 DEF WorkersTypeOK, WorkerRecord, Record
    <3>2. QED
      BY <3>1 DEF Asks, At
  <2>4. CASE ~ MayEnter(db[Job(w)], state)
    BY <1>t, <2>2, <2>4, GoesFields, AsksNothing
  <2>5. QED
    BY <2>3, <2>4
<1>7. CASE FailRead(w)
  <2>1. db[Job(w)] \in Record
    BY <1>t, <1>7, BusyJob DEF FailRead, At, Busy, StoresTypeOK
  <2>2. CASE MayEnter(db[Job(w)], "FAILED")
    <3>1. /\ worker'[w].pc = "fail_write"
          /\ worker'[w].read.state = "FAILED"
          /\ \A v \in Workers \ {w} : worker'[v] = worker[v]
      BY <1>t, <1>7, <2>1, <2>2 DEF FailRead, WorkersTypeOK, WorkerRecord, Record
    <3>2. QED
      BY <3>1 DEF Asks, At
  <2>3. CASE ~ MayEnter(db[Job(w)], "FAILED")
    BY <1>t, <1>7, <2>3, RestsFields, AsksNothing DEF FailRead
  <2>4. QED
    BY <2>2, <2>3
<1>8. QED
  BY <1>1, <1>2, <1>3, <1>4, <1>5, <1>6, <1>7 DEF Work

-----------------------------------------------------------------------------
(* The invariant is inductive *)

(* POST has pushed nothing for a job that does not exist or is being         *)
(* submitted, and no worker can have touched it.                             *)
LEMMA DeliveryStep == DeliveryInv /\ [Next]_vars => DeliveryInv'
<1> DEFINE Rest == /\ Apart /\ HandledListed /\ FailingParked
                   /\ Asks /\ NewUntouched /\ Undelivered
<1> SUFFICES ASSUME DeliveryInv, [Next]_vars PROVE Rest'
  BY TypeStep DEF DeliveryInv
<1>t. /\ StoresTypeOK /\ ApiTypeOK /\ WorkersTypeOK /\ RedisTypeOK
      /\ Apart /\ HandledListed /\ FailingParked /\ Asks /\ NewUntouched /\ Undelivered
  BY DEF DeliveryInv, TypeOK
<1>w. UNCHANGED worker /\ UNCHANGED redis =>
         /\ Apart' /\ HandledListed' /\ FailingParked' /\ Asks'
         /\ \A j : Untouched(j)' <=> Untouched(j)
  BY <1>t, CopiesFrame DEF HandledListed, Handles, FailingParked, Failing, Job, Asks, At, redis
<1>1. ASSUME NEW j \in Jobs, Submit(j) PROVE Rest'
  <2>1. /\ Apart' /\ HandledListed' /\ FailingParked' /\ Asks'
        /\ \A k : Untouched(k)' <=> Untouched(k)
    BY <1>1, <1>w DEF Submit
  <2>2. /\ db[j].state = "absent"
        /\ db'[j].state = "QUEUED"
        /\ \A k \in Jobs \ {j} : db'[k] = db[k]
        /\ results' = results
        /\ api'.job = j
    BY <1>1, <1>t DEF Submit, StoresTypeOK, Record, ApiTypeOK
  <2>3. Untouched(j) /\ j \notin results
    BY <1>t, <2>2 DEF NewUntouched
  <2>4. NewUntouched'
    BY <1>t, <2>1, <2>2 DEF NewUntouched
  <2>5. Undelivered'
    BY <2>1, <2>2, <2>3 DEF Undelivered
  <2>6. QED
    BY <2>1, <2>4, <2>5
<1>2. ASSUME NEW j \in Jobs, Resubmit(j) PROVE Rest'
  BY <1>2, <1>w, <1>t DEF Resubmit, vars, stores, NewUntouched, Undelivered, Submitting
<1>3. ASSUME NEW j \in Jobs, Delete(j) PROVE Rest'
  <2>1. /\ Apart' /\ HandledListed' /\ FailingParked' /\ Asks'
        /\ \A k : Untouched(k)' <=> Untouched(k)
    BY <1>3, <1>w DEF Delete
  <2>2. NewUntouched'
    BY <1>3, <1>t, <2>1 DEF Delete, NewUntouched
  <2>3. ~ Submitting'
    <3>1. \/ api'.pc = "idle"
          \/ api'.pc = "cancel_read" /\ api'.job = j
      <4>1. api' = ApiResting \/ api' = [api EXCEPT !.pc = "cancel_read", !.job = j]
        BY <1>3 DEF Delete, ApiReturns
      <4>2. CASE api' = ApiResting
        BY <4>2 DEF ApiResting
      <4>3. CASE api' = [api EXCEPT !.pc = "cancel_read", !.job = j]
        BY <1>t, <4>3 DEF ApiTypeOK
      <4>4. QED
        BY <4>1, <4>2, <4>3
    <3>2. j \in Deletable
      BY <1>3 DEF Delete
    <3>3. QED
      BY <3>1, <3>2 DEF Submitting
  <2>4. QED
    BY <2>1, <2>2, <2>3 DEF Undelivered
<1>4. CASE PutAudio \/ Refuse
  <2>1. /\ Apart' /\ HandledListed' /\ FailingParked' /\ Asks'
        /\ \A k : Untouched(k)' <=> Untouched(k)
    BY <1>4, <1>w DEF PutAudio, Refuse
  <2>2. NewUntouched'
    BY <1>4, <1>t, <2>1 DEF PutAudio, Refuse, NewUntouched
  <2>3. Submitting /\ api'.job = api.job
    BY <1>4, <1>t DEF PutAudio, Refuse, ApiAt, ApiGoes, ApiTypeOK, Submitting
  <2>4. Undelivered'
    BY <1>4, <1>t, <2>1, <2>3 DEF PutAudio, Refuse, Undelivered
  <2>5. QED
    BY <2>1, <2>2, <2>4
<1>5. CASE Enqueue
  <2>1. UNCHANGED <<worker, processing, dead, db, results>>
    BY <1>5 DEF Enqueue, stores
  <2>2. CASE Len(queue) >= MaxDepth
    <3>1. UNCHANGED redis
      BY <1>5, <2>1, <2>2 DEF Enqueue, redis
    <3>2. Submitting /\ api'.job = api.job
      BY <1>5, <1>t, <2>2 DEF Enqueue, ApiAt, ApiGoes, ApiTypeOK, Submitting
    <3>3. NewUntouched' /\ Undelivered'
      BY <1>t, <1>w, <2>1, <3>1, <3>2 DEF NewUntouched, Undelivered
    <3>4. QED
      BY <1>w, <2>1, <3>1, <3>3
  <2>3. CASE ~ (Len(queue) >= MaxDepth)
    <3> DEFINE task == [job |-> api.job, attempts |-> 0]
    <3>1. queue' = Append(queue, task) /\ api'.pc = "idle"
      BY <1>5, <2>3 DEF Enqueue, ApiReturns, ApiResting
    <3>2. /\ task \in HeldTask
          /\ task.job = api.job
          /\ api.job \in Jobs
          /\ queue \in Seq(HeldTask)
      BY <1>5, <1>t, BoundsAssumption DEF Enqueue, ApiTypeOK, ApiAt, HeldTask, RedisTypeOK
    <3>3. Untouched(api.job) /\ db[api.job].state = "QUEUED"
      BY <1>5, <1>t DEF Enqueue, ApiAt, Undelivered, Submitting
    <3> HIDE DEF task
    <3>4. \A j \in Jobs :
             /\ Holds(queue', j) <=> Holds(queue, j) \/ api.job = j
             /\ One(queue, j) /\ (api.job = j => ~ Holds(queue, j)) => One(queue', j)
      BY <3>1, <3>2, PushHolds
    <3>5. \A v \in Workers, j \in Jobs : Carries(v, j)' <=> Carries(v, j)
      BY <2>1 DEF Carries, Job
    <3>6. Apart' /\ \A j \in Jobs : Untouched(j) /\ j # api.job => Untouched(j)'
      BY <1>t, <2>1, <3>3, <3>4, <3>5 DEF Apart, Untouched, Near
    <3>7. HandledListed' /\ FailingParked' /\ Asks'
      BY <1>t, <2>1 DEF HandledListed, Handles, FailingParked, Failing, Job, Asks, At
    <3>8. NewUntouched' /\ Undelivered'
      BY <1>t, <2>1, <3>1, <3>3, <3>6 DEF NewUntouched, Undelivered, Submitting
    <3>9. QED
      BY <3>6, <3>7, <3>8
  <2>4. QED
    BY <2>2, <2>3
<1>6. CASE CancelRead
  <2>1. /\ Apart' /\ HandledListed' /\ FailingParked' /\ Asks'
        /\ \A k : Untouched(k)' <=> Untouched(k)
    BY <1>6, <1>w DEF CancelRead
  <2>2. NewUntouched'
    BY <1>6, <1>t, <2>1 DEF CancelRead, stores, NewUntouched
  <2>3. Submitting' => Submitting /\ api'.job = api.job
    <3>1. /\ api.pc = "cancel_read"
          /\ \/ api'.pc = "idle"
             \/ api'.pc = "cancel_write" /\ api'.job = api.job
      <4>1. \/ api' = ApiResting
            \/ api' = [api EXCEPT !.pc = "cancel_write", !.read = db[api.job]]
        BY <1>6 DEF CancelRead, ApiReturns
      <4>2. CASE api' = ApiResting
        BY <1>6, <4>2 DEF CancelRead, ApiAt, ApiResting
      <4>3. CASE api' = [api EXCEPT !.pc = "cancel_write", !.read = db[api.job]]
        BY <1>6, <1>t, <4>3 DEF CancelRead, ApiAt, ApiTypeOK
      <4>4. QED
        BY <4>1, <4>2, <4>3
    <3>2. QED
      BY <3>1 DEF Submitting
  <2>4. Undelivered'
    BY <1>6, <1>t, <2>1, <2>3 DEF CancelRead, stores, Undelivered
  <2>5. QED
    BY <2>1, <2>2, <2>4
<1>7. CASE CancelWrite
  <2>1. /\ Apart' /\ HandledListed' /\ FailingParked' /\ Asks'
        /\ \A k : Untouched(k)' <=> Untouched(k)
    BY <1>7, <1>w DEF CancelWrite
  <2>2. /\ results' = results
        /\ db'[api.job].state = "CANCELLED"
        /\ \A k \in Jobs \ {api.job} : db'[k] = db[k]
    BY <1>7, <1>t DEF CancelWrite, ApiAt, ApiTypeOK, StoresTypeOK, Record
  <2>3. NewUntouched'
    BY <1>t, <2>1, <2>2 DEF NewUntouched
  <2>4. ~ Submitting'
    BY <1>7 DEF CancelWrite, ApiReturns, ApiResting, Submitting
  <2>5. QED
    BY <2>1, <2>3, <2>4 DEF Undelivered
<1>8. CASE StoreFails \/ ApiRestart
  <2>1. /\ Apart' /\ HandledListed' /\ FailingParked' /\ Asks'
        /\ \A k : Untouched(k)' <=> Untouched(k)
    BY <1>8, <1>w DEF StoreFails, ApiRestart
  <2>2. NewUntouched'
    BY <1>8, <1>t, <2>1 DEF StoreFails, ApiRestart, stores, NewUntouched
  <2>3. ~ Submitting'
    BY <1>8 DEF StoreFails, ApiRestart, ApiReturns, ApiResting, Submitting
  <2>4. QED
    BY <2>1, <2>2, <2>3 DEF Undelivered
<1>9. ASSUME NEW w \in Workers, Work(w) \/ FailSwallowed(w) \/ WorkerCrash(w) PROVE Rest'
  <2>1. /\ Apart' /\ HandledListed' /\ FailingParked'
        /\ \A j \in Jobs : Untouched(j) => Untouched(j)'
    BY <1>9, CopiesWork DEF CopiesKept
  <2>2. Asks'
    BY <1>9, AsksStep DEF DeliveryInv
  <2>3. \A j \in Jobs :
           /\ Untouched(j) => db'[j] = db[j] /\ (j \in results' <=> j \in results)
           /\ db'[j].state = "absent" => db[j].state = "absent"
    BY <1>9, WorkWrites
  <2>4. NewUntouched'
    BY <1>t, <2>1, <2>3 DEF NewUntouched
  <2>5. api' = api
    BY <1>9, OnlyWrites
  <2>6. Submitting => api.job \in Jobs
    BY <1>t DEF Submitting, ApiTypeOK, ApiAt
  <2>7. Undelivered'
    BY <1>t, <2>1, <2>3, <2>5, <2>6 DEF Undelivered, Submitting
  <2>8. QED
    BY <2>1, <2>2, <2>4, <2>7
<1>10. CASE UNCHANGED vars
  BY <1>10, <1>w, <1>t DEF vars, stores, NewUntouched, Undelivered, Submitting
<1>11. QED
  BY <1>1, <1>2, <1>3, <1>4, <1>5, <1>6, <1>7, <1>8, <1>9, <1>10 DEF Next, Api

-----------------------------------------------------------------------------
(* Single delivery *)

(* A set without two different members has at most one.                      *)
LEMMA AtMostOne ==
    ASSUME NEW S, \A a, b \in S : a = b
    PROVE  Cardinality(S) \in {0, 1} /\ (S = {} => Cardinality(S) = 0)
<1>1. CASE S = {}
  BY <1>1, FS_EmptySet
<1>2. CASE S # {}
  <2>1. PICK x \in S : TRUE
    BY <1>2
  <2>2. S = {x}
    BY <2>1
  <2>3. Cardinality(S) = 1
    BY <2>2, FS_Singleton
  <2>4. QED
    BY <1>2, <2>3
<1>3. QED
  BY <1>1, <1>2

(* Counting the places of a task: what Apart says, as SingleDelivery does.   *)
LEMMA ApartCounts == Apart /\ HandledListed => SingleDelivery
<1> SUFFICES ASSUME Apart, HandledListed, NEW j \in Jobs
             PROVE  Cardinality(Places(queue, j)) + Cardinality(Places(dead, j))
                       + Cardinality(UNION {{w} \X Places(processing[w], j) : w \in Workers})
                       + Cardinality({w \in Workers : Carries(w, j)}) <= 1
  BY DEF SingleDelivery, HandledListed
<1> DEFINE listed == UNION {{w} \X Places(processing[w], j) : w \in Workers}
           carried == {w \in Workers : Carries(w, j)}
<1>1. \A x \in listed :
         \E w \in Workers : \E i \in Places(processing[w], j) : x = <<w, i>> /\ Near(w, j)
  BY DEF Near, Holds
<1>2. \A x \in carried : x \in Workers /\ Near(x, j)
  BY DEF Near
<1>3. \A a, b \in listed : a = b
  <2> SUFFICES ASSUME NEW a \in listed, NEW b \in listed PROVE a = b
    OBVIOUS
  <2>1. PICK v \in Workers : \E i \in Places(processing[v], j) : a = <<v, i>> /\ Near(v, j)
    BY <1>1
  <2>2. PICK w \in Workers : \E i \in Places(processing[w], j) : b = <<w, i>> /\ Near(w, j)
    BY <1>1
  <2> HIDE DEF listed
  <2>3. v = w
    BY <2>1, <2>2 DEF Apart
  <2>4. \A i, k \in Places(processing[w], j) : i = k
    BY DEF Apart, One
  <2>5. QED
    BY <2>1, <2>2, <2>3, <2>4
<1>4. \A a, b \in carried : a = b
  BY <1>2 DEF Apart
<1>5. /\ Cardinality(Places(queue, j)) \in {0, 1}
      /\ Places(queue, j) = {} => Cardinality(Places(queue, j)) = 0
      /\ Cardinality(Places(dead, j)) \in {0, 1}
      /\ Places(dead, j) = {} => Cardinality(Places(dead, j)) = 0
  <2>1. One(queue, j) /\ One(dead, j)
    BY DEF Apart
  <2>2. QED
    BY <2>1, AtMostOne DEF One
<1>6. /\ Cardinality(listed) \in {0, 1}
      /\ listed = {} => Cardinality(listed) = 0
      /\ Cardinality(carried) \in {0, 1}
      /\ carried = {} => Cardinality(carried) = 0
  <2> HIDE DEF listed, carried
  <2> QED
    BY <1>3, <1>4, AtMostOne
<1>7. \/ Places(queue, j) = {} /\ Places(dead, j) = {} /\ (listed = {} \/ carried = {})
      \/ Places(queue, j) = {} /\ listed = {} /\ carried = {}
      \/ Places(dead, j) = {} /\ listed = {} /\ carried = {}
  <2>1. listed # {} \/ carried # {} => Places(queue, j) = {} /\ Places(dead, j) = {}
    <3> HIDE DEF listed, carried
    <3> QED
      BY <1>1, <1>2 DEF Apart, Holds
  <2>2. Places(queue, j) = {} \/ Places(dead, j) = {}
    BY DEF Apart, Holds
  <2>3. listed = {} \/ carried = {}
    <3> SUFFICES ASSUME NEW a \in listed, NEW b \in carried PROVE FALSE
      OBVIOUS
    <3>1. PICK v \in Workers : Holds(processing[v], j)
      BY <1>1 DEF Holds
    <3>2. b = v
      BY <1>2, <3>1 DEF Apart, Near
    <3>3. QED
      BY <3>1, <3>2 DEF Apart
  <2> HIDE DEF listed, carried
  <2>4. QED
    BY <2>1, <2>2, <2>3
<1> HIDE DEF listed, carried
<1>8. Cardinality(Places(queue, j)) + Cardinality(Places(dead, j))
         + Cardinality(listed) + Cardinality(carried) <= 1
  BY <1>5, <1>6, <1>7
<1>9. QED
  BY <1>8 DEF listed, carried

(* The job path keeps the delivery invariant.                                *)
LEMMA DeliveryAlways == Spec => []DeliveryInv
<1>1. QED
  BY DeliveryInit, DeliveryStep, PTL DEF Spec

(* Whatever workers and API crash, retry or recover, the task of a job is in *)
(* one list or one worker's hand, and a task being handled is on the list of *)
(* its worker: reserve, retry and requeue_stale never hand a job to two      *)
(* workers.                                                                  *)
THEOREM DeliveredToOne == Spec => []SingleDelivery
<1>1. DeliveryInv => SingleDelivery
  BY ApartCounts DEF DeliveryInv
<1>2. QED
  BY <1>1, DeliveryAlways, PTL

-----------------------------------------------------------------------------
(* What a worker may rely on while it handles a task *)

(* No other worker handles or fails the job that a worker handles.           *)
LEMMA Exclusive ==
    ASSUME DeliveryInv, NEW w \in Workers, NEW v \in Workers, v # w,
           Handles(w), Handles(v) \/ Failing(v)
    PROVE  Job(v) # Job(w)
<1>1. WorkersTypeOK /\ HandledListed /\ FailingParked /\ Apart
  BY DEF DeliveryInv, TypeOK
<1>2. Busy(w) /\ Busy(v)
  BY DEF Busy, Handles, Failing
<1>3. Job(w) \in Jobs /\ Near(w, Job(w))
  BY <1>1, <1>2, BusyJob, BusyTouches DEF Near
<1>4. CASE Handles(v)
  <2>1. Near(v, Job(v))
    BY <1>1, <1>2, <1>4, BusyTouches DEF Near
  <2>2. QED
    BY <1>1, <1>3, <2>1 DEF Apart
<1>5. CASE Failing(v)
  BY <1>1, <1>3, <1>5 DEF Apart, FailingParked
<1>6. QED
  BY <1>4, <1>5

(* A task that was parked stays on the dead list.                            *)
LEMMA DeadGrows ==
    ASSUME TypeOK, [Next]_vars
    PROVE  \A j \in Jobs : Holds(dead, j) => Holds(dead', j)
<1>t. RedisTypeOK /\ WorkersTypeOK
  BY DEF TypeOK
<1>1. ASSUME NEW w \in Workers, Repush(w)
      PROVE  \A j \in Jobs : Holds(dead, j) => Holds(dead', j)
  <2> DEFINE again == [worker[w].task EXCEPT !.attempts = @ + 1]
  <2>1. again \in Task
    <3>1. worker[w].task \in HeldTask
      BY <1>t, <1>1, BusyJob DEF Repush, At, Busy
    <3>2. QED
      BY <3>1, BoundsAssumption DEF HeldTask, Task
  <2>2. dead' = Append(dead, again) \/ dead' = dead
    BY <1>1 DEF Repush
  <2> HIDE DEF again
  <2>3. QED
    BY <1>t, <2>1, <2>2, PushHolds DEF RedisTypeOK
<1>2. ASSUME NEW w \in Workers, Work(w) \/ FailSwallowed(w) \/ WorkerCrash(w), ~ Repush(w)
      PROVE  dead' = dead
  BY <1>2
     DEF Work, FailSwallowed, WorkerCrash, Start, RecoverPop, RecoverExpired, RecoverLeased,
         Reserve, Load, UpdateRead, UpdateWrite, HandleRaises, SaveResult, Ack, RetryAck,
         FailError, FailRead, FailWrite, redis
<1>3. ASSUME NEW j \in Jobs, Submit(j) \/ Resubmit(j) \/ Delete(j)
      PROVE  dead' = dead
  BY <1>3 DEF Submit, Resubmit, Delete, vars, redis
<1>4. Api \/ StoreFails \/ ApiRestart => dead' = dead
  BY DEF Api, PutAudio, Enqueue, Refuse, CancelRead, CancelWrite, StoreFails, ApiRestart, redis
<1>5. UNCHANGED vars => dead' = dead
  BY DEF vars, redis
<1>6. QED
  BY <1>1, <1>2, <1>3, <1>4, <1>5 DEF Next

(* The API's only writes: a new job, and a cancellation.                     *)
LEMMA ApiWrites ==
    ASSUME TypeOK,
           \/ \E j \in Jobs : Submit(j) \/ Resubmit(j) \/ Delete(j)
           \/ Api \/ StoreFails \/ ApiRestart
           \/ UNCHANGED vars
    PROVE  /\ worker' = worker /\ results' = results
           /\ \/ db' = db
              \/ \E j \in Jobs :
                    /\ Submit(j)
                    /\ db[j].state = "absent"
                    /\ db'[j].state = "QUEUED" /\ db'[j].error = db[j].error
                    /\ \A k \in Jobs \ {j} : db'[k] = db[k]
              \/ /\ CancelWrite
                 /\ api.pc = "cancel_write"
                 /\ api.job \in Jobs
                 /\ db'[api.job].state = "CANCELLED"
                 /\ \A k \in Jobs \ {api.job} : db'[k] = db[k]
<1>t. StoresTypeOK /\ ApiTypeOK
  BY DEF TypeOK
<1>1. ASSUME NEW j \in Jobs, Submit(j)
      PROVE  /\ worker' = worker /\ results' = results
             /\ db[j].state = "absent"
             /\ db'[j].state = "QUEUED" /\ db'[j].error = db[j].error
             /\ \A k \in Jobs \ {j} : db'[k] = db[k]
  BY <1>1, <1>t DEF Submit, StoresTypeOK, Record
<1>2. ASSUME CancelWrite
      PROVE  /\ worker' = worker /\ results' = results
             /\ api.pc = "cancel_write"
             /\ api.job \in Jobs
             /\ db'[api.job].state = "CANCELLED"
             /\ \A k \in Jobs \ {api.job} : db'[k] = db[k]
  BY <1>2, <1>t DEF CancelWrite, ApiAt, ApiTypeOK, StoresTypeOK, Record
<1>3. ASSUME NEW j \in Jobs, Resubmit(j) \/ Delete(j)
      PROVE  UNCHANGED <<worker, results, db>>
  BY <1>3 DEF Resubmit, Delete, vars, stores
<1>4. PutAudio \/ Enqueue \/ Refuse \/ CancelRead \/ StoreFails \/ ApiRestart
         => UNCHANGED <<worker, results, db>>
  BY DEF PutAudio, Enqueue, Refuse, CancelRead, StoreFails, ApiRestart, stores
<1>5. UNCHANGED vars => UNCHANGED <<worker, results, db>>
  BY DEF vars, stores
<1>6. QED
  BY <1>1, <1>2, <1>3, <1>4, <1>5 DEF Api

(* A worker step touches only its own entry of the worker table.             *)
LEMMA OneWorker ==
    ASSUME WorkersTypeOK, NEW w \in Workers, Work(w) \/ FailSwallowed(w) \/ WorkerCrash(w)
    PROVE  \A v \in Workers \ {w} : worker'[v] = worker[v]
<1>1. CASE UpdateWrite(w)
  BY <1>1, WriteFields
<1>2. CASE UpdateRead(w)
  BY <1>2 DEF UpdateRead, Goes, WorkersTypeOK
<1>3. CASE ~ UpdateWrite(w) /\ ~ UpdateRead(w)
  BY <1>3 DEF Work, FailSwallowed, WorkerCrash, Start, RecoverPop, RecoverExpired,
              RecoverLeased, Reserve, Load, HandleRaises, SaveResult, Ack, RetryAck, Repush,
              FailError, FailRead, FailWrite, Goes, Rests, WorkersTypeOK
<1>4. QED
  BY <1>1, <1>2, <1>3

(* A worker's writes of the record of its job.                               *)
LEMMA WorkerWrites ==
    ASSUME DeliveryInv, NEW w \in Workers, Work(w) \/ FailSwallowed(w) \/ WorkerCrash(w)
    PROVE  \/ db' = db
           \/ /\ Job(w) \in Jobs
              /\ \A k \in Jobs \ {Job(w)} : db'[k] = db[k]
              /\ \/ /\ UpdateWrite(w) /\ Handles(w)
                    /\ worker[w].stage \in 1 .. Final
                    /\ worker[w].read.state \in Targets(worker[w].stage)
                    /\ db'[Job(w)] = worker[w].read
                 \/ /\ FailError(w) /\ Failing(w)
                    /\ db'[Job(w)].state = db[Job(w)].state
                    /\ db'[Job(w)].error
                 \/ /\ FailWrite(w) /\ Failing(w)
                    /\ worker[w].read.state = "FAILED"
                    /\ db'[Job(w)] = worker[w].read
<1>t. StoresTypeOK /\ WorkersTypeOK /\ Asks
  BY DEF DeliveryInv, TypeOK
<1>1. CASE UpdateWrite(w)
  <2>1. Handles(w) /\ Job(w) \in Jobs /\ worker[w].stage \in 1 .. Final /\ At(w, "write")
    BY <1>t, <1>1, BusyJob DEF UpdateWrite, At, Busy, Handles
  <2>2. QED
    BY <1>t, <1>1, <2>1 DEF UpdateWrite, Asks, StoresTypeOK
<1>2. CASE FailError(w)
  <2>1. Failing(w) /\ Job(w) \in Jobs
    BY <1>t, <1>2, BusyJob DEF FailError, At, Busy, Failing
  <2>2. QED
    BY <1>t, <1>2, <2>1 DEF FailError, StoresTypeOK, Record
<1>3. CASE FailWrite(w)
  <2>1. Failing(w) /\ Job(w) \in Jobs /\ At(w, "fail_write")
    BY <1>t, <1>3, BusyJob DEF FailWrite, At, Busy, Failing
  <2>2. QED
    BY <1>t, <1>3, <2>1 DEF FailWrite, Asks, StoresTypeOK
<1>4. QED
  BY <1>1, <1>2, <1>3, OnlyWrites

(* How a worker gets to where it reads, writes, saves or acknowledges.       *)
Reaches(w) ==
    /\ worker'[w].pc = "fail_read" => FailError(w) /\ worker'[w].task = worker[w].task
    /\ worker'[w].pc = "fail_write" =>
          /\ FailRead(w)
          /\ worker'[w].task = worker[w].task
          /\ MayEnter(db[Job(w)], "FAILED")
          /\ worker'[w].read = [db[Job(w)] EXCEPT !.state = "FAILED"]
    /\ worker'[w].pc = "write" =>
          /\ UpdateRead(w)
          /\ worker'[w].task = worker[w].task
          /\ \E state \in Targets(worker[w].stage) : MayEnter(db[Job(w)], state)
    /\ worker'[w].pc = "save" =>
          UpdateWrite(w) /\ worker[w].stage # Final /\ worker'[w].task = worker[w].task
    /\ worker'[w].pc = "read" /\ worker'[w].stage = Final =>
          SaveResult(w) /\ worker'[w].task = worker[w].task
    /\ worker'[w].pc = "ack" =>
          UpdateWrite(w) /\ worker[w].stage = Final /\ worker'[w].task = worker[w].task

(* Every step of the worker loop reaches those places in the one way the     *)
(* code has.                                                                 *)
LEMMA WorkReaches ==
    ASSUME WorkersTypeOK, NEW w \in Workers, Work(w) \/ FailSwallowed(w) \/ WorkerCrash(w)
    PROVE  Reaches(w)
<1>1. CASE Start(w) \/ RecoverExpired(w) \/ RecoverLeased(w) \/ Ack(w) \/ FailWrite(w)
             \/ FailSwallowed(w) \/ WorkerCrash(w)
  <2>1. worker'[w].pc \in {"recover", "idle", "down"}
    BY <1>1, RestsFields
       DEF Start, RecoverExpired, RecoverLeased, Ack, FailWrite, FailSwallowed, WorkerCrash
  <2>2. QED
    BY <2>1 DEF Reaches
<1>2. CASE HandleRaises(w) \/ RetryAck(w)
  <2>1. worker'[w].pc \in {"raised", "repush"}
    BY <1>2, GoesFields DEF HandleRaises, RetryAck
  <2>2. QED
    BY <2>1 DEF Reaches
<1>3. CASE SaveResult(w)
  <2>1. worker'[w].pc = "read" /\ worker'[w].task = worker[w].task
    BY <1>3, GoesFields DEF SaveResult
  <2>2. QED
    BY <1>3, <2>1 DEF Reaches
<1>4. CASE FailError(w)
  <2>1. worker'[w].pc = "fail_read" /\ worker'[w].task = worker[w].task
    BY <1>4, GoesFields DEF FailError
  <2>2. QED
    BY <1>4, <2>1 DEF Reaches
<1>5. CASE Repush(w)
  <2>1. worker'[w].pc \in {"fail_error", "idle"}
    BY <1>5, GoesFields, RestsFields DEF Repush
  <2>2. QED
    BY <2>1 DEF Reaches
<1>6. CASE RecoverPop(w) \/ Reserve(w)
  <2>1. worker'[w].pc \in {"idle", "recover_push", "load"}
    BY <1>6 DEF RecoverPop, Reserve, Rests, Resting, WorkersTypeOK, WorkerRecord
  <2>2. QED
    BY <2>1 DEF Reaches
<1>7. CASE Load(w)
  <2>1. worker'[w].pc \in {"read", "raised"} /\ worker'[w].stage = 1
    BY <1>7 DEF Load, WorkersTypeOK, WorkerRecord
  <2>2. QED
    BY <2>1, FinalFacts DEF Reaches
<1>8. CASE UpdateWrite(w)
  <2>1. /\ worker'[w].task = worker[w].task
        /\ \/ worker[w].stage = Final /\ worker'[w].pc = "ack"
           \/ /\ worker[w].stage # Final
              /\ worker'[w].pc = IF worker'[w].stage = Final THEN "save" ELSE "read"
    BY <1>8, WriteFields
  <2>2. QED
    BY <1>8, <2>1 DEF Reaches
<1>9. CASE UpdateRead(w)
  <2>1. PICK state \in Targets(worker[w].stage) :
           IF MayEnter(db[Job(w)], state)
           THEN worker' = [worker EXCEPT ![w].pc = "write",
                                         ![w].read = [db[Job(w)] EXCEPT !.state = state]]
           ELSE Goes(w, "raised")
    BY <1>9 DEF UpdateRead
  <2>2. CASE MayEnter(db[Job(w)], state)
    <3>1. worker'[w].pc = "write" /\ worker'[w].task = worker[w].task
      BY <2>1, <2>2 DEF WorkersTypeOK, WorkerRecord
    <3>2. QED
      BY <1>9, <2>2, <3>1 DEF Reaches
  <2>3. CASE ~ MayEnter(db[Job(w)], state)
    <3>1. worker'[w].pc = "raised"
      BY <2>1, <2>3, GoesFields
    <3>2. QED
      BY <3>1 DEF Reaches
  <2>4. QED
    BY <2>2, <2>3
<1>10. CASE FailRead(w)
  <2>1. CASE MayEnter(db[Job(w)], "FAILED")
    <3>1. /\ worker'[w].pc = "fail_write"
          /\ worker'[w].task = worker[w].task
          /\ worker'[w].read = [db[Job(w)] EXCEPT !.state = "FAILED"]
      BY <1>10, <2>1 DEF FailRead, WorkersTypeOK, WorkerRecord
    <3>2. QED
      BY <1>10, <2>1, <3>1 DEF Reaches
  <2>2. CASE ~ MayEnter(db[Job(w)], "FAILED")
    <3>1. worker'[w].pc = "idle"
      BY <1>10, <2>2, RestsFields DEF FailRead
    <3>2. QED
      BY <3>1 DEF Reaches
  <2>3. QED
    BY <2>1, <2>2
<1>11. QED
  BY <1>1, <1>2, <1>3, <1>4, <1>5, <1>6, <1>7, <1>8, <1>9, <1>10 DEF Work

-----------------------------------------------------------------------------
(* A failure is explained *)

(* _fail_job has set the error before it reads and writes the state, unless  *)
(* a cancellation overwrote the record in between.                           *)
ErrorSet ==
    \A w \in Workers :
        /\ At(w, "fail_read") => db[Job(w)].error \/ db[Job(w)].state = "CANCELLED"
        /\ At(w, "fail_write") => worker[w].read.error

FailureInv == DeliveryInv /\ FailureExplained /\ ErrorSet

(* No job has failed before the first submission.                            *)
LEMMA FailureInit == Init => FailureInv
<1>1. Init => FailureExplained /\ ErrorSet
  BY DEF Init, FailureExplained, ErrorSet, NoRecord, Resting, At
<1>2. QED
  BY <1>1, DeliveryInit DEF FailureInv

(* Only the worker that parked the task writes FAILED, with the error.       *)
LEMMA FailureStep == FailureInv /\ [Next]_vars => FailureInv'
<1> SUFFICES ASSUME FailureInv, [Next]_vars PROVE FailureExplained' /\ ErrorSet'
  BY DeliveryStep DEF FailureInv
<1>t. /\ DeliveryInv /\ TypeOK /\ StoresTypeOK /\ WorkersTypeOK
      /\ FailingParked /\ FailureExplained /\ ErrorSet
  BY DEF FailureInv, DeliveryInv, TypeOK
<1>d. \A j \in Jobs : Holds(dead, j) => Holds(dead', j)
  BY <1>t, DeadGrows
<1>j. \A w \in Workers : Failing(w) => Job(w) \in Jobs
  BY <1>t, BusyJob DEF Busy, Failing
<1>1. CASE \/ \E j \in Jobs : Submit(j) \/ Resubmit(j) \/ Delete(j)
           \/ Api \/ StoreFails \/ ApiRestart
           \/ UNCHANGED vars
  <2>1. /\ worker' = worker
        /\ \A j \in Jobs : \/ db'[j] = db[j]
                           \/ /\ db[j].state = "absent" /\ db'[j].state = "QUEUED"
                              /\ db'[j].error = db[j].error
                           \/ db'[j].state = "CANCELLED"
    BY <1>1, <1>t, ApiWrites
  <2>2. FailureExplained'
    BY <1>t, <1>d, <2>1 DEF FailureExplained, Holds
  <2>3. ErrorSet'
    BY <1>t, <1>j, <2>1 DEF ErrorSet, At, Job, Failing
  <2>4. QED
    BY <2>2, <2>3
<1>2. ASSUME NEW w \in Workers, Work(w) \/ FailSwallowed(w) \/ WorkerCrash(w)
      PROVE  FailureExplained' /\ ErrorSet'
  <2>0. /\ Reaches(w)
        /\ \A v \in Workers \ {w} : worker'[v] = worker[v]
    BY <1>2, <1>t, WorkReaches, OneWorker
  <2>1. \A j \in Jobs :
           \/ db'[j] = db[j]
           \/ /\ UpdateWrite(w) /\ Handles(w) /\ j = Job(w)
              /\ db'[j].state # "FAILED"
           \/ j = Job(w) /\ db'[j].state = db[j].state /\ db'[j].error
           \/ j = Job(w) /\ Failing(w) /\ db'[j].state = "FAILED" /\ db'[j].error
    <3>1. CASE UpdateWrite(w) /\ Handles(w) /\ db' # db
      <4>1. worker[w].stage \in 1 .. Final /\ worker[w].read.state \in Targets(worker[w].stage)
        BY <1>2, <1>t, <3>1, WorkerWrites
           DEF UpdateWrite, FailError, FailWrite, At
      <4>2. worker[w].read.state # "FAILED"
        BY <4>1, TargetsReal
      <4>3. /\ db'[Job(w)] = worker[w].read
            /\ \A k \in Jobs \ {Job(w)} : db'[k] = db[k]
        BY <1>2, <1>t, <3>1, WorkerWrites
           DEF UpdateWrite, FailError, FailWrite, At
      <4>4. QED
        BY <3>1, <4>2, <4>3
    <3>2. CASE FailWrite(w) /\ db' # db
      <4>1. /\ Failing(w)
            /\ worker[w].read.state = "FAILED"
            /\ db'[Job(w)] = worker[w].read
            /\ \A k \in Jobs \ {Job(w)} : db'[k] = db[k]
        BY <1>2, <1>t, <3>2, WorkerWrites DEF UpdateWrite, FailError, FailWrite, At
      <4>2. worker[w].read.error
        BY <1>t, <3>2 DEF FailWrite, ErrorSet
      <4>3. QED
        BY <4>1, <4>2
    <3>3. QED
      BY <1>2, <1>t, <3>1, <3>2, WorkerWrites
  <2>2. FailureExplained'
    BY <1>t, <1>d, <1>j, <2>1 DEF FailureExplained, FailingParked, Holds
  <2>3. ASSUME NEW v \in Workers
        PROVE  /\ At(v, "fail_read")' => db'[Job(v)'].error \/ db'[Job(v)'].state = "CANCELLED"
               /\ At(v, "fail_write")' => worker'[v].read.error
    <3>1. CASE v # w
      <4>1. worker'[v] = worker[v]
        BY <2>0, <3>1
      <4>2. Failing(v) /\ Handles(w) => Job(v) # Job(w)
        BY <1>t, <3>1, Exclusive
      <4>3. QED
        BY <1>t, <1>j, <2>1, <4>1, <4>2 DEF ErrorSet, At, Job, Failing
    <3>2. CASE v = w
      <4>1. CASE worker'[w].pc = "fail_read"
        <5>1. FailError(w) /\ Job(w)' = Job(w) /\ Job(w) \in Jobs
          BY <1>j, <2>0, <4>1 DEF Reaches, Job, FailError, At, Failing
        <5>2. db'[Job(w)].error
          BY <1>t, <5>1 DEF FailError, StoresTypeOK, Record
        <5>3. QED
          BY <3>2, <4>1, <5>1, <5>2 DEF At
      <4>2. CASE worker'[w].pc = "fail_write"
        <5>1. /\ FailRead(w)
              /\ MayEnter(db[Job(w)], "FAILED")
              /\ worker'[w].read = [db[Job(w)] EXCEPT !.state = "FAILED"]
              /\ Job(w) \in Jobs
          BY <1>j, <2>0, <4>2 DEF Reaches, FailRead, At, Failing
        <5>2. db[Job(w)] \in Record
          BY <1>t, <5>1 DEF StoresTypeOK
        <5>3. db[Job(w)].error
          BY <1>t, <5>1 DEF FailRead, ErrorSet, MayEnter, Terminal
        <5>4. worker'[w].read.error
          BY <5>1, <5>2, <5>3 DEF Record
        <5>5. QED
          BY <3>2, <4>2, <5>4 DEF At
      <4>3. QED
        BY <3>2, <4>1, <4>2 DEF At
    <3>3. QED
      BY <3>1, <3>2
  <2>4. ErrorSet'
    BY <2>3 DEF ErrorSet
  <2>5. QED
    BY <2>2, <2>4
<1>3. QED
  BY <1>1, <1>2 DEF Next

(* A job a client sees as FAILED says why, and its task is on the dead list, *)
(* even when a DELETE, a crash or a failing store call races _fail_job.      *)
THEOREM FailuresExplained == Spec => []FailureExplained
<1>1. FailureInv => FailureExplained
  BY DEF FailureInv
<1>2. QED
  BY <1>1, FailureInit, FailureStep, PTL DEF Spec

-----------------------------------------------------------------------------
(* The lifecycle of a job that is not deleted *)

Unfinished(j) == db[j].state \in Running \union {"QUEUED"}

(* What a worker read about its job still holds when it writes: nobody else  *)
(* writes the record of a job that only its worker may touch.                *)
FreshFor(w) ==
    Job(w) \notin Deletable =>
        /\ worker[w].pc \in {"write", "save"} => Unfinished(Job(w))
        /\ At(w, "read") /\ worker[w].stage = Final => Unfinished(Job(w))
        /\ At(w, "fail_write") => MayEnter(db[Job(w)], "FAILED")

Fresh == \A w \in Workers : FreshFor(w)

FreshInv == ResultInv /\ DeliveryInv /\ Fresh

(* The job a worker is busy with exists.                                     *)
LEMMA BusyExists ==
    ASSUME DeliveryInv, NEW w \in Workers, Busy(w)
    PROVE  /\ Job(w) \in Jobs
           /\ db[Job(w)].state \in JobState \ {"absent"}
           /\ Submitting => api.job # Job(w)
<1>1. /\ WorkersTypeOK /\ StoresTypeOK
      /\ HandledListed /\ FailingParked /\ NewUntouched /\ Undelivered
  BY DEF DeliveryInv, TypeOK
<1>2. Job(w) \in Jobs /\ ~ Untouched(Job(w))
  BY <1>1, BusyJob, BusyTouches
<1>3. QED
  BY <1>1, <1>2 DEF NewUntouched, Undelivered, StoresTypeOK, Record

(* The state of the job, or a second report of the same failure.             *)
LEMMA FreshKept ==
    ASSUME NEW w \in Workers, FreshFor(w), worker'[w] = worker[w],
           worker[w].pc \in {"read", "write", "save", "fail_write"} =>
               \/ Job(w) \in Deletable
               \/ db'[Job(w)].state = db[Job(w)].state
               \/ At(w, "fail_write") /\ db'[Job(w)].state = "FAILED"
    PROVE  FreshFor(w)'
  BY DEF FreshFor, At, Job, Unfinished, MayEnter

(* Before the first submission nobody works.                                 *)
LEMMA FreshInit == Init => FreshInv
<1>1. Init => Fresh
  BY DEF Init, Fresh, FreshFor, Resting, At
<1>2. QED
  BY <1>1, TypeInit, ResultInit, DeliveryInit DEF FreshInv, ResultInv

(* Every step keeps what a worker is about to write up to date.              *)
LEMMA FreshStep == FreshInv /\ [Next]_vars => FreshInv'
<1> SUFFICES ASSUME FreshInv, [Next]_vars PROVE Fresh'
  BY TypeStep, ResultStep, DeliveryStep DEF FreshInv, ResultInv
<1>t. /\ DeliveryInv /\ TypeOK /\ StoresTypeOK /\ WorkersTypeOK /\ ApiTypeOK /\ Fresh
  BY DEF FreshInv, DeliveryInv, TypeOK
<1>1. CASE \/ \E j \in Jobs : Submit(j) \/ Resubmit(j) \/ Delete(j)
           \/ Api \/ StoreFails \/ ApiRestart
           \/ UNCHANGED vars
  <2> SUFFICES ASSUME NEW w \in Workers PROVE FreshFor(w)'
    BY DEF Fresh
  <2>1. /\ worker' = worker
        /\ \A j \in Jobs : \/ db'[j] = db[j]
                           \/ db[j].state = "absent"
                           \/ api.pc = "cancel_write" /\ j = api.job
    BY <1>1, <1>t, ApiWrites
  <2>2. worker[w].pc \in {"read", "write", "save", "fail_write"} =>
           Job(w) \in Deletable \/ db'[Job(w)].state = db[Job(w)].state
    <3> SUFFICES ASSUME worker[w].pc \in {"read", "write", "save", "fail_write"},
                        Job(w) \notin Deletable
                 PROVE  db'[Job(w)].state = db[Job(w)].state
      OBVIOUS
    <3>1. /\ Job(w) \in Jobs
          /\ db[Job(w)].state # "absent"
          /\ Submitting => api.job # Job(w)
      BY <1>t, BusyExists DEF Busy
    <3>2. QED
      BY <2>1, <3>1 DEF Submitting
  <2>3. QED
    BY <1>t, <2>1, <2>2, FreshKept DEF Fresh
<1>2. ASSUME NEW u \in Workers, Work(u) \/ FailSwallowed(u) \/ WorkerCrash(u)
      PROVE  Fresh'
  <2> SUFFICES ASSUME NEW w \in Workers PROVE FreshFor(w)'
    BY DEF Fresh
  <2>0. /\ Reaches(u)
        /\ \A v \in Workers \ {u} : worker'[v] = worker[v]
    BY <1>2, <1>t, WorkReaches, OneWorker
  <2>1. CASE w # u
    <3>1. worker[w].pc \in {"read", "write", "save", "fail_write"} =>
             \/ db'[Job(w)].state = db[Job(w)].state
             \/ At(w, "fail_write") /\ db'[Job(w)].state = "FAILED"
      <4> SUFFICES ASSUME worker[w].pc \in {"read", "write", "save", "fail_write"}
                   PROVE  \/ db'[Job(w)].state = db[Job(w)].state
                          \/ At(w, "fail_write") /\ db'[Job(w)].state = "FAILED"
        OBVIOUS
      <4>1. Job(w) \in Jobs
        BY <1>t, BusyExists DEF Busy
      <4>2. Handles(w) /\ (Handles(u) \/ Failing(u)) => Job(u) # Job(w)
        BY <1>t, <2>1, Exclusive
      <4>3. Failing(w) /\ Handles(u) => Job(u) # Job(w)
        BY <1>t, <2>1, Exclusive
      <4>4. Handles(w) \/ (Failing(w) /\ At(w, "fail_write"))
        BY DEF Handles, Failing, At
      <4>5. QED
        BY <1>2, <1>t, <4>1, <4>2, <4>3, <4>4, WorkerWrites
    <3>2. QED
      BY <1>t, <2>0, <2>1, <3>1, FreshKept DEF Fresh
  <2>2. CASE w = u
    <3> SUFFICES ASSUME Job(u)' \notin Deletable
                 PROVE  /\ worker'[u].pc \in {"write", "save"} => Unfinished(Job(u))'
                        /\ At(u, "read")' /\ worker'[u].stage = Final => Unfinished(Job(u))'
                        /\ At(u, "fail_write")' => MayEnter(db'[Job(u)'], "FAILED")
      BY <2>2 DEF FreshFor
    <3>1. CASE worker'[u].pc = "write"
      <4>1. /\ UpdateRead(u) /\ At(u, "read") /\ db' = db
            /\ Job(u)' = Job(u)
        BY <2>0, <3>1 DEF Reaches, UpdateRead, stores, Job
      <4>2. PICK state \in Targets(worker[u].stage) : MayEnter(db[Job(u)], state)
        BY <2>0, <3>1 DEF Reaches
      <4>3. db[Job(u)].state \in JobState \ {"absent"} /\ worker[u].stage \in 1 .. Final
        BY <1>t, <4>1, BusyExists, BusyJob DEF At, Busy
      <4>4. CASE worker[u].stage = Final
        BY <1>t, <3>1, <4>1, <4>4 DEF Fresh, FreshFor, Unfinished, At
      <4>5. CASE worker[u].stage # Final
        <5>1. state \in Running
          BY <4>2, <4>3, <4>5, TargetsReal
        <5>2. db[Job(u)].state \notin Terminal
          BY <4>2, <5>1 DEF MayEnter, Running, Terminal
        <5>3. Unfinished(Job(u))'
          BY <4>1, <4>3, <5>2 DEF Unfinished, JobState
        <5>4. QED
          BY <3>1, <5>3 DEF At
      <4>6. QED
        BY <4>4, <4>5
    <3>2. CASE worker'[u].pc = "save"
      <4>1. UpdateWrite(u) /\ Job(u)' = Job(u) /\ worker[u].stage # Final /\ At(u, "write")
        BY <2>0, <3>2 DEF Reaches, UpdateWrite, Job
      <4>2. /\ Job(u) \in Jobs
            /\ worker[u].stage \in 1 .. Final
            /\ worker[u].read.state \in Targets(worker[u].stage)
        BY <1>t, <4>1, BusyJob DEF At, Busy, DeliveryInv, Asks
      <4>3. db'[Job(u)].state \in Running
        BY <1>t, <4>1, <4>2, TargetsReal DEF UpdateWrite, StoresTypeOK
      <4>4. QED
        BY <3>2, <4>1, <4>3 DEF Unfinished, At
    <3>3. CASE worker'[u].pc = "read" /\ worker'[u].stage = Final
      <4>1. SaveResult(u) /\ Job(u)' = Job(u) /\ At(u, "save") /\ db' = db
        BY <2>0, <3>3 DEF Reaches, SaveResult, Job
      <4>2. Unfinished(Job(u))
        BY <1>t, <4>1 DEF Fresh, FreshFor, At
      <4>3. QED
        BY <3>3, <4>1, <4>2 DEF Unfinished, At
    <3>4. CASE worker'[u].pc = "fail_write"
      <4>1. /\ FailRead(u) /\ Job(u)' = Job(u) /\ db' = db
            /\ MayEnter(db[Job(u)], "FAILED")
        BY <2>0, <3>4 DEF Reaches, FailRead, stores, Job
      <4>2. QED
        BY <3>4, <4>1 DEF At
    <3>5. QED
      BY <3>1, <3>2, <3>3, <3>4 DEF At
  <2>3. QED
    BY <2>1, <2>2
<1>3. QED
  BY <1>1, <1>2 DEF Next

-----------------------------------------------------------------------------
(* The job path implements JobLifecycle *)

stateBar == [j \in Jobs |-> db[j].state]

(* A step that writes the state of one job, as JobLifecycle sees it.         *)
LEMMA OneState ==
    ASSUME NEW j \in Jobs, \A k \in Jobs \ {j} : db'[k].state = db[k].state
    PROVE  stateBar' = [stateBar EXCEPT ![j] = db'[j].state]
  BY DEF stateBar

(* Every step of the job path is a step of the lifecycle or changes nothing  *)
(* a client can see.                                                         *)
LEMMA LifecycleStep ==
    ASSUME Deletable = {}, FreshInv, [Next]_vars
    PROVE  [Lifecycle!Next]_<<stateBar, results>>
<1>t. /\ DeliveryInv /\ TypeOK /\ StoresTypeOK /\ WorkersTypeOK /\ ApiTypeOK
      /\ Fresh /\ SavedBeforeSuccess /\ Undelivered
  BY DEF FreshInv, ResultInv, DeliveryInv, TypeOK
<1>n. ASSUME NEW j \in Jobs,
             \/ Lifecycle!Accept(j) \/ Lifecycle!Advance(j) \/ Lifecycle!Store(j)
             \/ Lifecycle!Succeed(j) \/ Lifecycle!Fail(j) \/ Lifecycle!Cancel(j)
      PROVE  Lifecycle!Next
  BY <1>n DEF Lifecycle!Next
<1>0. db' = db /\ results' = results => UNCHANGED <<stateBar, results>>
  BY DEF stateBar
<1>1. CASE \/ \E j \in Jobs : Submit(j) \/ Resubmit(j) \/ Delete(j)
           \/ Api \/ StoreFails \/ ApiRestart
           \/ UNCHANGED vars
  <2>1. ASSUME NEW j \in Jobs,
               db[j].state = "absent",
               db'[j].state = "QUEUED",
               \A k \in Jobs \ {j} : db'[k] = db[k],
               results' = results
        PROVE  Lifecycle!Next
    <3>1. stateBar' = [stateBar EXCEPT ![j] = "QUEUED"] /\ stateBar[j] = "absent"
      BY <2>1, OneState DEF stateBar
    <3>2. Lifecycle!Accept(j)
      BY <2>1, <3>1 DEF Lifecycle!Accept, stateBar
    <3>3. QED
      BY <1>n, <3>2
  <2>2. ASSUME CancelWrite,
               api.pc = "cancel_write",
               api.job \in Jobs,
               db'[api.job].state = "CANCELLED",
               \A k \in Jobs \ {api.job} : db'[k] = db[k],
               results' = results
        PROVE  Lifecycle!Next
    <3>1. db[api.job].state = "QUEUED" /\ api.job \notin results
      BY <1>t, <2>2 DEF Undelivered, Submitting
    <3>2. PICK j \in Jobs : j = api.job
      BY <2>2
    <3>3. stateBar' = [stateBar EXCEPT ![j] = "CANCELLED"]
      BY <2>2, <3>2, OneState
    <3>4. Lifecycle!Cancel(j)
      BY <2>2, <3>1, <3>2, <3>3 DEF Lifecycle!Cancel, stateBar
    <3>5. QED
      BY <1>n, <3>4
  <2>3. QED
    BY <1>n, <1>0, <1>1, <1>t, <2>1, <2>2, ApiWrites
<1>2. ASSUME NEW w \in Workers, Work(w) \/ FailSwallowed(w) \/ WorkerCrash(w)
      PROVE  [Lifecycle!Next]_<<stateBar, results>>
  <2>1. CASE UpdateWrite(w)
    <3>0. PICK j \in Jobs : j = Job(w)
      BY <1>t, <2>1, BusyJob DEF UpdateWrite, At, Busy
    <3>1. /\ Job(w) \in Jobs
          /\ worker[w].stage \in 1 .. Final
          /\ worker[w].read.state \in Targets(worker[w].stage)
          /\ db'[Job(w)] = worker[w].read
          /\ \A k \in Jobs \ {Job(w)} : db'[k] = db[k]
          /\ results' = results
      BY <1>t, <2>1, BusyJob DEF UpdateWrite, At, Busy, DeliveryInv, Asks, StoresTypeOK
    <3>2. Unfinished(Job(w))
      BY <1>t, <2>1 DEF UpdateWrite, Fresh, FreshFor, At
    <3>3. /\ stateBar' = [stateBar EXCEPT ![Job(w)] = worker[w].read.state]
          /\ stateBar[Job(w)] = db[Job(w)].state
      BY <3>1, OneState DEF stateBar
    <3>4. CASE worker[w].stage # Final
      <4>1. worker[w].read.state \in Running
        BY <3>1, <3>4, TargetsReal
      <4>2. Lifecycle!Advance(j)
        BY <3>0, <3>1, <3>2, <3>3, <4>1
           DEF Lifecycle!Advance, Lifecycle!Unfinished, Lifecycle!Running, Unfinished, Running
      <4>3. QED
        BY <1>n, <3>1, <4>2
    <3>5. CASE worker[w].stage = Final
      <4>1. worker[w].read.state \in {"SUCCEEDED", "DEGRADED_SUCCEEDED"}
        BY <3>1, <3>5, TargetsReal
      <4>2. Job(w) \in results
        BY <1>t, <2>1, <4>1 DEF UpdateWrite, At, SavedBeforeSuccess
      <4>3. Lifecycle!Succeed(j)
        BY <3>0, <3>1, <3>2, <3>3, <4>1, <4>2
           DEF Lifecycle!Succeed, Lifecycle!Success, Lifecycle!Unfinished, Lifecycle!Running,
               Unfinished, Running
      <4>4. QED
        BY <1>n, <3>1, <4>3
    <3>6. QED
      BY <3>4, <3>5
  <2>2. CASE FailError(w)
    <3>1. \A k \in Jobs : db'[k].state = db[k].state
      BY <1>t, <2>2 DEF FailError, StoresTypeOK, Record
    <3>2. results' = results
      BY <2>2 DEF FailError
    <3>3. QED
      BY <3>1, <3>2 DEF stateBar
  <2>3. CASE FailWrite(w)
    <3>0. PICK j \in Jobs : j = Job(w)
      BY <1>t, <2>3, BusyJob DEF FailWrite, At, Busy
    <3>1. /\ Job(w) \in Jobs
          /\ db'[Job(w)].state = "FAILED"
          /\ \A k \in Jobs \ {Job(w)} : db'[k] = db[k]
          /\ results' = results
      BY <1>t, <2>3, BusyJob DEF FailWrite, At, Busy, DeliveryInv, Asks, StoresTypeOK
    <3>2. /\ MayEnter(db[Job(w)], "FAILED")
          /\ db[Job(w)].state \in JobState \ {"absent"}
      BY <1>t, <2>3, BusyExists DEF FailWrite, Fresh, FreshFor, At, Busy
    <3>3. /\ stateBar' = [stateBar EXCEPT ![Job(w)] = "FAILED"]
          /\ stateBar[Job(w)] = db[Job(w)].state
      BY <3>1, OneState DEF stateBar
    <3>4. CASE db[Job(w)].state \in Terminal
      BY <3>1, <3>2, <3>3, <3>4 DEF MayEnter, stateBar
    <3>5. CASE db[Job(w)].state \notin Terminal
      <4>1. Lifecycle!Fail(j)
        BY <3>0, <3>1, <3>2, <3>3, <3>5
           DEF Lifecycle!Fail, Lifecycle!Unfinished, Lifecycle!Running, JobState, Running
      <4>2. QED
        BY <1>n, <3>1, <4>1
    <3>6. QED
      BY <3>4, <3>5
  <2>4. CASE SaveResult(w)
    <3>0. PICK j \in Jobs : j = Job(w)
      BY <1>t, <2>4, BusyJob DEF SaveResult, At, Busy
    <3>1. Job(w) \in Jobs /\ db' = db /\ results' = results \union {Job(w)}
      BY <1>t, <2>4, BusyJob DEF SaveResult, At, Busy
    <3>2. Unfinished(Job(w))
      BY <1>t, <2>4 DEF SaveResult, Fresh, FreshFor, At
    <3>3. Lifecycle!Store(j)
      BY <3>0, <3>1, <3>2
         DEF Lifecycle!Store, Lifecycle!Unfinished, Lifecycle!Running, stateBar, Unfinished,
             Running
    <3>4. QED
      BY <1>n, <3>1, <3>3
  <2>5. QED
    BY <1>0, <1>2, <2>1, <2>2, <2>3, <2>4, OnlyWrites
<1>3. QED
  BY <1>1, <1>2 DEF Next

(* Where nobody deletes, the API, the queue, the stores and any number of    *)
(* workers with their crashes and retries implement the lifecycle: a job is  *)
(* accepted once, ends once, is cancelled only before any worker has         *)
(* touched it, and its transcript is stored before success is announced.     *)
THEOREM LifecycleImplemented ==
    ASSUME Deletable = {}
    PROVE  Spec => LifecycleSpec
<1>1. Init => Lifecycle!Init
  BY DEF Init, Lifecycle!Init, NoRecord
<1>2. FreshInv /\ [Next]_vars => [Lifecycle!Next]_<<stateBar, results>>
  BY LifecycleStep
<1>3. Spec => []FreshInv
  BY FreshInit, FreshStep, PTL DEF Spec
<1>4. QED
  BY <1>1, <1>2, <1>3, PTL DEF Spec, LifecycleSpec, Lifecycle!Spec, stateBar

(* Where nobody deletes, a job that has ended never changes its state again, *)
(* whatever a retried, redelivered or crashed worker still writes.           *)
THEOREM EndedForGood ==
    ASSUME Deletable = {}
    PROVE  Spec => TerminalStable
<1> DEFINE Stable == \A j \in Jobs : db[j].state \in Terminal => db'[j].state = db[j].state
<1>1. [Lifecycle!Next]_<<stateBar, results>> => Stable
  <2> SUFFICES ASSUME [Lifecycle!Next]_<<stateBar, results>>, NEW j \in Jobs,
                      db[j].state \in Terminal
               PROVE  db'[j].state = db[j].state
    OBVIOUS
  <2>0. stateBar[j] = db[j].state /\ stateBar'[j] = db'[j].state
    BY DEF stateBar
  <2>1. CASE UNCHANGED <<stateBar, results>>
    BY <2>0, <2>1
  <2>2. ASSUME NEW k \in Jobs,
               \/ Lifecycle!Accept(k) \/ Lifecycle!Advance(k) \/ Lifecycle!Store(k)
               \/ Lifecycle!Succeed(k) \/ Lifecycle!Fail(k) \/ Lifecycle!Cancel(k)
        PROVE  stateBar'[j] = stateBar[j]
    <3>1. \/ stateBar' = stateBar
          \/ /\ stateBar[k] \in Running \union {"absent", "QUEUED"}
             /\ \E x : stateBar' = [stateBar EXCEPT ![k] = x]
      BY <2>2 DEF Lifecycle!Accept, Lifecycle!Advance, Lifecycle!Store, Lifecycle!Succeed,
                  Lifecycle!Fail, Lifecycle!Cancel, Lifecycle!Unfinished, Lifecycle!Running,
                  Running, stateBar
    <3>2. stateBar[j] \in Terminal /\ stateBar = [i \in Jobs |-> stateBar[i]]
      BY <2>0 DEF stateBar
    <3>3. j # k \/ stateBar[k] \notin Running \union {"absent", "QUEUED"}
      BY <3>2 DEF Running, Terminal
    <3>4. QED
      BY <3>1, <3>2, <3>3
  <2>3. QED
    BY <2>0, <2>1, <2>2 DEF Lifecycle!Next
<1>2. FreshInv /\ [Next]_vars => [Stable]_vars
  BY <1>1, LifecycleStep
<1>3. Spec => []FreshInv
  BY FreshInit, FreshStep, PTL DEF Spec
<1>4. QED
  BY <1>2, <1>3, PTL DEF Spec, TerminalStable

-----------------------------------------------------------------------------
(* The audio of a cancelled job *)

(* An API that never dies remembers every object it stored, and a handler    *)
(* that cancels has deleted the object before.                               *)
AudioGone ==
    /\ objects \subseteq audioKeys
    /\ \A j \in Jobs : db[j].state = "CANCELLED" => j \notin objects
    /\ api.pc \in {"cancel_read", "cancel_write"} => api.job \notin objects

(* Every step keeps the objects of cancelled jobs deleted.                   *)
LEMMA AudioStep ==
    ASSUME "api" \notin Faulty, DeliveryInv, AudioGone, [Next]_vars
    PROVE  AudioGone'
<1>t. /\ TypeOK /\ StoresTypeOK /\ ApiTypeOK /\ WorkersTypeOK /\ Undelivered
  BY DEF DeliveryInv, TypeOK
<1>1. ASSUME NEW j \in Jobs, Submit(j) PROVE AudioGone'
  BY <1>1, <1>t DEF Submit, AudioGone, StoresTypeOK, Record, ApiTypeOK
<1>2. ASSUME NEW j \in Jobs, Resubmit(j) PROVE AudioGone'
  BY <1>2 DEF Resubmit, vars, stores, AudioGone
<1>3. ASSUME NEW j \in Jobs, Delete(j) PROVE AudioGone'
  <2>1. /\ objects' = objects \ {j} /\ audioKeys' = audioKeys \ {j}
        /\ db' = db
    BY <1>3 DEF Delete, AudioGone
  <2>2. api'.pc = "idle" \/ api'.job = j
    <3>1. api' = ApiResting \/ api' = [api EXCEPT !.pc = "cancel_read", !.job = j]
      BY <1>3 DEF Delete, ApiReturns
    <3>2. CASE api' = ApiResting
      BY <3>2 DEF ApiResting
    <3>3. CASE api' = [api EXCEPT !.pc = "cancel_read", !.job = j]
      BY <1>t, <3>3 DEF ApiTypeOK
    <3>4. QED
      BY <3>1, <3>2, <3>3
  <2>3. QED
    BY <2>1, <2>2 DEF AudioGone
<1>4. CASE PutAudio
  <2>1. db[api.job].state = "QUEUED"
    BY <1>4, <1>t DEF PutAudio, ApiAt, Undelivered, Submitting
  <2>2. QED
    BY <1>4, <1>t, <2>1 DEF PutAudio, ApiGoes, ApiTypeOK, AudioGone
<1>5. CASE Enqueue
  BY <1>5, <1>t DEF Enqueue, ApiGoes, ApiReturns, ApiResting, ApiTypeOK, stores, AudioGone
<1>6. CASE Refuse
  BY <1>6, <1>t DEF Refuse, ApiGoes, ApiTypeOK, AudioGone
<1>7. CASE CancelRead
  <2>1. \/ api'.pc = "idle"
        \/ api'.job = api.job /\ api.pc = "cancel_read"
    <3>1. api' = ApiResting \/ api' = [api EXCEPT !.pc = "cancel_write", !.read = db[api.job]]
      BY <1>7 DEF CancelRead, ApiReturns
    <3>2. CASE api' = ApiResting
      BY <3>2 DEF ApiResting
    <3>3. CASE api' = [api EXCEPT !.pc = "cancel_write", !.read = db[api.job]]
      BY <1>7, <1>t, <3>3 DEF CancelRead, ApiAt, ApiTypeOK
    <3>4. QED
      BY <3>1, <3>2, <3>3
  <2>2. QED
    BY <1>7, <2>1 DEF CancelRead, stores, AudioGone
<1>8. CASE CancelWrite
  BY <1>8, <1>t DEF CancelWrite, ApiAt, ApiReturns, ApiResting, ApiTypeOK, StoresTypeOK, AudioGone
<1>9. CASE StoreFails \/ ApiRestart
  BY <1>9 DEF StoreFails, ApiRestart, Fault
<1>10. ASSUME NEW w \in Workers, Work(w) \/ FailSwallowed(w) \/ WorkerCrash(w)
       PROVE  AudioGone'
  <2>1. UNCHANGED <<api, objects, audioKeys>>
    BY <1>10, OnlyWrites
  <2>2. \A j \in Jobs : db'[j].state = "CANCELLED" => db[j].state = "CANCELLED"
    <3>1. CASE UpdateWrite(w) /\ db' # db
      <4>1. /\ worker[w].stage \in 1 .. Final
            /\ worker[w].read.state \in Targets(worker[w].stage)
            /\ db'[Job(w)] = worker[w].read
            /\ \A k \in Jobs \ {Job(w)} : db'[k] = db[k]
        BY <1>10, <1>t, <3>1, WorkerWrites DEF UpdateWrite, FailError, FailWrite, At
      <4>2. worker[w].read.state # "CANCELLED"
        BY <4>1, TargetsReal
      <4>3. QED
        BY <4>1, <4>2
    <3>2. CASE ~ (UpdateWrite(w) /\ db' # db)
      BY <1>10, <1>t, <3>2, WorkerWrites
    <3>3. QED
      BY <3>1, <3>2
  <2>3. QED
    BY <2>1, <2>2 DEF AudioGone
<1>11. CASE UNCHANGED vars
  BY <1>11 DEF vars, stores, AudioGone
<1>12. QED
  BY <1>1, <1>2, <1>3, <1>4, <1>5, <1>6, <1>7, <1>8, <1>9, <1>10, <1>11 DEF Next, Api

(* While the API process lives and its store calls succeed, the input audio  *)
(* of a cancelled job is gone once the handler has answered, whatever the    *)
(* workers do, crash or retry meanwhile.                                     *)
THEOREM CancelledForgotten ==
    ASSUME "api" \notin Faulty
    PROVE  Spec => []CancelledHasNoAudio
<1>1. Init => AudioGone
  BY DEF Init, AudioGone, ApiResting, NoRecord
<1>2. DeliveryInv /\ AudioGone /\ [Next]_vars => AudioGone'
  BY AudioStep
<1>3. AudioGone => CancelledHasNoAudio
  BY DEF AudioGone, CancelledHasNoAudio
<1>4. QED
  BY <1>1, <1>2, <1>3, DeliveryAlways, PTL DEF Spec

-----------------------------------------------------------------------------
(* No job is stranded *)

(* A worker acknowledges a job only after it has written the outcome.        *)
AckedDone == \A w \in Workers : At(w, "ack") => db[Job(w)].state \in Terminal

StrandedInv == DeliveryInv /\ AckedDone /\ NoJobStranded

(* The worker has the task in its memory and is not done with it.            *)
InHand(w, j) ==
    /\ Job(w) = j
    /\ worker[w].pc \in {"recover_push", "repush", "fail_error", "fail_read", "fail_write"}

(* The parts of Pending.                                                     *)
LEMMA PendingParts ==
    ASSUME NEW j
    PROVE  Pending(j) <=> \/ ~ ApiAt("idle") /\ api.job = j
                          \/ Holds(queue, j)
                          \/ \E w \in Workers : Holds(processing[w], j) \/ InHand(w, j)
  BY DEF Pending, Holds, InHand

(* A worker passes the task of a job on, or ends the job.                    *)
LEMMA PendingWork ==
    ASSUME DeliveryInv, AckedDone, NEW w \in Workers, Work(w), NEW j \in Jobs,
           Holds(queue, j) \/ Holds(processing[w], j) \/ InHand(w, j)
    PROVE  \/ Holds(queue, j)' \/ Holds(processing[w], j)' \/ InHand(w, j)'
           \/ db'[j].state \in Terminal
<1>t. StoresTypeOK /\ WorkersTypeOK /\ RedisTypeOK /\ HandledListed /\ Asks
  BY DEF DeliveryInv, TypeOK
<1>s. processing[w] \in Seq(HeldTask) /\ queue \in Seq(HeldTask)
  BY <1>t DEF RedisTypeOK
<1>1. CASE \/ Start(w) \/ Load(w) \/ UpdateRead(w) \/ UpdateWrite(w)
           \/ HandleRaises(w) \/ SaveResult(w)
  BY <1>1 DEF Start, Load, UpdateRead, UpdateWrite, HandleRaises, SaveResult, redis, InHand, At
<1>2. CASE RecoverPop(w)
  <2>1. CASE processing[w] = <<>>
    BY <1>2, <2>1 DEF RecoverPop, InHand, At
  <2>2. CASE processing[w] # <<>>
    <3>1. /\ queue' = queue
          /\ processing'[w] = Tail(processing[w])
          /\ worker'[w].pc = "recover_push"
          /\ worker'[w].task = Head(processing[w])
          /\ ~ InHand(w, j)
      BY <1>2, <1>t, <2>2
         DEF RecoverPop, RedisTypeOK, WorkersTypeOK, WorkerRecord, InHand, At
    <3>2. Holds(processing[w], j) => Holds(processing'[w], j) \/ Head(processing[w]).job = j
      BY <1>s, <2>2, <3>1, PopHolds
    <3>3. QED
      BY <3>1, <3>2 DEF InHand, Job
  <2>3. QED
    BY <2>1, <2>2
<1>3. CASE RecoverExpired(w)
  <2>1. worker[w].task \in HeldTask
    BY <1>t, <1>3, BusyJob DEF RecoverExpired, At, Busy
  <2>2. Holds(queue', j) <=> Holds(queue, j) \/ worker[w].task.job = j
    BY <1>s, <1>3, <2>1, PushHolds DEF RecoverExpired
  <2>3. QED
    BY <1>3, <2>2 DEF RecoverExpired, InHand, Job
<1>4. CASE RecoverLeased(w)
  <2>1. worker[w].task \in HeldTask
    BY <1>t, <1>4, BusyJob DEF RecoverLeased, At, Busy
  <2>2. processing'[w] = Append(processing[w], worker[w].task) /\ queue' = queue
    BY <1>4, <1>t DEF RecoverLeased, RedisTypeOK
  <2>3. Holds(processing'[w], j) <=> Holds(processing[w], j) \/ worker[w].task.job = j
    BY <1>s, <2>1, <2>2, PushHolds
  <2>4. QED
    BY <2>2, <2>3 DEF InHand, Job
<1>5. CASE Reserve(w)
  <2>1. /\ queue # <<>>
        /\ queue' = Tail(queue)
        /\ processing'[w] = Append(processing[w], Head(queue))
        /\ ~ InHand(w, j)
    BY <1>5, <1>t DEF Reserve, RedisTypeOK, InHand, At
  <2>2. Holds(queue, j) => Holds(queue', j) \/ Head(queue).job = j
    BY <1>s, <2>1, PopHolds
  <2>3. Head(queue) \in HeldTask
    BY <1>s, <2>1, HeadTailProperties
  <2>4. Holds(processing'[w], j) <=> Holds(processing[w], j) \/ Head(queue).job = j
    BY <1>s, <2>1, <2>3, PushHolds
  <2>5. QED
    BY <2>1, <2>2, <2>4
<1>6. CASE Ack(w)
  <2>1. /\ processing'[w] = Lrem(processing[w], worker[w].task)
        /\ UNCHANGED <<queue, db>>
        /\ ~ InHand(w, j)
    BY <1>6, <1>t DEF Ack, RedisTypeOK, InHand, At, stores
  <2>2. Holds(processing[w], j) => Holds(processing'[w], j) \/ worker[w].task.job = j
    BY <1>s, <2>1, LremHolds
  <2>3. db[Job(w)].state \in Terminal
    BY <1>6 DEF Ack, AckedDone
  <2>4. QED
    BY <2>1, <2>2, <2>3 DEF Job
<1>7. CASE RetryAck(w)
  <2>1. /\ processing'[w] = Lrem(processing[w], worker[w].task)
        /\ queue' = queue
        /\ worker'[w].pc = "repush"
        /\ worker'[w].task = worker[w].task
        /\ ~ InHand(w, j)
    BY <1>7, <1>t, GoesFields DEF RetryAck, RedisTypeOK, InHand, At
  <2>2. Holds(processing[w], j) => Holds(processing'[w], j) \/ worker[w].task.job = j
    BY <1>s, <2>1, LremHolds
  <2>3. QED
    BY <2>1, <2>2 DEF InHand, Job
<1>8. CASE Repush(w)
  <2> DEFINE again == [worker[w].task EXCEPT !.attempts = @ + 1]
  <2>1. worker[w].task \in HeldTask
    BY <1>t, <1>8, BusyJob DEF Repush, At, Busy
  <2>2. again \in Task /\ again.job = Job(w) /\ again.attempts \in Int
    BY <2>1, BoundsAssumption DEF HeldTask, Task, Job
  <2>3. again.attempts < MaxAttempts => again \in HeldTask
    BY <2>1, <2>2, BoundsAssumption DEF HeldTask, Task
  <2>4. \/ Goes(w, "fail_error") /\ UNCHANGED <<queue, processing>>
        \/ queue' = Append(queue, again) /\ again \in HeldTask /\ processing' = processing
    <3> HIDE DEF again
    <3> QED
      BY <1>8, <2>2, <2>3, BoundsAssumption DEF Repush, again
  <2> HIDE DEF again
  <2>5. CASE Goes(w, "fail_error") /\ UNCHANGED <<queue, processing>>
    BY <1>t, <2>5, GoesFields DEF InHand, Job
  <2>6. CASE queue' = Append(queue, again) /\ again \in HeldTask /\ processing' = processing
    <3>1. Holds(queue', j) <=> Holds(queue, j) \/ again.job = j
      BY <1>s, <2>6, PushHolds
    <3>2. QED
      BY <2>2, <2>6, <3>1 DEF InHand
  <2>7. QED
    BY <2>4, <2>5, <2>6
<1>9. CASE FailError(w)
  <2>1. /\ UNCHANGED <<queue, processing>>
        /\ worker'[w].pc = "fail_read"
        /\ worker'[w].task = worker[w].task
    BY <1>9, <1>t, GoesFields DEF FailError, redis
  <2>2. QED
    BY <2>1 DEF InHand, Job
<1>10. CASE FailRead(w)
  <2>1. UNCHANGED <<queue, processing, db>>
    BY <1>10 DEF FailRead, redis, stores
  <2>2. CASE MayEnter(db[Job(w)], "FAILED")
    <3>1. worker'[w].pc = "fail_write" /\ worker'[w].task = worker[w].task
      BY <1>10, <1>t, <2>2 DEF FailRead, WorkersTypeOK, WorkerRecord
    <3>2. QED
      BY <2>1, <3>1 DEF InHand, Job
  <2>3. CASE ~ MayEnter(db[Job(w)], "FAILED")
    BY <2>1, <2>3 DEF InHand, MayEnter
  <2>4. QED
    BY <2>2, <2>3
<1>11. CASE FailWrite(w)
  <2>1. UNCHANGED <<queue, processing>>
    BY <1>11 DEF FailWrite, redis
  <2>2. db' = [db EXCEPT ![Job(w)] = worker[w].read] /\ worker[w].read.state = "FAILED"
    BY <1>11, <1>t DEF FailWrite, Asks
  <2>3. InHand(w, j) => db'[j].state = "FAILED"
    BY <1>t, <2>2 DEF InHand, StoresTypeOK
  <2>4. QED
    BY <2>1, <2>3 DEF Terminal
<1>12. QED
  BY <1>1, <1>2, <1>3, <1>4, <1>5, <1>6, <1>7, <1>8, <1>9, <1>10, <1>11 DEF Work

(* A worker step leaves the lists of the other workers alone.                *)
LEMMA OneList ==
    ASSUME RedisTypeOK, NEW w \in Workers, Work(w)
    PROVE  \A v \in Workers \ {w} : processing'[v] = processing[v]
  BY DEF Work, Start, RecoverPop, RecoverExpired, RecoverLeased, Reserve, Load, UpdateRead,
         UpdateWrite, HandleRaises, SaveResult, Ack, RetryAck, Repush, FailError, FailRead,
         FailWrite, RedisTypeOK, redis

(* Every step keeps the record of an acknowledged job terminal.              *)
LEMMA AckedStep == DeliveryInv /\ AckedDone /\ [Next]_vars => AckedDone'
<1> SUFFICES ASSUME DeliveryInv, AckedDone, [Next]_vars PROVE AckedDone'
  OBVIOUS
<1>t. TypeOK /\ StoresTypeOK /\ WorkersTypeOK /\ Asks
  BY DEF DeliveryInv, TypeOK
<1>1. CASE \/ \E j \in Jobs : Submit(j) \/ Resubmit(j) \/ Delete(j)
           \/ Api \/ StoreFails \/ ApiRestart
           \/ UNCHANGED vars
  <2>1. /\ worker' = worker
        /\ \A j \in Jobs : \/ db'[j] = db[j]
                           \/ db[j].state = "absent"
                           \/ db'[j].state = "CANCELLED"
    BY <1>1, <1>t, ApiWrites
  <2>2. \A w \in Workers : At(w, "ack") => Job(w) \in Jobs
    BY <1>t, BusyJob DEF At, Busy
  <2>3. QED
    BY <2>1, <2>2 DEF AckedDone, At, Job, Terminal
<1>2. ASSUME NEW u \in Workers, Work(u) \/ FailSwallowed(u) \/ WorkerCrash(u), NEW w \in Workers,
             At(w, "ack")'
      PROVE  db'[Job(w)'].state \in Terminal
  <2>0. Reaches(u) /\ \A v \in Workers \ {u} : worker'[v] = worker[v]
    BY <1>2, <1>t, WorkReaches, OneWorker
  <2>1. CASE w # u
    <3>1. worker'[w] = worker[w] /\ At(w, "ack") /\ Job(w)' = Job(w)
      BY <1>2, <2>0, <2>1 DEF At, Job
    <3>2. Job(w) \in Jobs /\ db[Job(w)].state \in Terminal
      BY <1>t, <3>1, BusyJob DEF At, Busy, AckedDone
    <3>3. Handles(u) \/ Failing(u) => Job(u) # Job(w)
      BY <2>1, <3>1, Exclusive DEF Handles, At
    <3>4. db'[Job(w)] = db[Job(w)]
      BY <1>2, <3>2, <3>3, WorkerWrites
    <3>5. QED
      BY <3>1, <3>2, <3>4
  <2>2. CASE w = u
    <3>1. UpdateWrite(u) /\ worker[u].stage = Final /\ Job(u)' = Job(u) /\ At(u, "write")
      BY <1>2, <2>0, <2>2 DEF Reaches, At, Job, UpdateWrite
    <3>2. Job(u) \in Jobs /\ worker[u].stage \in 1 .. Final
      BY <1>t, <3>1, BusyJob DEF At, Busy
    <3>3. worker[u].read.state \in {"SUCCEEDED", "DEGRADED_SUCCEEDED"}
      BY <1>t, <3>1, <3>2, TargetsReal DEF Asks
    <3>4. db'[Job(u)] = worker[u].read
      BY <1>t, <3>1, <3>2 DEF UpdateWrite, StoresTypeOK
    <3>5. QED
      BY <2>2, <3>1, <3>3, <3>4 DEF Terminal
  <2>3. QED
    BY <2>1, <2>2
<1>3. QED
  BY <1>1, <1>2 DEF Next, AckedDone

(* Without faults, every step of the API and the workers keeps an unfinished *)
(* job on a list or in the hands of a live process.                          *)
LEMMA StrandedStep ==
    ASSUME Faulty = {}, StrandedInv, [Next]_vars, NEW j \in Jobs,
           db'[j].state \notin Terminal \union {"absent"}
    PROVE  Pending(j)'
<1>t. /\ DeliveryInv /\ TypeOK /\ StoresTypeOK /\ WorkersTypeOK /\ ApiTypeOK /\ RedisTypeOK
      /\ HandledListed /\ FailingParked /\ AckedDone /\ NoJobStranded
  BY DEF StrandedInv, DeliveryInv, TypeOK
<1>p. db[j].state \notin Terminal \union {"absent"} => Pending(j)
  BY <1>t DEF NoJobStranded
<1>1. ASSUME NEW k \in Jobs, Submit(k) PROVE Pending(j)'
  <2>1. /\ api'.pc = "put" /\ api'.job = k
        /\ \A i \in Jobs \ {k} : db'[i] = db[i]
        /\ UNCHANGED <<queue, processing, worker>>
    BY <1>1, <1>t DEF Submit, StoresTypeOK, ApiTypeOK, redis
  <2>2. ApiAt("idle")
    BY <1>1 DEF Submit
  <2>3. QED
    BY <1>p, <2>1, <2>2 DEF Pending, ApiAt, Job
<1>2. ASSUME NEW k \in Jobs, Resubmit(k) \/ Delete(k) PROVE Pending(j)'
  <2>1. ApiAt("idle") /\ UNCHANGED <<db, queue, processing, worker>>
    BY <1>2 DEF Resubmit, Delete, vars, stores, redis
  <2>2. QED
    BY <1>p, <2>1 DEF Pending, Job
<1>3. CASE PutAudio \/ Refuse
  <2>1. UNCHANGED <<db, queue, processing, worker>> /\ api'.job = api.job /\ api'.pc # "idle"
    BY <1>3, <1>t DEF PutAudio, Refuse, ApiGoes, ApiTypeOK, redis
  <2>2. QED
    BY <1>p, <2>1 DEF Pending, ApiAt, Job
<1>4. CASE Enqueue
  <2>1. UNCHANGED <<db, processing, worker>>
    BY <1>4 DEF Enqueue, stores
  <2>2. CASE Len(queue) >= MaxDepth
    <3>1. queue' = queue /\ api'.job = api.job /\ api'.pc # "idle"
      BY <1>4, <1>t, <2>2 DEF Enqueue, ApiGoes, ApiTypeOK
    <3>2. QED
      BY <1>p, <2>1, <3>1 DEF Pending, ApiAt, Job
  <2>3. CASE ~ (Len(queue) >= MaxDepth)
    <3> DEFINE task == [job |-> api.job, attempts |-> 0]
    <3>1. queue' = Append(queue, task)
      BY <1>4, <2>3 DEF Enqueue
    <3>2. task \in HeldTask /\ task.job = api.job /\ queue \in Seq(HeldTask)
      BY <1>4, <1>t, BoundsAssumption DEF Enqueue, ApiTypeOK, ApiAt, HeldTask, RedisTypeOK
    <3> HIDE DEF task
    <3>3. Holds(queue', j) <=> Holds(queue, j) \/ api.job = j
      BY <3>1, <3>2, PushHolds
    <3>4. QED
      BY <1>p, <2>1, <3>3 DEF Pending, Holds, Job
  <2>4. QED
    BY <2>2, <2>3
<1>5. CASE CancelRead
  <2>1. UNCHANGED <<db, queue, processing, worker>>
    BY <1>5 DEF CancelRead, stores, redis
  <2>2. CASE MayEnter(db[api.job], "CANCELLED")
    <3>1. api'.job = api.job /\ api'.pc # "idle"
      BY <1>5, <1>t, <2>2 DEF CancelRead, ApiTypeOK
    <3>2. QED
      BY <1>p, <2>1, <3>1 DEF Pending, ApiAt, Job
  <2>3. CASE ~ MayEnter(db[api.job], "CANCELLED")
    <3>1. api.job # j
      BY <2>1, <2>3 DEF MayEnter
    <3>2. QED
      BY <1>p, <2>1, <3>1 DEF Pending, Job
  <2>4. QED
    BY <2>2, <2>3
<1>6. CASE CancelWrite
  <2>1. /\ UNCHANGED <<queue, processing, worker>>
        /\ \A k \in Jobs \ {api.job} : db'[k] = db[k]
        /\ db'[api.job].state = "CANCELLED"
    BY <1>6, <1>t DEF CancelWrite, ApiAt, ApiTypeOK, StoresTypeOK, Record, redis
  <2>2. QED
    BY <1>p, <2>1 DEF Pending, Job, Terminal
<1>7. CASE StoreFails \/ ApiRestart
  BY <1>7 DEF StoreFails, ApiRestart, Fault
<1>8. ASSUME NEW w \in Workers, Work(w) PROVE Pending(j)'
  <2>1. /\ api' = api
        /\ \A v \in Workers \ {w} : worker'[v] = worker[v] /\ processing'[v] = processing[v]
    BY <1>8, <1>t, OnlyWrites, OneWorker, OneList
  <2>2. Pending(j)
    <3>1. CASE db'[j].state = db[j].state
      BY <1>p, <3>1
    <3>2. CASE db'[j].state # db[j].state
      <4>1. Job(w) = j /\ (Handles(w) \/ FailWrite(w))
        BY <1>8, <1>t, <3>2, WorkerWrites
      <4>2. CASE Handles(w)
        <5>1. Holds(processing[w], j)
          BY <1>t, <4>1, <4>2, BusyTouches DEF Busy, Handles
        <5>2. QED
          BY <5>1, PendingParts
      <4>3. CASE FailWrite(w)
        BY <4>1, <4>3 DEF FailWrite, At, Pending
      <4>4. QED
        BY <4>1, <4>2, <4>3
    <3>3. QED
      BY <3>1, <3>2
  <2>3. \/ ~ ApiAt("idle") /\ api.job = j
        \/ Holds(queue, j) \/ Holds(processing[w], j) \/ InHand(w, j)
        \/ \E v \in Workers \ {w} : Holds(processing[v], j) \/ InHand(v, j)
    BY <2>2, PendingParts
  <2>4. CASE Holds(queue, j) \/ Holds(processing[w], j) \/ InHand(w, j)
    <3>1. Holds(queue', j) \/ Holds(processing'[w], j) \/ InHand(w, j)'
      BY <1>8, <1>t, <2>4, PendingWork
    <3>2. QED
      BY <3>1 DEF Pending, Holds, InHand
  <2>5. CASE \E v \in Workers \ {w} : Holds(processing[v], j) \/ InHand(v, j)
    <3>1. PICK v \in Workers \ {w} : Holds(processing[v], j) \/ InHand(v, j)
      BY <2>5
    <3>2. Holds(processing'[v], j) \/ InHand(v, j)'
      BY <2>1, <3>1 DEF InHand, Job
    <3>3. QED
      BY <3>2 DEF Pending, Holds, InHand
  <2>6. CASE ~ ApiAt("idle") /\ api.job = j
    BY <2>1, <2>6 DEF Pending, ApiAt
  <2>7. QED
    BY <2>3, <2>4, <2>5, <2>6
<1>9. ASSUME NEW w \in Workers, FailSwallowed(w) \/ WorkerCrash(w) PROVE Pending(j)'
  BY <1>9 DEF FailSwallowed, WorkerCrash, Fault
<1>10. CASE UNCHANGED vars
  BY <1>10, <1>p DEF vars, stores, redis, Pending, ApiAt, Job
<1>11. QED
  BY <1>1, <1>2, <1>3, <1>4, <1>5, <1>6, <1>7, <1>8, <1>9, <1>10 DEF Next, Api

(* Without crashes and failing store calls, every job that is not finished   *)
(* is on a list or in the hands of a process, however DELETE, retries and    *)
(* recoveries of leased or expired tasks interleave.  (A worker that dies    *)
(* inside retry or requeue_stale does strand its job.)                       *)
THEOREM NobodyStranded ==
    ASSUME Faulty = {}
    PROVE  Spec => []NoJobStranded
<1>1. Init => AckedDone /\ NoJobStranded
  BY DEF Init, AckedDone, NoJobStranded, Resting, At, NoRecord
<1>2. StrandedInv /\ [Next]_vars => StrandedInv'
  <2>1. StrandedInv /\ [Next]_vars => NoJobStranded'
    BY StrandedStep DEF NoJobStranded
  <2>2. QED
    BY <2>1, DeliveryStep, AckedStep DEF StrandedInv
<1>3. Init => StrandedInv
  BY <1>1, DeliveryInit DEF StrandedInv
<1>4. StrandedInv => NoJobStranded
  BY DEF StrandedInv
<1>5. QED
  BY <1>2, <1>3, <1>4, PTL DEF Spec
=============================================================================
