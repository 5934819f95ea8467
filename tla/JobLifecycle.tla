---------------------------- MODULE JobLifecycle -----------------------------
(***************************************************************************)
(* What a client may rely on when it polls GET /v1/jobs/{id} and, once the  *)
(* job is done, reads /result: a job is accepted once, moves between the    *)
(* running states of spec 8.1, ends once, and its transcript is in the      *)
(* store before it is announced and never replaced afterwards.              *)
(***************************************************************************)
CONSTANT Jobs

VARIABLES
    state,     \* JobRecord.state, "absent" before the job is created
    stored     \* jobs whose segments are stored

Success == {"SUCCEEDED", "DEGRADED_SUCCEEDED"}
Running == {"PREPROCESSING", "DIARIZING", "TRANSCRIBING", "SEPARATING", "LINKING", "FUSING"}

Unfinished(j) == state[j] \in Running \union {"QUEUED"}

Init ==
    /\ state = [j \in Jobs |-> "absent"]
    /\ stored = {}

Accept(j) ==
    /\ state[j] = "absent"
    /\ state' = [state EXCEPT ![j] = "QUEUED"]
    /\ UNCHANGED stored

(* A retry may take the job back to an earlier stage.                        *)
Advance(j) ==
    /\ Unfinished(j)
    /\ \E stage \in Running : state' = [state EXCEPT ![j] = stage]
    /\ UNCHANGED stored

Store(j) ==
    /\ Unfinished(j)
    /\ stored' = stored \union {j}
    /\ UNCHANGED state

Succeed(j) ==
    /\ Unfinished(j)
    /\ j \in stored
    /\ \E outcome \in Success : state' = [state EXCEPT ![j] = outcome]
    /\ UNCHANGED stored

Fail(j) ==
    /\ Unfinished(j)
    /\ state' = [state EXCEPT ![j] = "FAILED"]
    /\ UNCHANGED stored

(* Only a job no worker has touched is cancelled.                            *)
Cancel(j) ==
    /\ state[j] = "QUEUED"
    /\ j \notin stored
    /\ state' = [state EXCEPT ![j] = "CANCELLED"]
    /\ UNCHANGED stored

Next ==
    \E j \in Jobs :
        \/ Accept(j)
        \/ Advance(j)
        \/ Store(j)
        \/ Succeed(j)
        \/ Fail(j)
        \/ Cancel(j)

Spec == Init /\ [][Next]_<<state, stored>>
=============================================================================
