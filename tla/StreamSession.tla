---------------------------- MODULE StreamSession ----------------------------
(***************************************************************************)
(* One StreamingSession (application/streaming_pipeline.py), the WebSocket  *)
(* handlers that serve it (api/websocket.py), the HTTP finalize endpoint    *)
(* (api/http.py) and a client that reconnects and resumes.                  *)
(*                                                                         *)
(* The handlers are coroutines of one event loop: between two awaits a      *)
(* handler runs alone, so one received message is one step and one sent     *)
(* event is another.  A handler whose client is gone goes on with what it   *)
(* has received until a receive or a send tells it.                         *)
(*                                                                         *)
(* What the models make of the audio is nondeterministic: how many          *)
(* provisional segments a window closes, and which of them the segments of  *)
(* the final pass supersede.  Who speaks is module StreamingSpeakers.       *)
(***************************************************************************)
EXTENDS EventLog, FiniteSets

CONSTANTS
    Sockets,        \* connections the client may open, one after the other
    NoSocket,       \* the client is not connected
    MaxSequence,    \* bound: the log grows no further before the final pass
    MaxSegments,    \* bound: segments one window closes
    MaxFinals,      \* bound: segments the final pass finds
    MaxInbox,       \* bound: messages on their way to a handler
    Overlapping,    \* may the client reconnect before the old handler ended?
    HttpFinalizes   \* may somebody call POST /v1/sessions/{id}/finalize?

ASSUME SocketAssumption == NoSocket \notin Sockets
ASSUME BoundAssumption ==
    /\ MaxSequence \in Nat
    /\ MaxSegments \in Nat
    /\ MaxFinals \in Nat
    /\ MaxInbox \in Nat \ {0}
ASSUME FlagAssumption == Overlapping \in BOOLEAN /\ HttpFinalizes \in BOOLEAN

VARIABLES
    state,     \* state_machine
    audio,     \* has the session received samples?
    emitted,   \* _emitted: the provisional events, by number
    conn,      \* the handler of each connection
    client     \* the connection the client holds and what it received on it

log == <<events, sequence>>
session == <<state, audio, emitted>>
vars == <<log, session, conn, client>>

SessionState == {"CREATED", "STREAMING", "FINALIZING", "FINALIZED"}
Message == [type : {"pcm", "finalize", "resume"}, last : Nat]
Pcm == [type |-> "pcm", last |-> 0]
FinalizeMessage == [type |-> "finalize", last |-> 0]
Resume(n) == [type |-> "resume", last |-> n]

Unused == [pc |-> "unused", inbox |-> <<>>, out |-> <<>>, last |-> FALSE]
Closed == [pc |-> "closed", inbox |-> <<>>, out |-> <<>>, last |-> FALSE]

Init ==
    /\ LogInit
    /\ state = "CREATED"
    /\ audio = FALSE
    /\ emitted = {}
    /\ conn = [s \in Sockets |-> Unused]
    /\ client = [socket |-> NoSocket, got |-> <<>>]

-----------------------------------------------------------------------------
(* The client *)

LastReceived == IF client.got = <<>> THEN 0 ELSE client.got[Len(client.got)]

Reconnecting == \E s \in Sockets : conn[s].pc # "unused"

(* A new connection: the handler starts a session whose log is empty, and a  *)
(* client that was connected before asks for what it missed.                 *)
Connect(s) ==
    /\ client.socket = NoSocket
    /\ conn[s].pc = "unused"
    /\ Overlapping \/ \A t \in Sockets : conn[t].pc # "ready"
    /\ client' = [client EXCEPT !.socket = s]
    /\ LET inbox == IF Reconnecting THEN <<Resume(LastReceived)>> ELSE <<>>
           starts == Len(events) = 0
       IN  /\ AppendAll(IF starts THEN Plain("started", 1) ELSE <<>>)
           /\ state' = IF starts THEN "STREAMING" ELSE state
           /\ conn' = [conn EXCEPT ![s] =
                 [pc |-> "ready", inbox |-> inbox, out |-> IF starts THEN <<1>> ELSE <<>>,
                  last |-> FALSE]]
    /\ UNCHANGED <<audio, emitted>>

(* The connection breaks or is closed; the server does not know it yet.      *)
Leave ==
    /\ client.socket # NoSocket
    /\ client' = [client EXCEPT !.socket = NoSocket]
    /\ UNCHANGED <<log, session, conn>>

SendMessage(message) ==
    /\ client.socket # NoSocket
    /\ conn[client.socket].pc = "ready"
    /\ Len(conn[client.socket].inbox) < MaxInbox
    /\ conn' = [conn EXCEPT ![client.socket].inbox = Append(@, message)]
    /\ UNCHANGED <<log, session, client>>

-----------------------------------------------------------------------------
(* The session *)

Of(entries, kind) == {i \in 1 .. Len(entries) : entries[i].kind = kind}

(* The entries go to the log; _emitted remembers the provisional ones.       *)
Record(entries) ==
    /\ AppendAll(entries)
    /\ emitted' = emitted \union {sequence + i : i \in Of(entries, "provisional")}

(* Mutant: already_used is not looked at.                                    *)
SupersedesAny(provisional) ==
    UNION {[1 .. n -> provisional \union {0}] : n \in 0 .. MaxFinals}

(* _superseded_event_id: each segment of the final pass replaces one earlier *)
(* event or none, and no event is replaced twice.                            *)
Supersedes(provisional) ==
    UNION {{f \in [1 .. n -> provisional \union {0}] :
               \A i, j \in 1 .. n : i # j /\ f[i] # 0 => f[i] # f[j]} : n \in 0 .. MaxFinals}

(* finalize(): the forced window, then the second pass over the spooled      *)
(* audio (label revisions, finals, a warning when it was degraded), then     *)
(* session.finalized.                                                        *)
FinalBatch(segments, changes, f, degraded) ==
    Plain("provisional", segments) \o Plain("revision", changes) \o Finals(f)
        \o Plain("warning", degraded) \o Plain("finalized", 1)

FinalBatches(segments) ==
    {FinalBatch(segments, changes, f, degraded) :
        changes \in {0, 1}, degraded \in {0, 1},
        f \in Supersedes(emitted \union {sequence + i : i \in 1 .. segments})}

(* Without audio only session.finalized.                                     *)
FinalEntries ==
    IF audio
    THEN UNION {FinalBatches(segments) : segments \in 0 .. MaxSegments}
    ELSE {Plain("finalized", 1)}

(* Mutant: a second finalize runs the final pass again.                      *)
FinalizeAgain(entries) ==
    /\ state' = "FINALIZED"
    /\ Record(entries)
    /\ UNCHANGED audio

Finalize(entries) ==
    /\ state # "FINALIZED"
    /\ state' = "FINALIZED"
    /\ Record(entries)
    /\ UNCHANGED audio

(* The second pass raises: what the forced window emitted is in the log, the *)
(* session stays in FINALIZING and may be finalized again.                   *)
FinalizeFails(n) ==
    /\ state # "FINALIZED"
    /\ audio
    /\ sequence + n <= MaxSequence
    /\ state' = "FINALIZING"
    /\ Record(Plain("provisional", n))
    /\ UNCHANGED audio

-----------------------------------------------------------------------------
(* The handler of one connection *)

(* It waits for a message once it has sent all it had to send.               *)
Receives(s, type) ==
    /\ conn[s].pc = "ready"
    /\ conn[s].out = <<>>
    /\ conn[s].inbox # <<>>
    /\ Head(conn[s].inbox).type = type

Answers(s, numbers) ==
    conn' = [conn EXCEPT ![s].inbox = Tail(@), ![s].out = numbers]

Closes(s) == conn' = [conn EXCEPT ![s] = Closed]

(* push_pcm: a window that closes so many segments, most often none.         *)
PushPcm(s, segments) ==
    /\ Receives(s, "pcm")
    /\ state = "STREAMING"
    /\ sequence + segments <= MaxSequence
    /\ audio' = TRUE
    /\ Record(Plain("provisional", segments))
    /\ Answers(s, NewNumbers(Plain("provisional", segments)))
    /\ UNCHANGED <<state, client>>

(* A stage of the window raises; the samples stay in the ring.               *)
PushFails(s) ==
    /\ Receives(s, "pcm")
    /\ state = "STREAMING"
    /\ audio' = TRUE
    /\ Closes(s)
    /\ UNCHANGED <<log, state, emitted, client>>

(* Audio outside STREAMING: SessionClockDiscontinuityError.                  *)
PushRefused(s) ==
    /\ Receives(s, "pcm")
    /\ state # "STREAMING"
    /\ Closes(s)
    /\ UNCHANGED <<log, session, client>>

(* Mutant: the handler waits for more after a finalize.                      *)
SocketFinalizeKeepsOpen(s) ==
    /\ Receives(s, "finalize")
    /\ \E entries \in FinalEntries :
          Finalize(entries) /\ Answers(s, NewNumbers(entries))
    /\ UNCHANGED client

(* The answer to a finalize is the last thing the handler sends.             *)
SocketFinalize(s) ==
    /\ Receives(s, "finalize")
    /\ \E entries \in FinalEntries :
          /\ Finalize(entries)
          /\ conn' = [conn EXCEPT ![s].inbox = <<>>, ![s].out = NewNumbers(entries),
                                  ![s].last = TRUE]
    /\ UNCHANGED client

SocketFinalizeFails(s, segments) ==
    /\ Receives(s, "finalize")
    /\ FinalizeFails(segments)
    /\ Closes(s)
    /\ UNCHANGED client

(* The session is finalized already: nothing is sent.                        *)
SocketFinalizedBefore(s) ==
    /\ Receives(s, "finalize")
    /\ state = "FINALIZED"
    /\ Closes(s)
    /\ UNCHANGED <<log, session, client>>

(* A replay, or the ValueError of replay_from, which ends the handler.       *)
SocketResume(s) ==
    /\ Receives(s, "resume")
    /\ LET n == Head(conn[s].inbox).last
       IN  IF CanReplayFrom(n) THEN Answers(s, ReplayFrom(n)) ELSE Closes(s)
    /\ UNCHANGED <<log, session, client>>

(* _send: one event at a time; a client that has left does not get it.       *)
Send(s) ==
    /\ conn[s].out # <<>>
    /\ client' = IF client.socket = s
                 THEN [client EXCEPT !.got = Append(@, Head(conn[s].out))]
                 ELSE client
    /\ IF conn[s].last /\ Len(conn[s].out) = 1
       THEN Closes(s)
       ELSE conn' = [conn EXCEPT ![s].out = Tail(@)]
    /\ UNCHANGED <<log, session>>

(* The handler learns that the client is gone, in a send or in a receive.    *)
Disconnect(s) ==
    /\ conn[s].pc = "ready"
    /\ client.socket # s
    /\ conn[s].out # <<>> \/ conn[s].inbox = <<>>
    /\ Closes(s)
    /\ UNCHANGED <<log, session, client>>

Serve(s) ==
    \/ \E n \in 0 .. MaxSegments : PushPcm(s, n)
    \/ PushFails(s)
    \/ PushRefused(s)
    \/ SocketFinalize(s)
    \/ \E n \in 0 .. MaxSegments : SocketFinalizeFails(s, n)
    \/ SocketFinalizedBefore(s)
    \/ SocketResume(s)
    \/ Send(s)
    \/ Disconnect(s)

(* POST /v1/sessions/{id}/finalize: the events go to the caller only.        *)
HttpFinalize ==
    /\ HttpFinalizes
    /\ \/ \E entries \in FinalEntries : Finalize(entries)
       \/ \E n \in 0 .. MaxSegments : FinalizeFails(n)
    /\ UNCHANGED <<conn, client>>

-----------------------------------------------------------------------------
Next ==
    \/ \E s \in Sockets : Connect(s) \/ Serve(s)
    \/ Leave
    \/ SendMessage(Pcm)
    \/ SendMessage(FinalizeMessage)
    \/ HttpFinalize

Spec == Init /\ [][Next]_vars

(* The event loop runs every handler that can go on.                         *)
FairSpec == Spec /\ \A s \in Sockets : WF_vars(Serve(s))

-----------------------------------------------------------------------------
(* Every variable keeps its type.                                            *)
TypeOK ==
    /\ LogTypeOK
    /\ state \in SessionState
    /\ audio \in BOOLEAN
    /\ emitted \subseteq 1 .. sequence
    /\ conn \in [Sockets -> [pc : {"unused", "ready", "closed"}, inbox : Seq(Message),
                             out : Seq(Nat), last : BOOLEAN]]
    /\ client \in [socket : Sockets \union {NoSocket}, got : Seq(Nat)]

(* Over all its connections a client receives events in the order of their   *)
(* numbers and none twice: neither a replay nor a handler it has left behind *)
(* sends it an event again.                                                  *)
DeliveredOnce == \A i, j \in DOMAIN client.got : i < j => client.got[i] < client.got[j]

(* A client that resumes never misses an event: what it has received is the  *)
(* log from its start without a hole.                                        *)
NoEventLost == \A i \in DOMAIN client.got : client.got[i] = i

(* A final replaces a provisional event that was sent before it, and no two  *)
(* finals replace the same one, however often finalize was retried.          *)
SupersededOnce ==
    \A i \in FinalEvents :
        LET replaced == events[i].supersedes
        IN  replaced # 0 =>
                /\ replaced \in emitted
                /\ replaced < events[i].seq
                /\ \A j \in FinalEvents : events[j].supersedes = replaced => j = i

(* session.finalized is the last event of a session: neither audio still     *)
(* queued on another connection nor a second finalize adds to it.            *)
FinalizedIsLast == [][state = "FINALIZED" => UNCHANGED <<log, session>>]_vars

(* A finalize that has reached the server is answered and the connection     *)
(* closed, whatever is in front of it and whoever leaves.                    *)
FinalizeAnswered ==
    \A s \in Sockets :
        (\E i \in DOMAIN conn[s].inbox : conn[s].inbox[i] = FinalizeMessage)
            ~> conn[s].pc = "closed"
=============================================================================
