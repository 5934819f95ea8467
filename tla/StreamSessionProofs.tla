------------------------- MODULE StreamSessionProofs -------------------------
(***************************************************************************)
(* Proofs about one streaming session, for every number of connections,     *)
(* every retention and every bound: the event log has no hole, nothing      *)
(* follows session.finalized, a client receives events in order and none    *)
(* twice, misses none if it lets its old connection end, and no two finals  *)
(* replace the same provisional.                                            *)
(***************************************************************************)
EXTENDS StreamSession, SequenceTheorems, NaturalsInduction, WellFoundedInduction, TLAPS

-----------------------------------------------------------------------------
(* What is appended *)

(* Entries of one kind are a list of entries.                                *)
LEMMA PlainType ==
    ASSUME NEW kind \in Kinds, NEW n \in Nat
    PROVE  Plain(kind, n) \in Seq(Entry) /\ Len(Plain(kind, n)) = n
<1>1. \A i \in 1 .. n : [kind |-> kind, supersedes |-> 0] \in Entry
  BY DEF Entry
<1>2. QED
  BY <1>1, IsASeq, LenProperties DEF Plain

(* The finals of a pass are a list of entries.                               *)
LEMMA FinalsType ==
    ASSUME NEW n \in Nat, NEW f \in [1 .. n -> Nat]
    PROVE  Finals(f) \in Seq(Entry)
<1>1. f \in Seq(Nat) /\ Len(f) = n
  BY SeqDef, LenProperties
<1>2. \A i \in 1 .. n : [kind |-> "final", supersedes |-> f[i]] \in Entry
  BY DEF Entry, Kinds
<1>3. Finals(f) = [i \in 1 .. n |-> [kind |-> "final", supersedes |-> f[i]]]
  BY <1>1 DEF Finals
<1>4. QED
  BY <1>2, <1>3, IsASeq

(* What the final pass replaces are numbers of events.                       *)
LEMMA SupersedesType ==
    ASSUME NEW S \in SUBSET Nat, NEW f \in Supersedes(S)
    PROVE  \E n \in Nat : f \in [1 .. n -> Nat]
<1>1. PICK n \in 0 .. MaxFinals : f \in [1 .. n -> S \union {0}]
  BY DEF Supersedes
<1>2. n \in Nat
  BY BoundAssumption
<1>3. S \union {0} \subseteq Nat
  OBVIOUS
<1>4. f \in [1 .. n -> Nat]
  BY <1>1, <1>3, Zenon
<1>5. QED
  BY <1>2, <1>4

(* A finalize appends a list of entries that is not empty.                   *)
LEMMA FinalEntriesType ==
    ASSUME NEW entries \in FinalEntries, emitted \subseteq Nat, sequence \in Nat
    PROVE  entries \in Seq(Entry) /\ Len(entries) > 0
<1>1. Plain("finalized", 1) \in Seq(Entry) /\ Len(Plain("finalized", 1)) = 1
  BY PlainType DEF Kinds
<1>2. CASE ~ audio
  <2>1. entries = Plain("finalized", 1)
    BY <1>2 DEF FinalEntries
  <2>2. QED
    BY <2>1, <1>1
<1>3. CASE audio
  <2> DEFINE Known(n) == emitted \union {sequence + i : i \in 1 .. n}
  <2>0. PICK n \in 0 .. MaxSegments : entries \in FinalBatches(n)
    BY <1>3, Zenon DEF FinalEntries
  <2>1. PICK changes \in {0, 1}, degraded \in {0, 1}, f \in Supersedes(Known(n)) :
            entries = FinalBatch(n, changes, f, degraded)
    BY <2>0 DEF FinalBatches
  <2>2. n \in Nat /\ changes \in Nat /\ degraded \in Nat
    BY BoundAssumption
  <2>c. \A i \in 1 .. n : sequence + i \in Nat
    BY <2>2
  <2>3. Known(n) \in SUBSET Nat
    BY <2>c, Zenon
  <2> HIDE DEF Known
  <2>4. Finals(f) \in Seq(Entry)
    BY <2>3, SupersedesType, FinalsType
  <2>5. /\ Plain("provisional", n) \in Seq(Entry)
        /\ Plain("revision", changes) \in Seq(Entry)
        /\ Plain("warning", degraded) \in Seq(Entry)
    BY <2>2, PlainType DEF Kinds
  <2> DEFINE before == Plain("provisional", n) \o Plain("revision", changes) \o Finals(f)
                        \o Plain("warning", degraded)
  <2>6. before \in Seq(Entry)
    BY <2>4, <2>5, ConcatProperties
  <2>7. entries = before \o Plain("finalized", 1)
    BY <2>1, Zenon DEF FinalBatch
  <2> HIDE DEF before
  <2>8. /\ entries \in Seq(Entry)
        /\ Len(entries) = Len(before) + Len(Plain("finalized", 1))
    BY <2>6, <2>7, <1>1, ConcatProperties, Zenon
  <2>9. Len(before) \in Nat
    BY <2>6, LenProperties, Zenon
  <2>10. QED
    BY <2>8, <2>9, <1>1
<1>4. QED
  BY <1>2, <1>3

-----------------------------------------------------------------------------
(* The log *)

(* The number of events that the retention leaves in a log.                  *)
Kept(n) == IF n > Retention THEN Retention ELSE n

(* A log and the entries after it, still without a limit.                    *)
Longer(entries) ==
    events \o [i \in 1 .. Len(entries) |->
                 [seq |-> sequence + i, kind |-> entries[i].kind,
                  supersedes |-> entries[i].supersedes]]

(* Appending continues the numbers.                                          *)
LEMMA LongerContiguous ==
    ASSUME LogTypeOK, LogContiguous, NEW entries \in Seq(Entry)
    PROVE  /\ Longer(entries) \in Seq(Event)
           /\ Len(Longer(entries)) = Len(events) + Len(entries)
           /\ \A i \in 1 .. Len(events) + Len(entries) :
                 Longer(entries)[i].seq = sequence - Len(events) + i
<1> DEFINE new == [i \in 1 .. Len(entries) |->
                     [seq |-> sequence + i, kind |-> entries[i].kind,
                      supersedes |-> entries[i].supersedes]]
<1>1. Len(entries) \in Nat /\ Len(events) \in Nat /\ sequence \in Nat /\ events \in Seq(Event)
  BY LenProperties DEF LogTypeOK
<1>a. \A i \in 1 .. Len(entries) : entries[i] \in Entry
  BY ElementOfSeq, Zenon
<1>2. \A i \in 1 .. Len(entries) : new[i] \in Event /\ new[i].seq = sequence + i
  BY <1>1, <1>a DEF Event, Entry
<1>3. new \in Seq(Event) /\ Len(new) = Len(entries)
  BY <1>1, <1>2, IsASeq, LenProperties
<1>4. Longer(entries) = events \o new
  BY DEF Longer
<1> HIDE DEF new
<1>c. /\ events \o new \in Seq(Event)
      /\ Len(events \o new) = Len(events) + Len(new)
      /\ \A i \in 1 .. Len(events) + Len(new) :
            (events \o new)[i] = IF i <= Len(events) THEN events[i] ELSE new[i - Len(events)]
  BY <1>1, <1>3, ConcatProperties, Zenon
<1>5. Longer(entries) \in Seq(Event) /\ Len(Longer(entries)) = Len(events) + Len(entries)
  BY <1>3, <1>4, <1>c, Zenon
<1>b. \A i \in 1 .. Len(events) + Len(entries) :
          Longer(entries)[i] = IF i <= Len(events) THEN events[i] ELSE new[i - Len(events)]
  BY <1>3, <1>4, <1>c, Zenon
<1>6. ASSUME NEW i \in 1 .. Len(events) + Len(entries)
      PROVE  Longer(entries)[i].seq = sequence - Len(events) + i
  <2>1. CASE i <= Len(events)
    <3>1. Longer(entries)[i] = events[i]
      BY <2>1, <1>b
    <3>2. QED
      BY <3>1, <2>1, <1>1 DEF LogContiguous
  <2>2. CASE i > Len(events)
    <3>1. Longer(entries)[i] = new[i - Len(events)]
      BY <2>2, <1>b, <1>1
    <3>2. i - Len(events) \in 1 .. Len(entries)
      BY <2>2, <1>1
    <3>3. QED
      BY <3>1, <3>2, <1>1, <1>2
  <2>3. QED
    BY <2>1, <2>2, <1>1
<1>7. QED
  BY <1>5, <1>6

(* A part of a list of events is a list of events.                           *)
LEMMA PartOfLog ==
    ASSUME NEW list, NEW first \in Int, NEW last \in Int, first <= last,
           \A i \in first .. last : list[i] \in Event
    PROVE  /\ SubSeq(list, first, last) \in Seq(Event)
           /\ Len(SubSeq(list, first, last)) = last - first + 1
           /\ \A i \in 1 .. last - first + 1 :
                 SubSeq(list, first, last)[i] = list[first + i - 1]
  BY SubSeqProperties

(* Trimming the oldest events leaves the newest, with their numbers.         *)
LEMMA AppendContiguous ==
    ASSUME LogTypeOK, LogContiguous, NEW entries \in Seq(Entry), AppendAll(entries)
    PROVE  LogTypeOK' /\ LogContiguous'
<1> DEFINE list == Longer(entries)
           n == Len(events) + Len(entries)
<1>1. /\ list \in Seq(Event)
      /\ Len(list) = n
      /\ \A i \in 1 .. n : list[i].seq = sequence - Len(events) + i
  BY LongerContiguous
<1>2. events' = Retain(list) /\ sequence' = sequence + Len(entries)
  BY DEF AppendAll, Longer
<1>3. /\ Len(entries) \in Nat /\ Len(events) \in Nat /\ sequence \in Nat
      /\ Retention \in Nat \ {0}
      /\ Len(events) = Kept(sequence)
  BY LenProperties, RetentionAssumption DEF LogTypeOK, LogContiguous, Kept
<1>a. n \in Nat
  BY <1>3
<1>b. \A i \in 1 .. n : list[i] \in Event
  BY <1>1, ElementOfSeq, Zenon
<1> HIDE DEF list, n
<1>4. CASE n > Retention
  <2>1. events' = SubSeq(list, n - Retention + 1, n)
    BY <1>1, <1>2, <1>4 DEF Retain
  <2> DEFINE first == n - Retention + 1
  <2>a. first \in Int /\ n \in Int /\ \A i \in first .. n : list[i] \in Event
    BY <1>a, <1>b, <1>3, <1>4
  <2>b. first <= n /\ n - first + 1 = Retention
    BY <1>a, <1>3, <1>4
  <2>c. events' = SubSeq(list, first, n)
    BY <2>1
  <2> HIDE DEF first
  <2>d. /\ events' \in Seq(Event)
        /\ Len(events') = n - first + 1
        /\ \A i \in 1 .. n - first + 1 : events'[i] = list[first + i - 1]
    <3>1. /\ SubSeq(list, first, n) \in Seq(Event)
          /\ Len(SubSeq(list, first, n)) = n - first + 1
          /\ \A i \in 1 .. n - first + 1 : SubSeq(list, first, n)[i] = list[first + i - 1]
      BY <2>a, <2>b, PartOfLog, Zenon
    <3>2. QED
      BY <3>1, <2>c, Zenon
  <2>2. /\ events' \in Seq(Event)
        /\ Len(events') = Retention
        /\ \A i \in 1 .. Retention : events'[i] = list[n - Retention + i]
    BY <2>b, <2>d, <1>a, <1>3 DEF first
  <2>3. sequence' > Retention
    BY <1>2, <1>3, <1>4 DEF Kept, n
  <2>4. \A i \in 1 .. Retention : events'[i].seq = sequence' - Retention + i
    <3>1. SUFFICES ASSUME NEW i \in 1 .. Retention
                   PROVE  events'[i].seq = sequence' - Retention + i
      OBVIOUS
    <3>2. n - Retention + i \in 1 .. n
      BY <1>a, <1>3, <1>4
    <3>3. events'[i].seq = sequence - Len(events) + (n - Retention + i)
      BY <2>2, <3>2, <1>1
    <3>4. QED
      BY <3>3, <1>2, <1>3 DEF n
  <2>5. QED
    BY <2>2, <2>3, <2>4, <1>2, <1>3 DEF LogTypeOK, LogContiguous
<1>5. CASE ~ (n > Retention)
  <2>1. events' = list
    BY <1>1, <1>2, <1>5 DEF Retain
  <2>2. Len(entries) > 0 => sequence <= Retention
    BY <1>3, <1>5 DEF Kept, n
  <2>a. Len(events') = n
    BY <2>1, <1>1, Zenon
  <2>b. n = Kept(sequence')
    BY <2>2, <1>2, <1>3, <1>5 DEF Kept, n
  <2>3. Len(events') = n /\ n = Kept(sequence')
    BY <2>a, <2>b
  <2>4. \A i \in 1 .. n : events'[i].seq = sequence' - n + i
    <3>1. sequence' - n = sequence - Len(events)
      BY <1>2, <1>3 DEF n
    <3>2. QED
      BY <2>1, <3>1, <1>1
  <2>c. events' \in Seq(Event)
    BY <2>1, <1>1, Zenon
  <2>5. LogTypeOK'
    BY <2>c, <1>2, <1>3 DEF LogTypeOK
  <2>6. LogContiguous'
    BY <2>3, <2>4, <1>5, <1>a, <1>3 DEF LogContiguous, Kept
  <2>7. QED
    BY <2>5, <2>6
<1>6. QED
  BY <1>4, <1>5

-----------------------------------------------------------------------------
(* The invariant *)

(* LogContiguous says nothing of a log of the wrong type, the final pass     *)
(* appends a list of entries only if emitted holds numbers, and a finalized  *)
(* session has a log that is not empty, so that no connection starts it      *)
(* again.                                                                    *)
LogInv ==
    /\ LogTypeOK
    /\ LogContiguous
    /\ emitted \subseteq Nat
    /\ state = "FINALIZED" => sequence > 0

(* Nothing appended, nothing changed.                                        *)
LEMMA AppendNothing ==
    ASSUME LogInv, NEW entries, entries = <<>>, AppendAll(entries)
    PROVE  UNCHANGED log
<1>1. Len(entries) = 0 /\ events \in Seq(Event) /\ sequence \in Nat /\ Len(events) \in Nat
  BY DEF LogInv, LogTypeOK
<1>2. Longer(entries) = events
  BY <1>1 DEF Longer
<1>3. Retain(events) = events
  BY <1>1 DEF Retain, LogInv, LogContiguous
<1>4. events' = Retain(Longer(entries)) /\ sequence' = sequence + Len(entries)
  BY DEF AppendAll, Longer
<1>5. events' = events
  BY <1>2, <1>3, <1>4, Zenon
<1>6. sequence' = sequence
  BY <1>1, <1>4
<1>7. QED
  BY <1>5, <1>6 DEF log

(* The step every operation of the session takes.                            *)
LEMMA RecordKeeps ==
    ASSUME LogInv, NEW entries \in Seq(Entry), Record(entries)
    PROVE  /\ LogTypeOK' /\ LogContiguous' /\ emitted' \subseteq Nat
           /\ sequence' = sequence + Len(entries)
<1>1. AppendAll(entries)
  BY DEF Record
<1>2. LogTypeOK' /\ LogContiguous'
  BY <1>1, AppendContiguous DEF LogInv
<1>3. sequence \in Nat /\ Of(entries, "provisional") \subseteq Nat
  BY DEF LogInv, LogTypeOK, Of
<1>4. emitted' \subseteq Nat
  <2>1. \A i \in Of(entries, "provisional") : sequence + i \in Nat
    BY <1>3
  <2>2. emitted' = emitted \union {sequence + i : i \in Of(entries, "provisional")}
    BY DEF Record
  <2>3. emitted \subseteq Nat
    BY DEF LogInv
  <2>4. QED
    BY <2>1, <2>2, <2>3, Zenon
<1>5. QED
  BY <1>1, <1>2, <1>4 DEF AppendAll

(* finalize(), whoever calls it.                                             *)
LEMMA FinalizeKeeps ==
    ASSUME LogInv, NEW entries \in FinalEntries, Finalize(entries)
    PROVE  LogInv'
<1>1. entries \in Seq(Entry) /\ Len(entries) > 0
  BY FinalEntriesType DEF LogInv, LogTypeOK
<1>2. /\ LogTypeOK' /\ LogContiguous' /\ emitted' \subseteq Nat
      /\ sequence' = sequence + Len(entries)
  BY <1>1, RecordKeeps DEF Finalize
<1>3. sequence \in Nat /\ Len(entries) \in Nat
  BY <1>1, LenProperties DEF LogInv, LogTypeOK
<1>4. sequence' > 0
  BY <1>1, <1>2, <1>3
<1>5. QED
  BY <1>2, <1>4 DEF LogInv

(* Provisional segments, of a window or of a finalize that fails.            *)
LEMMA ProvisionalKeeps ==
    ASSUME LogInv, NEW n \in 0 .. MaxSegments, Record(Plain("provisional", n)),
           state' # "FINALIZED"
    PROVE  LogInv'
<1>1. n \in Nat /\ "provisional" \in Kinds
  BY BoundAssumption DEF Kinds
<1>2. Plain("provisional", n) \in Seq(Entry)
  BY <1>1, PlainType
<1>3. LogTypeOK' /\ LogContiguous' /\ emitted' \subseteq Nat
  BY <1>2, RecordKeeps
<1>4. QED
  BY <1>3 DEF LogInv

(* A connection appends session.started to an empty log only.                *)
LEMMA ConnectKeeps ==
    ASSUME LogInv, NEW s \in Sockets, Connect(s)
    PROVE  LogInv' /\ (state = "FINALIZED" => UNCHANGED <<log, session>>)
<1>1. UNCHANGED <<audio, emitted>>
  BY DEF Connect
<1>2. CASE Len(events) = 0
  <2>1. AppendAll(Plain("started", 1)) /\ state' = "STREAMING"
    BY <1>2 DEF Connect
  <2>2. Plain("started", 1) \in Seq(Entry)
    BY PlainType DEF Kinds
  <2>3. LogTypeOK' /\ LogContiguous'
    BY <2>1, <2>2, AppendContiguous DEF LogInv
  <2>4. state # "FINALIZED"
    BY <1>2, RetentionAssumption DEF LogInv, LogTypeOK, LogContiguous
  <2>5. QED
    BY <2>1, <2>3, <2>4, <1>1 DEF LogInv
<1>3. CASE Len(events) # 0
  <2>1. AppendAll(<<>>) /\ state' = state
    BY <1>3 DEF Connect
  <2>2. UNCHANGED log
    BY <2>1, AppendNothing
  <2>3. UNCHANGED <<log, session>>
    BY <2>1, <2>2, <1>1 DEF session
  <2>4. LogInv'
    BY <2>3 DEF LogInv, log, session, LogTypeOK, LogContiguous
  <2>5. QED
    BY <2>3, <2>4
<1>4. QED
  BY <1>2, <1>3

(* A step that leaves the log, the state and _emitted alone.                 *)
LEMMA UnchangedKeeps ==
    ASSUME LogInv, UNCHANGED <<log, state, emitted>>
    PROVE  LogInv'
  BY DEF LogInv, log, LogTypeOK, LogContiguous

(* What a handler does keeps the invariant, and once the session is          *)
(* finalized it changes nothing of it.                                       *)
LEMMA ServeKeeps ==
    ASSUME LogInv, NEW s \in Sockets, Serve(s)
    PROVE  LogInv' /\ (state = "FINALIZED" => UNCHANGED <<log, session>>)
<1>1. CASE \E n \in 0 .. MaxSegments : PushPcm(s, n)
  BY <1>1, ProvisionalKeeps DEF PushPcm
<1>2. CASE PushFails(s)
  BY <1>2, UnchangedKeeps DEF PushFails
<1>3. CASE PushRefused(s) \/ SocketFinalizedBefore(s) \/ SocketResume(s)
                \/ Send(s) \/ Disconnect(s)
  <2>1. UNCHANGED <<log, session>>
    BY <1>3, Zenon DEF PushRefused, SocketFinalizedBefore, SocketResume, Send, Disconnect
  <2>2. QED
    BY <2>1, UnchangedKeeps DEF session
<1>4. CASE SocketFinalize(s)
  <2>1. PICK entries \in FinalEntries : Finalize(entries)
    BY <1>4, Zenon DEF SocketFinalize
  <2>2. LogInv' /\ state # "FINALIZED"
    BY <2>1, FinalizeKeeps, Zenon DEF Finalize
  <2>3. QED
    BY <2>2
<1>5. CASE \E n \in 0 .. MaxSegments : SocketFinalizeFails(s, n)
  BY <1>5, ProvisionalKeeps DEF SocketFinalizeFails, FinalizeFails
<1>6. QED
  BY <1>1, <1>2, <1>3, <1>4, <1>5 DEF Serve

(* So does every other step.                                                 *)
LEMMA NextKeeps ==
    ASSUME LogInv, [Next]_vars
    PROVE  LogInv' /\ (state = "FINALIZED" => UNCHANGED <<log, session>>)
<1>1. CASE \E s \in Sockets : Connect(s) \/ Serve(s)
  BY <1>1, ConnectKeeps, ServeKeeps
<1>2. CASE Leave \/ SendMessage(Pcm) \/ SendMessage(FinalizeMessage) \/ UNCHANGED vars
  <2>1. UNCHANGED <<log, session>>
    BY <1>2, Zenon DEF Leave, SendMessage, vars
  <2>2. QED
    BY <2>1, UnchangedKeeps DEF session
<1>3. CASE HttpFinalize
  <2>1. CASE \E entries \in FinalEntries : Finalize(entries)
    <3>1. PICK entries \in FinalEntries : Finalize(entries)
      BY <2>1, Zenon
    <3>2. LogInv' /\ state # "FINALIZED"
      BY <3>1, FinalizeKeeps, Zenon DEF Finalize
    <3>3. QED
      BY <3>2
  <2>2. CASE \E n \in 0 .. MaxSegments : FinalizeFails(n)
    BY <2>2, ProvisionalKeeps DEF FinalizeFails
  <2>3. QED
    BY <1>3, <2>1, <2>2, Zenon DEF HttpFinalize
<1>4. QED
  BY <1>1, <1>2, <1>3 DEF Next

(* A session begins with an empty log.                                       *)
LEMMA InitKeeps == Init => LogInv
  BY RetentionAssumption DEF Init, LogInit, LogInv, LogTypeOK, LogContiguous

-----------------------------------------------------------------------------
(* Whatever the connections, the retries of finalize and the retention, the  *)
(* log of a session is its newest part without a hole and its numbers never  *)
(* repeat (SessionEventLog.append, next_sequence_number).                    *)
THEOREM LogSound == Spec => []LogContiguous
<1>1. LogInv /\ [Next]_vars => LogInv'
  BY NextKeeps
<1>2. LogInv => LogContiguous
  BY DEF LogInv
<1>3. QED
  BY InitKeeps, <1>1, <1>2, PTL DEF Spec

(* Nothing changes the session once it is finalized: no audio queued on any  *)
(* connection, no reconnect and no second finalize adds an event             *)
(* (StreamingSession.finalize, push_pcm, start).                             *)
THEOREM FinalizedSealed == Spec => FinalizedIsLast
<1>1. LogInv /\ [Next]_vars => LogInv'
  BY NextKeeps
<1>2. LogInv /\ [Next]_vars => [state = "FINALIZED" => UNCHANGED <<log, session>>]_vars
  BY NextKeeps
<1>3. QED
  BY InitKeeps, <1>1, <1>2, PTL DEF Spec, FinalizedIsLast

-----------------------------------------------------------------------------
(* Numbers in a row *)

(* The m numbers after n.                                                    *)
Run(n, m) == [i \in 1 .. m |-> n + i]

(* A run is a list, and grows at its end.                                    *)
LEMMA RunProperties ==
    ASSUME NEW n \in Nat, NEW m \in Nat
    PROVE  /\ Run(n, m) \in Seq(Nat) /\ Len(Run(n, m)) = m
           /\ \A i \in 1 .. m : Run(n, m)[i] = n + i
           /\ Append(Run(n, m), n + (m + 1)) = Run(n, m + 1)
<1>1. \A i \in 1 .. m : n + i \in Nat
  OBVIOUS
<1>2. Run(n, m) \in Seq(Nat) /\ Len(Run(n, m)) = m
  BY <1>1, IsASeq, LenProperties DEF Run
<1>3. Run(n, m + 1) \in Seq(Nat) /\ Len(Run(n, m + 1)) = m + 1
  BY IsASeq, LenProperties DEF Run
<1>4. /\ Append(Run(n, m), n + (m + 1)) \in Seq(Nat)
      /\ Len(Append(Run(n, m), n + (m + 1))) = m + 1
      /\ \A i \in 1 .. m : Append(Run(n, m), n + (m + 1))[i] = Run(n, m)[i]
      /\ Append(Run(n, m), n + (m + 1))[m + 1] = n + (m + 1)
  BY <1>2, AppendProperties
<1>5. \A i \in 1 .. m + 1 : Append(Run(n, m), n + (m + 1))[i] = Run(n, m + 1)[i]
  BY <1>4 DEF Run
<1>6. Append(Run(n, m), n + (m + 1)) = Run(n, m + 1)
  BY <1>3, <1>4, <1>5, SeqEqual
<1>7. QED
  BY <1>2, <1>6 DEF Run

(* No number makes an empty list.                                            *)
LEMMA RunEmpty == ASSUME NEW n \in Nat PROVE Run(n, 0) = <<>>
  BY RunProperties, EmptySeq

(* Every set of natural numbers that is not empty has a least one.           *)
LEMMA LeastNumber ==
    ASSUME NEW T, T \subseteq Nat, T # {}
    PROVE  \E n \in T : \A k \in T : n <= k
<1> DEFINE less == {p \in Nat \X Nat : p[1] < p[2]}
<1>1. IsWellFoundedOn(less, Nat)
  BY NatLessThanWellFounded DEF OpToRel
<1>2. \A k, n \in Nat : <<k, n>> \in less <=> k < n
  OBVIOUS
<1> HIDE DEF less
<1>3. \E n \in T : \A k \in T : ~ (<<k, n>> \in less)
  BY <1>1, WFMin, Zenon
<1>4. \A k, n \in Nat : ~ (<<k, n>> \in less) => n <= k
  BY <1>2
<1>5. QED
  BY <1>3, <1>4, Zenon

(* A replay that is not refused has every number after n, each once: the     *)
(* filter of replay_from drops a prefix of the log, whatever was trimmed.    *)
LEMMA ReplayIsRun ==
    ASSUME LogTypeOK, LogContiguous, NEW n \in Nat, CanReplayFrom(n)
    PROVE  n <= sequence /\ ReplayFrom(n) = Run(n, sequence - n)
<1> DEFINE N == Len(events)
           skip == n - (sequence - N)
           After(i) == IF i > skip THEN i - skip ELSE 0
           g == [i \in 0 .. N |-> Run(n, After(i))]
           Item(f, i) == IF i = 0 THEN <<>>
                          ELSE IF events[i].seq > n THEN Append(f[i - 1], events[i].seq)
                          ELSE f[i - 1]
           Solves(f) == f = [i \in 0 .. N |-> Item(f, i)]
           h == CHOOSE f : Solves(f)
<1>1. N \in Nat /\ sequence \in Nat /\ N <= sequence /\ n <= sequence
  BY LenProperties, RetentionAssumption DEF LogTypeOK, LogContiguous, CanReplayFrom
<1>2. skip \in 0 .. N
  <2>1. CASE N = 0
    BY <1>1, <2>1, RetentionAssumption DEF LogContiguous
  <2>2. CASE N # 0
    <3>1. events # <<>> /\ events[1].seq = sequence - N + 1
      BY <1>1, <2>2 DEF LogContiguous
    <3>2. QED
      BY <1>1, <3>1 DEF CanReplayFrom
  <2>3. QED
    BY <2>1, <2>2
<1>3. \A i \in 1 .. N : events[i].seq = (sequence - N) + i
  BY DEF LogContiguous
<1>4. ReplayFrom(n) = h[N]
  BY DEF ReplayFrom
<1>5. \A i \in 0 .. N : g[i] = Item(g, i)
  <2> TAKE i \in 0 .. N
  <2>1. CASE i = 0
    <3>1. After(i) = 0
      BY <1>2, <2>1
    <3>2. QED
      BY <2>1, <3>1, RunEmpty
  <2>2. CASE i # 0 /\ events[i].seq > n
    <3>1. /\ i \in 1 .. N /\ i - 1 \in 0 .. N /\ i > skip
          /\ After(i - 1) \in Nat /\ After(i) = After(i - 1) + 1
          /\ events[i].seq = n + (After(i - 1) + 1)
      BY <1>1, <1>2, <1>3, <2>2
    <3>2. g[i] = Run(n, After(i - 1) + 1) /\ g[i - 1] = Run(n, After(i - 1))
      BY <3>1
    <3>3. Item(g, i) = Append(g[i - 1], n + (After(i - 1) + 1))
      BY <2>2, <3>1
    <3> HIDE DEF g, Item, After
    <3>4. Append(Run(n, After(i - 1)), n + (After(i - 1) + 1)) = Run(n, After(i - 1) + 1)
      BY <3>1, RunProperties
    <3>5. QED
      BY <3>2, <3>3, <3>4
  <2>3. CASE i # 0 /\ ~ (events[i].seq > n)
    <3>1. /\ i - 1 \in 0 .. N /\ After(i - 1) = 0 /\ After(i) = 0
      BY <1>1, <1>2, <1>3, <2>3
    <3>2. g[i] = Run(n, 0) /\ g[i - 1] = Run(n, 0)
      BY <3>1
    <3>3. QED
      BY <2>3, <3>2
  <2>4. QED
    BY <2>1, <2>2, <2>3
<1>6. Solves(h)
  <2>1. Solves(g)
    <3>1. g = [i \in 0 .. N |-> g[i]]
      OBVIOUS
    <3> HIDE DEF g, Item
    <3>2. QED
      BY <1>5, <3>1
  <2> HIDE DEF Solves, g
  <2>2. \E f : Solves(f)
    BY <2>1
  <2>3. QED
    BY <2>2
<1>7. \A i \in 0 .. N : h[i] = Item(h, i)
  BY <1>6
<1> HIDE DEF h, g, Solves
<1>8. {i \in 0 .. N : h[i] # g[i]} = {}
  <2> DEFINE D == {i \in 0 .. N : h[i] # g[i]}
  <2> SUFFICES ASSUME D # {} PROVE FALSE
    OBVIOUS
  <2>1. D \subseteq Nat
    BY <1>1
  <2>2. PICK d \in D : \A k \in D : d <= k
    <3> HIDE DEF D
    <3>1. QED
      BY <2>1, LeastNumber
  <2>3. d \in 0 .. N /\ h[d] # g[d]
    BY <2>2
  <2>4. d # 0
    BY <1>5, <1>7, <2>3
  <2>5. d - 1 \in 0 .. N /\ d - 1 \notin D
    BY <1>1, <2>2, <2>3, <2>4
  <2>6. h[d - 1] = g[d - 1]
    BY <2>5
  <2>7. h[d] = Item(h, d) /\ g[d] = Item(g, d)
    BY <1>5, <1>7, <2>3
  <2>8. Item(h, d) = Item(g, d)
    BY <2>6
  <2>9. QED
    BY <2>3, <2>7, <2>8
<1>9. h[N] = g[N] /\ g[N] = Run(n, sequence - n)
  <2>1. N \in 0 .. N /\ After(N) = sequence - n
    BY <1>1, <1>2
  <2>2. h[N] = g[N]
    BY <1>8, <2>1
  <2>3. QED
    BY <2>1, <2>2 DEF g
<1>10. QED
  BY <1>1, <1>4, <1>9

-----------------------------------------------------------------------------
(* What the client receives *)

Handler == [pc : {"unused", "ready", "closed"}, inbox : Seq(Message), out : Seq(Nat),
            last : BOOLEAN]

ChannelTypeOK ==
    /\ conn \in [Sockets -> Handler]
    /\ client \in [socket : Sockets \union {NoSocket}, got : Seq(Nat)]
    /\ \A s \in Sockets : conn[s].pc # "ready" => conn[s].out = <<>> /\ conn[s].inbox = <<>>

Ascends(list) == \A i, j \in 1 .. Len(list) : i < j => list[i] < list[j]

(* Is the handler still to be asked for a replay?                            *)
Asked(s) == \E i \in 1 .. Len(conn[s].inbox) : conn[s].inbox[i].type = "resume"

(* The handler the client listens to has only newer events to send, and a    *)
(* replay it is still to be asked for starts where the client is: the        *)
(* request is the first message and nothing is sent before it is read.       *)
Served(s) ==
    /\ Ascends(conn[s].out)
    /\ \A i \in 1 .. Len(conn[s].out) : conn[s].out[i] \in LastReceived + 1 .. sequence
    /\ \A i \in 1 .. Len(conn[s].inbox) :
          conn[s].inbox[i].type = "resume" =>
              i = 1 /\ conn[s].out = <<>> /\ conn[s].inbox[i].last = LastReceived

(* Only the first connection finds an empty log.                             *)
StartedInv == sequence = 0 => \A s \in Sockets : conn[s].pc = "unused"

ReceiveInv ==
    /\ ChannelTypeOK
    /\ StartedInv
    /\ Ascends(client.got)
    /\ \A i \in 1 .. Len(client.got) : client.got[i] \in 1 .. sequence
    /\ client.socket # NoSocket => Served(client.socket)

(* What was received last is a number of the log.                            *)
LEMMA LastReceivedBound ==
    ASSUME LogInv, ReceiveInv
    PROVE  /\ LastReceived \in 0 .. sequence /\ sequence \in Nat
           /\ client.got \in Seq(Nat) /\ Len(client.got) \in Nat
<1>1. sequence \in Nat /\ client.got \in Seq(Nat) /\ Len(client.got) \in Nat
  BY LenProperties DEF LogInv, LogTypeOK, ReceiveInv, ChannelTypeOK
<1>2. CASE client.got = <<>>
  BY <1>1, <1>2 DEF LastReceived
<1>3. CASE client.got # <<>>
  <2>1. Len(client.got) \in 1 .. Len(client.got)
    BY <1>1, <1>3, EmptySeq
  <2>2. QED
    BY <1>1, <1>3, <2>1 DEF LastReceived, ReceiveInv
<1>4. QED
  BY <1>1, <1>2, <1>3

(* The log only grows.                                                       *)
LEMMA RecordGrows ==
    ASSUME LogInv, NEW entries \in Seq(Entry), AppendAll(entries)
    PROVE  /\ Len(entries) \in Nat /\ sequence \in Nat /\ sequence' \in Nat
           /\ sequence' = sequence + Len(entries) /\ sequence <= sequence'
           /\ NewNumbers(entries) = Run(sequence, Len(entries))
<1>1. Len(entries) \in Nat /\ sequence \in Nat /\ sequence' = sequence + Len(entries)
  BY LenProperties DEF LogInv, LogTypeOK, AppendAll
<1>2. NewNumbers(entries) = Run(sequence, Len(entries))
  BY DEF NewNumbers, Run
<1>3. QED
  BY <1>1, <1>2

(* What a finalize or a window appends makes the log grow.                   *)
LEMMA FinalizeGrows ==
    ASSUME LogInv, NEW entries \in FinalEntries, Finalize(entries)
    PROVE  /\ Len(entries) \in Nat /\ sequence \in Nat /\ sequence' \in Nat
           /\ sequence' = sequence + Len(entries) /\ sequence <= sequence'
           /\ NewNumbers(entries) = Run(sequence, Len(entries))
<1>1. entries \in Seq(Entry)
  BY FinalEntriesType DEF LogInv, LogTypeOK
<1>2. QED
  BY <1>1, RecordGrows DEF Finalize, Record

(* The same for provisional segments.                                        *)
LEMMA ProvisionalGrows ==
    ASSUME LogInv, NEW n \in 0 .. MaxSegments, Record(Plain("provisional", n))
    PROVE  /\ n \in Nat /\ sequence \in Nat /\ sequence' \in Nat
           /\ sequence' = sequence + n /\ sequence <= sequence'
           /\ NewNumbers(Plain("provisional", n)) = Run(sequence, n)
<1>1. n \in Nat /\ "provisional" \in Kinds
  BY BoundAssumption DEF Kinds
<1>2. Plain("provisional", n) \in Seq(Entry) /\ Len(Plain("provisional", n)) = n
  BY <1>1, PlainType
<1>3. QED
  BY <1>1, <1>2, RecordGrows DEF Record

(* A handler that answers with a run of new numbers.                         *)
LEMMA RunServed ==
    ASSUME LogInv, ReceiveInv, NEW s \in Sockets, client' = client,
           NEW n \in Nat, NEW m \in Nat, LastReceived <= n, n + m <= sequence',
           sequence' \in Nat, conn'[s].out = Run(n, m),
           \A i \in 1 .. Len(conn'[s].inbox) : conn'[s].inbox[i].type # "resume"
    PROVE  Served(s)'
<1>1. Run(n, m) \in Seq(Nat) /\ Len(Run(n, m)) = m /\ \A i \in 1 .. m : Run(n, m)[i] = n + i
  BY RunProperties
<1>2. LastReceived' = LastReceived /\ LastReceived \in Nat
  BY LastReceivedBound DEF LastReceived
<1>3. Ascends(conn[s].out)'
  BY <1>1 DEF Ascends
<1>4. \A i \in 1 .. Len(conn'[s].out) : conn'[s].out[i] \in LastReceived' + 1 .. sequence'
  BY <1>1, <1>2
<1>5. QED
  BY <1>3, <1>4 DEF Served

(* The rest of an inbox has no request for a replay.                         *)
LEMMA NoMoreRequests ==
    ASSUME ReceiveInv, NEW s \in Sockets, client.socket = s, conn[s].inbox # <<>>
    PROVE  \A i \in 1 .. Len(Tail(conn[s].inbox)) : Tail(conn[s].inbox)[i].type # "resume"
<1>1. conn[s].inbox \in Seq(Message)
  BY DEF ReceiveInv, ChannelTypeOK, Handler
<1>2. /\ Len(conn[s].inbox) \in Nat /\ Len(Tail(conn[s].inbox)) = Len(conn[s].inbox) - 1
      /\ \A i \in 1 .. Len(Tail(conn[s].inbox)) :
            Tail(conn[s].inbox)[i] = conn[s].inbox[i + 1]
  BY <1>1, HeadTailProperties, LenProperties
<1>3. Served(s)
  BY SocketAssumption DEF ReceiveInv
<1>4. \A i \in 1 .. Len(Tail(conn[s].inbox)) :
         i + 1 \in 1 .. Len(conn[s].inbox) /\ i + 1 # 1
  BY <1>2
<1>5. QED
  BY <1>2, <1>3, <1>4 DEF Served

(* A step of one handler that does not reach the client.                     *)
LEMMA HandlerStep ==
    ASSUME LogInv, ReceiveInv, ChannelTypeOK', NEW s \in Sockets, client' = client,
           conn[s].pc # "unused", sequence' \in Nat, sequence <= sequence',
           \A t \in Sockets \ {s} : conn'[t] = conn[t],
           client.socket = s => Served(s)'
    PROVE  ReceiveInv'
<1>1. sequence \in Nat /\ sequence # 0
  BY DEF LogInv, LogTypeOK, ReceiveInv, StartedInv
<1>2. StartedInv'
  BY <1>1 DEF StartedInv
<1>3. /\ Ascends(client.got)'
      /\ \A i \in 1 .. Len(client'.got) : client'.got[i] \in 1 .. sequence'
  BY <1>1 DEF ReceiveInv, Ascends
<1>4. ASSUME NEW t \in Sockets \ {s}, client.socket = t PROVE Served(t)'
  <2>1. Served(t) /\ conn'[t] = conn[t] /\ LastReceived' = LastReceived
    BY <1>4, SocketAssumption DEF ReceiveInv, LastReceived
  <2>2. LastReceived \in Nat
    BY LastReceivedBound
  <2>3. QED
    BY <1>1, <2>1, <2>2 DEF Served, Ascends
<1>5. client'.socket # NoSocket => Served(client.socket)'
  <2> SUFFICES ASSUME client.socket # NoSocket PROVE Served(client.socket)'
    OBVIOUS
  <2>1. PICK t \in Sockets : t = client.socket
    BY DEF ReceiveInv, ChannelTypeOK
  <2>2. Served(t)'
    BY <1>4, <2>1
  <2>3. client'.socket = t
    BY <2>1
  <2>4. QED
    BY <2>1, <2>2, <2>3
<1>6. QED
  BY <1>2, <1>3, <1>5 DEF ReceiveInv

(* A step that leaves the connections alone.                                 *)
LEMMA NoHandlerStep ==
    ASSUME LogInv, ReceiveInv, UNCHANGED <<conn, client>>, sequence' \in Nat,
           sequence <= sequence'
    PROVE  ReceiveInv'
<1>1. sequence \in Nat /\ LastReceived \in Nat /\ LastReceived' = LastReceived
  BY LastReceivedBound DEF LastReceived
<1>2. ChannelTypeOK'
  BY DEF ReceiveInv, ChannelTypeOK
<1>3. StartedInv'
  BY <1>1 DEF ReceiveInv, StartedInv
<1>4. /\ Ascends(client.got)'
      /\ \A i \in 1 .. Len(client'.got) : client'.got[i] \in 1 .. sequence'
  BY <1>1 DEF ReceiveInv, Ascends
<1>5. client'.socket # NoSocket => Served(client.socket)'
  BY <1>1 DEF ReceiveInv, Served, Ascends
<1>6. QED
  BY <1>2, <1>3, <1>4, <1>5 DEF ReceiveInv

(* A handler that ends has nothing more to send.                             *)
LEMMA ClosesKeeps ==
    ASSUME LogInv, ReceiveInv, NEW s \in Sockets, conn[s].pc = "ready", Closes(s),
           client' = client, sequence' \in Nat, sequence <= sequence'
    PROVE  ReceiveInv'
<1>1. /\ conn' = [conn EXCEPT ![s] = Closed] /\ conn \in [Sockets -> Handler]
      /\ conn'[s] = Closed /\ \A t \in Sockets \ {s} : conn'[t] = conn[t]
  BY DEF Closes, ReceiveInv, ChannelTypeOK
<1>2. Closed \in Handler
  BY DEF Closed, Handler
<1>3. ChannelTypeOK'
  BY <1>1, <1>2 DEF ReceiveInv, ChannelTypeOK, Closed
<1>4. Served(s)'
  BY <1>1 DEF Served, Ascends, Closed
<1>5. QED
  BY <1>1, <1>3, <1>4, HandlerStep

(* A handler that reads a message and answers with numbers that are new to   *)
(* whoever listens.                                                          *)
LEMMA AnswersKeeps ==
    ASSUME LogInv, ReceiveInv, NEW s \in Sockets, NEW type, Receives(s, type),
           NEW n \in Nat, NEW m \in Nat, Answers(s, Run(n, m)),
           client.socket = s => LastReceived <= n, n + m <= sequence',
           client' = client, sequence' \in Nat, sequence <= sequence'
    PROVE  ReceiveInv'
<1>1. conn[s].pc = "ready" /\ conn[s].inbox # <<>>
  BY DEF Receives
<1>2. /\ conn' = [conn EXCEPT ![s].inbox = Tail(@), ![s].out = Run(n, m)]
      /\ conn \in [Sockets -> Handler] /\ conn[s] \in Handler
  BY DEF Answers, ReceiveInv, ChannelTypeOK
<1>3. /\ conn'[s].inbox = Tail(conn[s].inbox) /\ conn'[s].out = Run(n, m)
      /\ conn'[s].pc = "ready" /\ conn'[s].last = conn[s].last
      /\ conn'[s] = [conn[s] EXCEPT !.inbox = Tail(conn[s].inbox), !.out = Run(n, m)]
      /\ \A t \in Sockets \ {s} : conn'[t] = conn[t]
  BY <1>1, <1>2 DEF Handler
<1>4. Tail(conn[s].inbox) \in Seq(Message) /\ Run(n, m) \in Seq(Nat)
  BY <1>1, <1>2, HeadTailProperties, RunProperties DEF Handler
<1>5. conn'[s] \in Handler
  BY <1>2, <1>3, <1>4 DEF Handler
<1>6. ChannelTypeOK'
  BY <1>2, <1>3, <1>5 DEF ReceiveInv, ChannelTypeOK
<1>7. client.socket = s => Served(s)'
  <2> SUFFICES ASSUME client.socket = s PROVE Served(s)'
    OBVIOUS
  <2>1. \A i \in 1 .. Len(conn'[s].inbox) : conn'[s].inbox[i].type # "resume"
    BY <1>1, <1>3, NoMoreRequests
  <2>2. QED
    BY <1>3, <2>1, RunServed
<1>8. QED
  BY <1>1, <1>3, <1>6, <1>7, HandlerStep

(* The last answer of a handler.                                             *)
LEMMA LastAnswerKeeps ==
    ASSUME LogInv, ReceiveInv, NEW s \in Sockets, SocketFinalize(s)
    PROVE  ReceiveInv'
<1>1. PICK entries \in FinalEntries :
         /\ Finalize(entries)
         /\ conn' = [conn EXCEPT ![s].inbox = <<>>, ![s].out = NewNumbers(entries),
                                 ![s].last = TRUE]
  BY Zenon DEF SocketFinalize
<1>2. /\ Len(entries) \in Nat /\ sequence \in Nat /\ sequence' \in Nat
      /\ sequence' = sequence + Len(entries) /\ sequence <= sequence'
      /\ NewNumbers(entries) = Run(sequence, Len(entries))
  BY <1>1, FinalizeGrows
<1> DEFINE m == Len(entries)
<1>3. conn' = [conn EXCEPT ![s].inbox = <<>>, ![s].out = Run(sequence, m), ![s].last = TRUE]
  BY <1>1, <1>2
<1>4. conn[s].pc = "ready" /\ client' = client
  BY DEF SocketFinalize, Receives
<1>5. conn \in [Sockets -> Handler] /\ conn[s] \in Handler
  BY DEF ReceiveInv, ChannelTypeOK
<1>6. m \in Nat /\ sequence' = sequence + m
  BY <1>2
<1> HIDE DEF m
<1>7. /\ conn'[s] = [conn[s] EXCEPT !.inbox = <<>>, !.out = Run(sequence, m), !.last = TRUE]
      /\ \A t \in Sockets \ {s} : conn'[t] = conn[t]
  BY <1>3, <1>5 DEF Handler
<1>8. /\ conn'[s].inbox = <<>> /\ conn'[s].out = Run(sequence, m) /\ conn'[s].pc = "ready"
      /\ conn'[s] \in Handler
  <2>1. Run(sequence, m) \in Seq(Nat)
    BY <1>2, <1>6, RunProperties
  <2>2. <<>> \in Seq(Message)
    OBVIOUS
  <2>3. conn'[s].inbox = <<>> /\ conn'[s].out = Run(sequence, m) /\ conn'[s].pc = "ready"
    BY <1>4, <1>5, <1>7 DEF Handler
  <2>4. conn'[s] \in Handler
    BY <1>5, <1>7, <2>1, <2>2 DEF Handler
  <2>5. QED
    BY <2>3, <2>4
<1>9. ChannelTypeOK'
  BY <1>3, <1>4, <1>5, <1>7, <1>8 DEF ReceiveInv, ChannelTypeOK
<1>10. Served(s)'
  <2>1. \A i \in 1 .. Len(conn'[s].inbox) : conn'[s].inbox[i].type # "resume"
    BY <1>8
  <2>2. LastReceived <= sequence /\ sequence + m <= sequence'
    BY <1>2, <1>6, LastReceivedBound
  <2>3. QED
    BY <1>2, <1>4, <1>6, <1>8, <2>1, <2>2, RunServed
<1>11. QED
  BY <1>2, <1>4, <1>7, <1>9, <1>10, HandlerStep

(* One event is sent: the client that is still there has one more.           *)
LEMMA SendKeeps ==
    ASSUME LogInv, ReceiveInv, NEW s \in Sockets, Send(s)
    PROVE  ReceiveInv'
<1>1. /\ conn[s].out # <<>> /\ conn[s].pc = "ready"
      /\ conn \in [Sockets -> Handler] /\ conn[s] \in Handler
      /\ conn[s].out \in Seq(Nat)
      /\ sequence' = sequence /\ sequence \in Nat
  BY DEF Send, ReceiveInv, ChannelTypeOK, Handler, LogInv, LogTypeOK, log
<1>2. /\ Head(conn[s].out) = conn[s].out[1] /\ Len(conn[s].out) \in Nat \ {0}
      /\ Tail(conn[s].out) \in Seq(Nat) /\ Len(Tail(conn[s].out)) = Len(conn[s].out) - 1
      /\ \A i \in 1 .. Len(Tail(conn[s].out)) : Tail(conn[s].out)[i] = conn[s].out[i + 1]
  BY <1>1, HeadTailProperties, EmptySeq, LenProperties
<1>3. /\ \A t \in Sockets \ {s} : conn'[t] = conn[t]
      /\ conn'[s] \in Handler /\ conn' \in [Sockets -> Handler]
      /\ \/ conn'[s] = Closed
         \/ /\ conn'[s].out = Tail(conn[s].out) /\ conn'[s].inbox = conn[s].inbox
            /\ conn'[s].pc = "ready"
  <2>1. CASE Closes(s)
    BY <1>1, <2>1 DEF Closes, Closed, Handler
  <2>2. CASE conn' = [conn EXCEPT ![s].out = Tail(@)]
    BY <1>1, <1>2, <2>2 DEF Handler
  <2>3. QED
    BY <2>1, <2>2 DEF Send
<1>4. CASE client.socket # s
  <2>1. client' = client
    BY <1>4 DEF Send
  <2>2. ChannelTypeOK'
    BY <1>3, <2>1 DEF ReceiveInv, ChannelTypeOK, Closed
  <2>3. QED
    BY <1>1, <1>3, <1>4, <2>1, <2>2, HandlerStep
<1>5. CASE client.socket = s
  <2> DEFINE new == Head(conn[s].out)
  <2>1. /\ client' = [client EXCEPT !.got = Append(@, new)]
        /\ client \in [socket : Sockets \union {NoSocket}, got : Seq(Nat)]
    BY <1>5 DEF Send, ReceiveInv, ChannelTypeOK
  <2>2. client'.got = Append(client.got, new) /\ client'.socket = s
    BY <1>5, <2>1
  <2>3. Served(s)
    BY <1>5, SocketAssumption DEF ReceiveInv
  <2>4. new \in LastReceived + 1 .. sequence /\ LastReceived \in Nat
    BY <1>1, <1>2, <2>3, LastReceivedBound DEF Served
  <2>5. \A i \in 1 .. Len(Tail(conn[s].out)) :
           Tail(conn[s].out)[i] \in new + 1 .. sequence
    <3> TAKE i \in 1 .. Len(Tail(conn[s].out))
    <3>1. i + 1 \in 1 .. Len(conn[s].out) /\ 1 < i + 1 /\ 1 \in 1 .. Len(conn[s].out)
      BY <1>2
    <3>2. conn[s].out[1] < conn[s].out[i + 1]
      BY <2>3, <3>1 DEF Served, Ascends
    <3>3. conn[s].out[i + 1] \in LastReceived + 1 .. sequence
      BY <2>3, <3>1 DEF Served
    <3>4. QED
      BY <1>1, <1>2, <2>4, <3>2, <3>3
  <2>6. Ascends(Tail(conn[s].out))
    <3> SUFFICES ASSUME NEW i \in 1 .. Len(Tail(conn[s].out)),
                        NEW j \in 1 .. Len(Tail(conn[s].out)), i < j
                 PROVE  Tail(conn[s].out)[i] < Tail(conn[s].out)[j]
      BY DEF Ascends
    <3>1. i + 1 \in 1 .. Len(conn[s].out) /\ j + 1 \in 1 .. Len(conn[s].out) /\ i + 1 < j + 1
      BY <1>2
    <3>2. QED
      BY <1>2, <2>3, <3>1 DEF Served, Ascends
  <2> HIDE DEF new
  <2>7. /\ client.got \in Seq(Nat) /\ Len(client.got) \in Nat /\ new \in Nat
        /\ client'.got \in Seq(Nat) /\ Len(client'.got) = Len(client.got) + 1
        /\ client'.got # <<>>
        /\ \A i \in 1 .. Len(client.got) : client'.got[i] = client.got[i]
        /\ client'.got[Len(client.got) + 1] = new
    <3> DEFINE more == Append(client.got, new)
    <3>1. client.got \in Seq(Nat) /\ Len(client.got) \in Nat /\ new \in Nat
      BY <1>1, <2>4, LastReceivedBound
    <3>2. /\ more \in Seq(Nat) /\ Len(more) = Len(client.got) + 1 /\ more # <<>>
          /\ \A i \in 1 .. Len(client.got) : more[i] = client.got[i]
          /\ more[Len(client.got) + 1] = new
      BY <3>1, AppendProperties
    <3> HIDE DEF more
    <3>3. client'.got = more
      BY <2>2 DEF more
    <3>4. QED
      BY <3>1, <3>2, <3>3
  <2>8. LastReceived' = new
    BY <2>7 DEF LastReceived
  <2>9. \A i \in 1 .. Len(client.got) : client.got[i] \in 1 .. LastReceived
    <3> TAKE i \in 1 .. Len(client.got)
    <3>1. client.got # <<>> /\ Len(client.got) \in 1 .. Len(client.got)
      BY <2>7, EmptySeq
    <3>2. LastReceived = client.got[Len(client.got)] /\ client.got[i] \in 1 .. sequence
      BY <3>1 DEF LastReceived, ReceiveInv
    <3>3. i = Len(client.got) \/ i < Len(client.got)
      BY <2>7
    <3>4. client.got[i] <= client.got[Len(client.got)]
      <4>1. CASE i = Len(client.got)
        BY <1>1, <3>2, <4>1
      <4>2. CASE i < Len(client.got)
        <5>1. client.got[i] < client.got[Len(client.got)]
          BY <3>1, <4>2 DEF ReceiveInv, Ascends
        <5>2. QED
          BY <1>1, <2>4, <3>2, <5>1
      <4>3. QED
        BY <3>3, <4>1, <4>2
    <3>5. QED
      BY <1>1, <2>4, <3>2, <3>4
  <2>10. Ascends(client.got)'
    <3> SUFFICES ASSUME NEW i \in 1 .. Len(client'.got), NEW j \in 1 .. Len(client'.got), i < j
                 PROVE  client'.got[i] < client'.got[j]
      BY DEF Ascends
    <3>1. CASE j = Len(client.got) + 1
      <4>1. i \in 1 .. Len(client.got)
        BY <2>7, <3>1
      <4>2. QED
        <5>1. client.got[i] \in 1 .. LastReceived /\ client'.got[i] = client.got[i]
          BY <2>7, <2>9, <4>1
        <5>2. client'.got[j] = new
          BY <2>7, <3>1
        <5>3. QED
          BY <1>1, <2>4, <5>1, <5>2
    <3>2. CASE j # Len(client.got) + 1
      <4>1. i \in 1 .. Len(client.got) /\ j \in 1 .. Len(client.got)
        BY <2>7, <3>2, SMTT(30)
      <4>2. QED
        BY <2>7, <4>1 DEF ReceiveInv, Ascends
    <3>3. QED
      BY <3>1, <3>2
  <2>11. \A i \in 1 .. Len(client'.got) : client'.got[i] \in 1 .. sequence'
    <3> TAKE i \in 1 .. Len(client'.got)
    <3>1. CASE i = Len(client.got) + 1
      BY <1>1, <2>4, <2>7, <3>1, SMTT(30)
    <3>2. CASE i # Len(client.got) + 1
      <4>1. i \in 1 .. Len(client.got)
        BY <2>7, <3>2
      <4>2. client.got[i] \in 1 .. sequence
        BY <4>1 DEF ReceiveInv
      <4>3. QED
        BY <1>1, <2>7, <4>1, <4>2
    <3>3. QED
      BY <3>1, <3>2
  <2>12. ChannelTypeOK'
    <3>1. client' \in [socket : Sockets \union {NoSocket}, got : Seq(Nat)]
      BY <2>1, <2>2, <2>7
    <3>2. \A t \in Sockets : conn'[t].pc # "ready" => conn'[t].out = <<>> /\ conn'[t].inbox = <<>>
      BY <1>3 DEF ReceiveInv, ChannelTypeOK, Closed
    <3>3. QED
      BY <1>3, <3>1, <3>2 DEF ChannelTypeOK
  <2>13. Served(s)'
    <3>1. CASE conn'[s] = Closed
      BY <3>1 DEF Served, Ascends, Closed
    <3>2. CASE conn'[s].out = Tail(conn[s].out) /\ conn'[s].inbox = conn[s].inbox
      <4>1. \A i \in 1 .. Len(conn[s].inbox) : conn[s].inbox[i].type # "resume"
        BY <1>1, <2>3 DEF Served
      <4>2. QED
        BY <1>1, <2>5, <2>6, <2>8, <3>2, <4>1 DEF Served, Ascends
    <3>3. QED
      BY <1>3, <3>1, <3>2
  <2>14. StartedInv'
    BY <1>1, <1>3 DEF ReceiveInv, StartedInv
  <2>15. Served(client.socket)'
    BY <2>2, <2>13
  <2>16. QED
    BY <2>10, <2>11, <2>12, <2>14, <2>15 DEF ReceiveInv
<1>6. QED
  BY <1>4, <1>5

(* A new connection: the first one starts the session, a later one asks for  *)
(* what the client missed.                                                   *)
LEMMA ConnectReceives ==
    ASSUME LogInv, ReceiveInv, NEW s \in Sockets, Connect(s)
    PROVE  ReceiveInv'
<1> DEFINE starts == Len(events) = 0
           inbox == IF Reconnecting THEN <<Resume(LastReceived)>> ELSE <<>>
           out == IF starts THEN <<1>> ELSE <<>>
           handler == [pc |-> "ready", inbox |-> inbox, out |-> out, last |-> FALSE]
<1>1. /\ client.socket = NoSocket /\ client' = [client EXCEPT !.socket = s]
      /\ conn' = [conn EXCEPT ![s] = handler]
      /\ AppendAll(IF starts THEN Plain("started", 1) ELSE <<>>)
  BY DEF Connect
<1>2. LastReceived \in 0 .. sequence /\ sequence \in Nat
  BY LastReceivedBound
<1>3. /\ conn \in [Sockets -> Handler]
      /\ client \in [socket : Sockets \union {NoSocket}, got : Seq(Nat)]
  BY DEF ReceiveInv, ChannelTypeOK
<1>4. client'.socket = s /\ client'.got = client.got /\ LastReceived' = LastReceived
  BY <1>1, <1>3 DEF LastReceived
<1>5. inbox \in Seq(Message) /\ out \in Seq(Nat)
  <2>1. Resume(LastReceived) \in Message
    BY <1>2 DEF Resume, Message
  <2>2. <<Resume(LastReceived)>> \in Seq(Message) /\ <<>> \in Seq(Message)
    BY <2>1
  <2>3. QED
    BY <2>2
<1>6. /\ \A i \in 1 .. Len(inbox) : i = 1 /\ inbox[i].last = LastReceived
      /\ starts => inbox = <<>>
  <2>1. starts => sequence = 0
    BY <1>2, RetentionAssumption DEF LogInv, LogContiguous
  <2>2. starts => ~ Reconnecting
    BY <2>1 DEF ReceiveInv, StartedInv, Reconnecting
  <2>3. QED
    BY <2>2 DEF Resume
<1>7. /\ sequence' \in Nat /\ sequence <= sequence' /\ sequence' > 0
      /\ starts => sequence' = 1 /\ LastReceived = 0
  <2>1. CASE starts
    <3>1. sequence = 0
      BY <1>2, <2>1, RetentionAssumption DEF LogInv, LogContiguous
    <3>2. AppendAll(Plain("started", 1))
      BY <1>1, <2>1
    <3>3. Plain("started", 1) \in Seq(Entry) /\ Len(Plain("started", 1)) = 1
      BY PlainType DEF Kinds
    <3>4. sequence' = sequence + 1
      BY <3>2, <3>3, RecordGrows
    <3>5. QED
      BY <1>2, <3>1, <3>4
  <2>2. CASE ~ starts
    <3>1. sequence' = sequence
      BY <1>1, <2>2, AppendNothing DEF log
    <3>2. sequence # 0
      BY <1>2, <2>2, RetentionAssumption DEF LogInv, LogContiguous
    <3>3. QED
      BY <1>2, <2>2, <3>1, <3>2
  <2>3. QED
    BY <2>1, <2>2
<1>8. handler \in Handler
  BY <1>5 DEF Handler
<1>9. conn'[s] = handler /\ \A t \in Sockets \ {s} : conn'[t] = conn[t]
  BY <1>1, <1>3
<1>10. ChannelTypeOK'
  <2>1. client' \in [socket : Sockets \union {NoSocket}, got : Seq(Nat)]
    BY <1>1, <1>3
  <2>2. conn'[s].pc = "ready"
    BY <1>9
  <2>3. conn' \in [Sockets -> Handler]
    BY <1>1, <1>3, <1>8
  <2>4. QED
    BY <1>9, <2>1, <2>2, <2>3 DEF ReceiveInv, ChannelTypeOK
<1>11. conn'[s].out = out /\ conn'[s].inbox = inbox
  BY <1>9
<1>12. Served(s)'
  <2>1. CASE starts
    <3>1. out = <<1>> /\ inbox = <<>>
      BY <1>6, <2>1
    <3>2. QED
      BY <1>2, <1>4, <1>7, <1>11, <2>1, <3>1 DEF Served, Ascends
  <2>2. CASE ~ starts
    <3>1. out = <<>>
      BY <2>2
    <3> HIDE DEF inbox, out
    <3>2. QED
      BY <1>4, <1>6, <1>11, <3>1 DEF Served, Ascends
  <2>3. QED
    BY <2>1, <2>2
<1>13. StartedInv'
  BY <1>7 DEF StartedInv
<1>14. /\ Ascends(client.got)'
       /\ \A i \in 1 .. Len(client'.got) : client'.got[i] \in 1 .. sequence'
  BY <1>2, <1>4, <1>7 DEF ReceiveInv, Ascends
<1>15. Served(client.socket)'
  BY <1>4, <1>12
<1>16. QED
  BY <1>10, <1>13, <1>14, <1>15 DEF ReceiveInv

(* The client leaves, or sends audio or a finalize.                          *)
LEMMA ClientReceives ==
    ASSUME LogInv, ReceiveInv,
           Leave \/ SendMessage(Pcm) \/ SendMessage(FinalizeMessage)
    PROVE  ReceiveInv'
<1>1. sequence' = sequence /\ sequence \in Nat
  BY DEF Leave, SendMessage, log, LogInv, LogTypeOK
<1>2. /\ conn \in [Sockets -> Handler]
      /\ client \in [socket : Sockets \union {NoSocket}, got : Seq(Nat)]
  BY DEF ReceiveInv, ChannelTypeOK
<1>3. CASE Leave
  <2>1. client' = [client EXCEPT !.socket = NoSocket] /\ conn' = conn
    BY <1>3 DEF Leave
  <2>2. client'.socket = NoSocket /\ client'.got = client.got
    BY <1>2, <2>1
  <2>3. ChannelTypeOK'
    BY <1>2, <2>1 DEF ReceiveInv, ChannelTypeOK
  <2>4. QED
    BY <1>1, <2>1, <2>2, <2>3 DEF ReceiveInv, StartedInv, Ascends
<1>4. ASSUME NEW message \in Message, message.type # "resume", SendMessage(message)
      PROVE  ReceiveInv'
  <2>1. PICK s \in Sockets : s = client.socket
    BY <1>2, <1>4 DEF SendMessage
  <2>2. /\ conn[s].pc = "ready" /\ client' = client
        /\ conn' = [conn EXCEPT ![s].inbox = Append(@, message)]
    BY <1>4, <2>1 DEF SendMessage
  <2>3. /\ conn[s] \in Handler /\ conn[s].inbox \in Seq(Message)
        /\ Len(conn[s].inbox) \in Nat
    BY <1>2, LenProperties DEF Handler
  <2>4. /\ conn'[s].inbox = Append(conn[s].inbox, message)
        /\ conn'[s].out = conn[s].out /\ conn'[s].pc = "ready"
        /\ conn'[s] = [conn[s] EXCEPT !.inbox = Append(conn[s].inbox, message)]
        /\ \A t \in Sockets \ {s} : conn'[t] = conn[t]
    BY <1>2, <2>2, <2>3 DEF Handler
  <2> DEFINE more == Append(conn[s].inbox, message)
  <2>5. /\ more \in Seq(Message)
        /\ Len(more) = Len(conn[s].inbox) + 1
        /\ \A i \in 1 .. Len(conn[s].inbox) : more[i] = conn[s].inbox[i]
        /\ more[Len(conn[s].inbox) + 1] = message
    BY <1>4, <2>3, AppendProperties
  <2> HIDE DEF more
  <2>6. conn'[s].inbox = more
    BY <2>4 DEF more
  <2>7. ChannelTypeOK'
    <3>1. conn'[s] \in Handler
      BY <2>3, <2>4, <2>5 DEF Handler, more
    <3>2. conn' \in [Sockets -> Handler]
      BY <1>2, <2>2, <2>4, <3>1
    <3>3. QED
      BY <2>2, <2>4, <3>2 DEF ReceiveInv, ChannelTypeOK
  <2>8. Served(s)'
    <3>1. Served(s) /\ LastReceived' = LastReceived
      BY <2>1, <2>2, SocketAssumption DEF ReceiveInv, LastReceived
    <3>2. ASSUME NEW i \in 1 .. Len(more), more[i].type = "resume"
          PROVE  i = 1 /\ conn[s].out = <<>> /\ more[i].last = LastReceived
      <4>1. i \in 1 .. Len(conn[s].inbox) /\ more[i] = conn[s].inbox[i]
        BY <1>4, <2>3, <2>5, <3>2
      <4>2. QED
        BY <3>1, <3>2, <4>1 DEF Served
    <3>3. QED
      BY <1>1, <2>4, <2>6, <3>1, <3>2 DEF Served, Ascends
  <2>9. QED
    BY <1>1, <2>2, <2>4, <2>7, <2>8, HandlerStep
<1>5. Pcm \in Message /\ FinalizeMessage \in Message
      /\ Pcm.type # "resume" /\ FinalizeMessage.type # "resume"
  BY DEF Pcm, FinalizeMessage, Message
<1>6. QED
  BY <1>3, <1>4, <1>5

(* What a handler does.                                                      *)
LEMMA ServeReceives ==
    ASSUME LogInv, ReceiveInv, NEW s \in Sockets, Serve(s)
    PROVE  ReceiveInv'
<1>1. LastReceived \in 0 .. sequence /\ sequence \in Nat
  BY LastReceivedBound
<1>2. ASSUME NEW n \in 0 .. MaxSegments, PushPcm(s, n) PROVE ReceiveInv'
  <2>1. /\ n \in Nat /\ sequence' \in Nat /\ sequence' = sequence + n /\ sequence <= sequence'
        /\ NewNumbers(Plain("provisional", n)) = Run(sequence, n)
    BY <1>2, ProvisionalGrows DEF PushPcm
  <2>2. Receives(s, "pcm") /\ Answers(s, Run(sequence, n)) /\ client' = client
    BY <1>2, <2>1 DEF PushPcm
  <2>3. LastReceived <= sequence /\ sequence + n <= sequence'
    BY <1>1, <2>1
  <2>4. QED
    BY <1>1, <2>1, <2>2, <2>3, AnswersKeeps
<1>3. CASE PushFails(s) \/ PushRefused(s) \/ SocketFinalizedBefore(s) \/ Disconnect(s)
  <2>1. conn[s].pc = "ready" /\ Closes(s) /\ client' = client /\ sequence' = sequence
    BY <1>3 DEF PushFails, PushRefused, SocketFinalizedBefore, Disconnect, Receives, log
  <2>2. QED
    BY <1>1, <2>1, ClosesKeeps
<1>4. CASE SocketFinalize(s)
  BY <1>4, LastAnswerKeeps
<1>5. ASSUME NEW n \in 0 .. MaxSegments, SocketFinalizeFails(s, n) PROVE ReceiveInv'
  <2>1. sequence' \in Nat /\ sequence <= sequence'
    BY <1>5, ProvisionalGrows DEF SocketFinalizeFails, FinalizeFails
  <2>2. conn[s].pc = "ready" /\ Closes(s) /\ client' = client
    BY <1>5 DEF SocketFinalizeFails, Receives
  <2>3. QED
    BY <2>1, <2>2, ClosesKeeps
<1>6. CASE SocketResume(s)
  <2> DEFINE n == Head(conn[s].inbox).last
  <2>1. /\ Receives(s, "resume") /\ client' = client /\ sequence' = sequence
        /\ IF CanReplayFrom(n) THEN Answers(s, ReplayFrom(n)) ELSE Closes(s)
    BY <1>6 DEF SocketResume, log
  <2>2. /\ conn[s].inbox \in Seq(Message) /\ conn[s].inbox # <<>> /\ conn[s].pc = "ready"
        /\ Head(conn[s].inbox).type = "resume"
    BY <2>1 DEF Receives, ReceiveInv, ChannelTypeOK, Handler
  <2>3. /\ Head(conn[s].inbox) \in Message /\ Head(conn[s].inbox) = conn[s].inbox[1]
        /\ 1 \in 1 .. Len(conn[s].inbox)
    BY <2>2, HeadTailProperties, EmptySeq, LenProperties
  <2>4. n \in Nat
    BY <2>3 DEF Message
  <2>5. client.socket = s => LastReceived <= n
    <3> SUFFICES ASSUME client.socket = s PROVE LastReceived <= n
      OBVIOUS
    <3>1. Served(s)
      BY SocketAssumption DEF ReceiveInv
    <3>2. conn[s].inbox[1].last = LastReceived
      BY <2>2, <2>3, <3>1 DEF Served
    <3>3. QED
      BY <1>1, <2>3, <3>2
  <2> HIDE DEF n
  <2>6. CASE CanReplayFrom(n)
    <3>1. n <= sequence /\ ReplayFrom(n) = Run(n, sequence - n)
      BY <2>4, <2>6, ReplayIsRun DEF LogInv
    <3>2. Answers(s, Run(n, sequence - n)) /\ sequence - n \in Nat
          /\ n + (sequence - n) <= sequence'
      BY <1>1, <2>1, <2>4, <2>6, <3>1
    <3>3. QED
      BY <1>1, <2>1, <2>4, <2>5, <3>2, AnswersKeeps
  <2>7. CASE ~ CanReplayFrom(n)
    BY <1>1, <2>1, <2>2, <2>7, ClosesKeeps
  <2>8. QED
    BY <2>6, <2>7
<1>7. CASE Send(s)
  BY <1>7, SendKeeps
<1>8. QED
  BY <1>2, <1>3, <1>4, <1>5, <1>6, <1>7 DEF Serve

(* Every step keeps what the client receives in order.                       *)
LEMMA NextReceives ==
    ASSUME LogInv, ReceiveInv, [Next]_vars
    PROVE  ReceiveInv'
<1>1. sequence \in Nat
  BY LastReceivedBound
<1>2. CASE \E s \in Sockets : Connect(s) \/ Serve(s)
  BY <1>2, ConnectReceives, ServeReceives
<1>3. CASE Leave \/ SendMessage(Pcm) \/ SendMessage(FinalizeMessage)
  BY <1>3, ClientReceives
<1>4. CASE HttpFinalize
  <2>1. sequence' \in Nat /\ sequence <= sequence'
    <3>1. ASSUME NEW entries \in FinalEntries, Finalize(entries)
          PROVE  sequence' \in Nat /\ sequence <= sequence'
      BY <3>1, FinalizeGrows
    <3>2. ASSUME NEW n \in 0 .. MaxSegments, FinalizeFails(n)
          PROVE  sequence' \in Nat /\ sequence <= sequence'
      BY <3>2, ProvisionalGrows DEF FinalizeFails
    <3>3. QED
      BY <1>4, <3>1, <3>2, Zenon DEF HttpFinalize
  <2>2. UNCHANGED <<conn, client>>
    BY <1>4, Zenon DEF HttpFinalize
  <2>3. QED
    BY <2>1, <2>2, NoHandlerStep
<1>5. CASE UNCHANGED vars
  BY <1>1, <1>5, NoHandlerStep DEF vars, log
<1>6. QED
  BY <1>2, <1>3, <1>4, <1>5 DEF Next

(* Nobody is connected at the start.                                         *)
LEMMA InitReceives == Init => ReceiveInv
<1> SUFFICES ASSUME Init PROVE ReceiveInv
  OBVIOUS
<1>1. /\ conn = [s \in Sockets |-> Unused]
      /\ client = [socket |-> NoSocket, got |-> <<>>]
  BY DEF Init
<1>2. Unused \in Handler
  BY DEF Unused, Handler
<1>3. ChannelTypeOK
  BY <1>1, <1>2 DEF ChannelTypeOK, Unused
<1>4. QED
  BY <1>1, <1>3 DEF ReceiveInv, StartedInv, Unused, Ascends

(* Over any number of connections, overlapping or not, and whatever is       *)
(* finalized, retried or trimmed meanwhile, a client gets the events in the  *)
(* order of their numbers and none twice (audio_socket, replay_from).        *)
THEOREM ReceivedInOrder == Spec => []DeliveredOnce
<1>1. LogInv /\ ReceiveInv /\ [Next]_vars => LogInv' /\ ReceiveInv'
  BY NextKeeps, NextReceives
<1>2. ReceiveInv => DeliveredOnce
  <2> SUFFICES ASSUME ReceiveInv PROVE DeliveredOnce
    OBVIOUS
  <2>1. DOMAIN client.got = 1 .. Len(client.got)
    BY LenProperties DEF ReceiveInv, ChannelTypeOK
  <2>2. QED
    BY <2>1 DEF ReceiveInv, Ascends, DeliveredOnce
<1>3. QED
  BY InitKeeps, InitReceives, <1>1, <1>2, PTL DEF Spec

-----------------------------------------------------------------------------
(* Nothing is missed *)

(* The events of a session reach one handler at a time, when a client does   *)
(* not reconnect before its old handler ended and nobody finalizes over      *)
(* HTTP.  Then all of the log that the client does not have is with the      *)
(* handler it listens to, or is still to be asked for.                       *)
Complete(s) ==
    conn[s].pc = "ready" /\ ~ Asked(s) =>
        /\ Len(client.got) <= sequence
        /\ conn[s].out = Run(Len(client.got), sequence - Len(client.got))

CompleteInv ==
    /\ \A i \in 1 .. Len(client.got) : client.got[i] = i
    /\ client.socket # NoSocket =>
          \A s \in Sockets : s # client.socket => conn[s].pc # "ready"
    /\ sequence > 0 => Reconnecting
    /\ client.socket # NoSocket => Complete(client.socket)

(* The last number received is how many there were.                          *)
LEMMA LastIsCount ==
    ASSUME LogInv, ReceiveInv, CompleteInv
    PROVE  LastReceived = Len(client.got) /\ Len(client.got) \in 0 .. sequence
<1>1. /\ LastReceived \in 0 .. sequence /\ sequence \in Nat
      /\ client.got \in Seq(Nat) /\ Len(client.got) \in Nat
  BY LastReceivedBound
<1>2. CASE client.got = <<>>
  BY <1>1, <1>2 DEF LastReceived
<1>3. CASE client.got # <<>>
  <2>1. Len(client.got) \in 1 .. Len(client.got)
    BY <1>1, <1>3, EmptySeq
  <2>2. client.got[Len(client.got)] = Len(client.got)
    BY <2>1 DEF CompleteInv
  <2>3. QED
    BY <1>1, <1>3, <2>2 DEF LastReceived
<1>4. QED
  BY <1>2, <1>3

(* A handler that reads audio or a finalize has sent all there was.          *)
LEMMA AllSent ==
    ASSUME LogInv, ReceiveInv, CompleteInv, NEW s \in Sockets, client.socket = s,
           NEW type \in {"pcm", "finalize"}, Receives(s, type)
    PROVE  sequence = Len(client.got)
<1>1. /\ conn[s].pc = "ready" /\ conn[s].out = <<>> /\ conn[s].inbox # <<>>
      /\ Head(conn[s].inbox).type # "resume" /\ conn[s].inbox \in Seq(Message)
  BY DEF Receives, ReceiveInv, ChannelTypeOK, Handler
<1>2. Head(conn[s].inbox) = conn[s].inbox[1]
  BY <1>1, HeadTailProperties
<1>3. Served(s) /\ Complete(s)
  BY SocketAssumption DEF ReceiveInv, CompleteInv
<1>4. ~ Asked(s)
  BY <1>1, <1>2, <1>3 DEF Served, Asked
<1>5. /\ Len(client.got) \in Nat /\ sequence \in Nat /\ Len(client.got) <= sequence
      /\ conn[s].out = Run(Len(client.got), sequence - Len(client.got))
  BY <1>1, <1>3, <1>4, LastReceivedBound DEF Complete
<1>6. Len(conn[s].out) = sequence - Len(client.got)
  <2>1. sequence - Len(client.got) \in Nat
    BY <1>5
  <2>2. Len(Run(Len(client.got), sequence - Len(client.got))) = sequence - Len(client.got)
    BY <1>5, <2>1, RunProperties, Zenon
  <2>3. QED
    BY <1>5, <2>2, Zenon
<1>7. Len(conn[s].out) = 0
  BY <1>1
<1>8. sequence - Len(client.got) = 0
  BY <1>6, <1>7, Zenon
<1>9. sequence \in Nat /\ Len(client.got) \in Nat
  BY <1>5
<1>10. QED
  BY <1>8, <1>9

(* A step of one handler that does not reach the client.                     *)
LEMMA CompleteStep ==
    ASSUME CompleteInv, NEW s \in Sockets, client' = client,
           conn[s].pc = "ready", conn'[s].pc # "unused",
           \A t \in Sockets \ {s} : conn'[t] = conn[t],
           client.socket = s => Complete(s)',
           client \in [socket : Sockets \union {NoSocket}, got : Seq(Nat)]
    PROVE  CompleteInv'
<1>1. Reconnecting'
  BY DEF Reconnecting
<1>2. client.socket # NoSocket => client.socket = s
  BY DEF CompleteInv
<1>3. client'.socket # NoSocket => Complete(client.socket)'
  <2> SUFFICES ASSUME client.socket # NoSocket PROVE Complete(client.socket)'
    OBVIOUS
  <2>1. client.socket = s /\ client'.socket = s /\ Complete(s)'
    BY <1>2
  <2>2. QED
    BY <2>1
<1>4. QED
  BY <1>1, <1>2, <1>3 DEF CompleteInv

(* A handler that ends owes nothing.                                         *)
LEMMA ClosesCompletes ==
    ASSUME ReceiveInv, CompleteInv, NEW s \in Sockets, client' = client,
           conn[s].pc = "ready", Closes(s)
    PROVE  CompleteInv'
<1>1. conn'[s] = Closed /\ \A t \in Sockets \ {s} : conn'[t] = conn[t]
  BY DEF Closes, ReceiveInv, ChannelTypeOK
<1>2. Complete(s)' /\ conn'[s].pc # "unused"
  BY <1>1 DEF Complete, Closed
<1>3. QED
  BY <1>1, <1>2, CompleteStep DEF ReceiveInv, ChannelTypeOK

(* A handler that answers a client with all the numbers it does not have.    *)
LEMMA AnswersComplete ==
    ASSUME LogInv, ReceiveInv, CompleteInv, NEW s \in Sockets, conn[s].pc = "ready",
           client' = client, sequence' \in Nat,
           NEW n \in Nat, NEW m \in Nat,
           client.socket = s => n = Len(client.got) /\ n + m = sequence',
           conn'[s].out = Run(n, m), conn'[s].pc = "ready",
           \A t \in Sockets \ {s} : conn'[t] = conn[t]
    PROVE  CompleteInv'
<1>1. client.socket = s => Complete(s)'
  <2> SUFFICES ASSUME client.socket = s
               PROVE  /\ Len(client'.got) <= sequence'
                      /\ conn'[s].out = Run(Len(client'.got), sequence' - Len(client'.got))
    BY DEF Complete
  <2>1. Len(client'.got) = n /\ sequence' - n = m
    OBVIOUS
  <2>2. QED
    BY <2>1
<1>2. QED
  BY <1>1, CompleteStep DEF ReceiveInv, ChannelTypeOK

(* One event is sent: the next one, and the rest follows.                    *)
LEMMA SendCompletes ==
    ASSUME LogInv, ReceiveInv, CompleteInv, NEW s \in Sockets, Send(s)
    PROVE  CompleteInv'
<1>1. /\ conn[s].out # <<>> /\ conn[s].pc = "ready"
      /\ conn \in [Sockets -> Handler] /\ conn[s] \in Handler
      /\ sequence' = sequence /\ sequence \in Nat
      /\ client \in [socket : Sockets \union {NoSocket}, got : Seq(Nat)]
  BY DEF Send, ReceiveInv, ChannelTypeOK, Handler, LogInv, LogTypeOK, log
<1>2. /\ \A t \in Sockets \ {s} : conn'[t] = conn[t]
      /\ \/ conn'[s] = Closed
         \/ /\ conn'[s].out = Tail(conn[s].out) /\ conn'[s].inbox = conn[s].inbox
            /\ conn'[s].pc = "ready"
  <2>1. CASE Closes(s)
    BY <1>1, <2>1 DEF Closes
  <2>2. CASE conn' = [conn EXCEPT ![s].out = Tail(@)]
    BY <1>1, <2>2 DEF Handler
  <2>3. QED
    BY <2>1, <2>2 DEF Send
<1>3. conn'[s].pc # "unused"
  BY <1>2 DEF Closed
<1>4. CASE client.socket # s
  <2>1. client' = client
    BY <1>4 DEF Send
  <2>2. QED
    BY <1>1, <1>2, <1>3, <1>4, <2>1, CompleteStep
<1>5. CASE client.socket = s
  <2> DEFINE k == Len(client.got)
             m == sequence - k
  <2>1. Served(s) /\ Complete(s)
    BY <1>5, SocketAssumption DEF ReceiveInv, CompleteInv
  <2>2. ~ Asked(s)
    BY <1>1, <2>1 DEF Served, Asked
  <2>3. k \in Nat /\ k <= sequence /\ conn[s].out = Run(k, m) /\ client.got \in Seq(Nat)
    BY <1>1, <2>1, <2>2, LastReceivedBound DEF Complete
  <2>4. m \in Nat
    BY <1>1, <2>3
  <2>5. client' = [client EXCEPT !.got = Append(@, Head(conn[s].out))]
    BY <1>5 DEF Send
  <2>6. client'.got = Append(client.got, Head(conn[s].out)) /\ client'.socket = s
    BY <1>1, <1>5, <2>5
  <2> HIDE DEF k, m
  <2>7. /\ Len(conn[s].out) = m /\ conn[s].out \in Seq(Nat) /\ m > 0
        /\ \A i \in 1 .. m : conn[s].out[i] = k + i
    <3>1. /\ Len(conn[s].out) = m /\ conn[s].out \in Seq(Nat)
          /\ \A i \in 1 .. m : conn[s].out[i] = k + i
      <4>1. /\ Run(k, m) \in Seq(Nat) /\ Len(Run(k, m)) = m
            /\ \A i \in 1 .. m : Run(k, m)[i] = k + i
        BY <2>3, <2>4, RunProperties
      <4>2. QED
        BY <2>3, <4>1, Zenon
    <3>2. QED
      BY <1>1, <2>4, <3>1, EmptySeq
  <2>8. /\ Head(conn[s].out) = k + 1
        /\ Tail(conn[s].out) \in Seq(Nat) /\ Len(Tail(conn[s].out)) = m - 1
        /\ \A i \in 1 .. m - 1 : Tail(conn[s].out)[i] = conn[s].out[i + 1]
    <3>1. /\ Head(conn[s].out) = conn[s].out[1]
          /\ Tail(conn[s].out) \in Seq(Nat) /\ Len(Tail(conn[s].out)) = Len(conn[s].out) - 1
          /\ \A i \in 1 .. Len(Tail(conn[s].out)) :
                Tail(conn[s].out)[i] = conn[s].out[i + 1]
      BY <1>1, <2>7, HeadTailProperties
    <3>2. 1 \in 1 .. m
      BY <2>4, <2>7
    <3>3. QED
      BY <2>7, <3>1, <3>2
  <2>9. Tail(conn[s].out) = Run(k + 1, m - 1)
    <3>1. /\ Run(k + 1, m - 1) \in Seq(Nat) /\ Len(Run(k + 1, m - 1)) = m - 1
          /\ \A i \in 1 .. m - 1 : Run(k + 1, m - 1)[i] = (k + 1) + i
      <4>1. k + 1 \in Nat /\ m - 1 \in Nat
        BY <2>3, <2>4, <2>7
      <4>2. QED
        BY <4>1, RunProperties
    <3>2. \A i \in 1 .. m - 1 : Tail(conn[s].out)[i] = Run(k + 1, m - 1)[i]
      <4> TAKE i \in 1 .. m - 1
      <4>1. i + 1 \in 1 .. m /\ k + (i + 1) = (k + 1) + i
        BY <2>3, <2>4, <2>7
      <4>2. QED
        BY <2>7, <2>8, <3>1, <4>1
    <3>3. QED
      BY <2>8, <3>1, <3>2, SeqEqual
  <2>10. /\ Len(client'.got) = k + 1
         /\ \A i \in 1 .. k + 1 : client'.got[i] = i
    <3> DEFINE more == Append(client.got, k + 1)
    <3>1. /\ Len(more) = k + 1
          /\ \A i \in 1 .. k : more[i] = client.got[i]
          /\ more[k + 1] = k + 1
      BY <2>3, AppendProperties DEF k
    <3>2. \A i \in 1 .. k : client.got[i] = i
      BY DEF CompleteInv, k
    <3> HIDE DEF more
    <3>3. client'.got = more
      BY <2>6, <2>8 DEF more
    <3>4. QED
      BY <2>3, <3>1, <3>2, <3>3
  <2>11. Complete(s)'
    <3>1. CASE conn'[s] = Closed
      BY <3>1 DEF Complete, Closed
    <3>2. CASE conn'[s].out = Tail(conn[s].out)
      <4>1. m - 1 = sequence - (k + 1) /\ k + 1 <= sequence
        BY <1>1, <2>3, <2>4, <2>7 DEF m
      <4>2. conn'[s].out = Run(k + 1, sequence - (k + 1))
        BY <2>9, <3>2, <4>1
      <4>3. QED
        BY <1>1, <2>10, <4>1, <4>2 DEF Complete
    <3>3. QED
      BY <1>2, <3>1, <3>2
  <2>12. Reconnecting'
    BY <1>3 DEF Reconnecting
  <2>13. \A t \in Sockets : t # client'.socket => conn'[t].pc # "ready"
    BY <1>2, <1>5, <2>6, SocketAssumption DEF CompleteInv
  <2>14. Complete(client.socket)'
    BY <2>6, <2>11
  <2>15. QED
    BY <2>10, <2>12, <2>13, <2>14 DEF CompleteInv
<1>6. QED
  BY <1>4, <1>5

(* What a handler does.                                                      *)
LEMMA ServeCompletes ==
    ASSUME LogInv, ReceiveInv, CompleteInv, NEW s \in Sockets, Serve(s)
    PROVE  CompleteInv'
<1>1. /\ conn \in [Sockets -> Handler] /\ conn[s] \in Handler
      /\ sequence \in Nat /\ Len(client.got) \in Nat
  BY LastReceivedBound DEF ReceiveInv, ChannelTypeOK
<1>2. ASSUME NEW type, NEW list, Receives(s, type), Answers(s, list)
      PROVE  /\ conn[s].pc = "ready" /\ conn'[s].pc = "ready" /\ conn'[s].out = list
             /\ \A t \in Sockets \ {s} : conn'[t] = conn[t]
  BY <1>1, <1>2 DEF Receives, Answers, Handler
<1>3. ASSUME NEW n \in 0 .. MaxSegments, PushPcm(s, n) PROVE CompleteInv'
  <2>1. /\ n \in Nat /\ sequence' \in Nat /\ sequence' = sequence + n
        /\ NewNumbers(Plain("provisional", n)) = Run(sequence, n)
    BY <1>3, ProvisionalGrows DEF PushPcm
  <2>2. Receives(s, "pcm") /\ Answers(s, Run(sequence, n)) /\ client' = client
    BY <1>3, <2>1 DEF PushPcm
  <2>3. client.socket = s => sequence = Len(client.got)
    BY <2>2, AllSent
  <2>4. QED
    BY <1>1, <1>2, <2>1, <2>2, <2>3, AnswersComplete
<1>4. CASE PushFails(s) \/ PushRefused(s) \/ SocketFinalizedBefore(s) \/ Disconnect(s)
           \/ \E n \in 0 .. MaxSegments : SocketFinalizeFails(s, n)
  <2>1. conn[s].pc = "ready" /\ Closes(s) /\ client' = client
    BY <1>4 DEF PushFails, PushRefused, SocketFinalizedBefore, Disconnect,
                SocketFinalizeFails, Receives
  <2>2. QED
    BY <2>1, ClosesCompletes
<1>5. CASE SocketFinalize(s)
  <2>1. PICK entries \in FinalEntries :
           /\ Finalize(entries)
           /\ conn' = [conn EXCEPT ![s].inbox = <<>>, ![s].out = NewNumbers(entries),
                                   ![s].last = TRUE]
    BY <1>5, Zenon DEF SocketFinalize
  <2>2. /\ Len(entries) \in Nat /\ sequence' \in Nat /\ sequence' = sequence + Len(entries)
        /\ NewNumbers(entries) = Run(sequence, Len(entries))
    BY <2>1, FinalizeGrows
  <2>3. Receives(s, "finalize") /\ client' = client
    BY <1>5 DEF SocketFinalize
  <2>4. conn[s].pc = "ready"
    BY <2>3 DEF Receives
  <2> DEFINE m == Len(entries)
  <2>5. conn' = [conn EXCEPT ![s].inbox = <<>>, ![s].out = Run(sequence, m), ![s].last = TRUE]
    BY <2>1, <2>2
  <2>6. m \in Nat /\ sequence' = sequence + m
    BY <2>2
  <2> HIDE DEF m
  <2>7. /\ conn'[s].pc = "ready" /\ conn'[s].out = Run(sequence, m)
        /\ \A t \in Sockets \ {s} : conn'[t] = conn[t]
    BY <1>1, <2>4, <2>5 DEF Handler
  <2>8. client.socket = s => sequence = Len(client.got)
    BY <2>3, AllSent
  <2>9. QED
    BY <1>1, <2>2, <2>3, <2>4, <2>6, <2>7, <2>8, AnswersComplete
<1>6. CASE SocketResume(s)
  <2> DEFINE n == Head(conn[s].inbox).last
  <2>1. /\ Receives(s, "resume") /\ client' = client /\ sequence' = sequence
        /\ IF CanReplayFrom(n) THEN Answers(s, ReplayFrom(n)) ELSE Closes(s)
    BY <1>6 DEF SocketResume, log
  <2>2. /\ conn[s].inbox \in Seq(Message) /\ conn[s].inbox # <<>> /\ conn[s].pc = "ready"
        /\ Head(conn[s].inbox).type = "resume"
    BY <2>1 DEF Receives, ReceiveInv, ChannelTypeOK, Handler
  <2>3. /\ Head(conn[s].inbox) \in Message /\ Head(conn[s].inbox) = conn[s].inbox[1]
        /\ 1 \in 1 .. Len(conn[s].inbox)
    BY <2>2, HeadTailProperties, EmptySeq, LenProperties
  <2>4. n \in Nat
    BY <2>3 DEF Message
  <2>5. client.socket = s => n = Len(client.got)
    <3> SUFFICES ASSUME client.socket = s PROVE n = Len(client.got)
      OBVIOUS
    <3>1. Served(s)
      BY SocketAssumption DEF ReceiveInv
    <3>2. conn[s].inbox[1].last = LastReceived
      BY <2>2, <2>3, <3>1 DEF Served
    <3>3. QED
      BY <2>3, <3>2, LastIsCount
  <2> HIDE DEF n
  <2>6. CASE CanReplayFrom(n)
    <3>1. n <= sequence /\ ReplayFrom(n) = Run(n, sequence - n)
      BY <2>4, <2>6, ReplayIsRun DEF LogInv
    <3>2. Answers(s, Run(n, sequence - n)) /\ sequence - n \in Nat
          /\ n + (sequence - n) = sequence'
      BY <1>1, <2>1, <2>4, <2>6, <3>1
    <3>3. QED
      BY <1>1, <1>2, <2>1, <2>4, <2>5, <3>2, AnswersComplete
  <2>7. CASE ~ CanReplayFrom(n)
    BY <2>1, <2>2, <2>7, ClosesCompletes
  <2>8. QED
    BY <2>6, <2>7
<1>7. CASE Send(s)
  BY <1>7, SendCompletes
<1>8. QED
  BY <1>3, <1>4, <1>5, <1>6, <1>7 DEF Serve

(* A connection begins with all of the log ahead of it.                      *)
LEMMA ConnectCompletes ==
    ASSUME LogInv, ReceiveInv, CompleteInv, ~ Overlapping, NEW s \in Sockets, Connect(s)
    PROVE  CompleteInv'
<1> DEFINE starts == Len(events) = 0
           inbox == IF Reconnecting THEN <<Resume(LastReceived)>> ELSE <<>>
           out == IF starts THEN <<1>> ELSE <<>>
           handler == [pc |-> "ready", inbox |-> inbox, out |-> out, last |-> FALSE]
<1>1. /\ client' = [client EXCEPT !.socket = s]
      /\ conn' = [conn EXCEPT ![s] = handler]
      /\ AppendAll(IF starts THEN Plain("started", 1) ELSE <<>>)
      /\ \A t \in Sockets : conn[t].pc # "ready"
  BY DEF Connect
<1>2. /\ conn \in [Sockets -> Handler]
      /\ client \in [socket : Sockets \union {NoSocket}, got : Seq(Nat)]
      /\ sequence \in Nat /\ Len(client.got) \in 0 .. sequence
  BY LastReceivedBound, LastIsCount DEF ReceiveInv, ChannelTypeOK
<1>3. client'.socket = s /\ client'.got = client.got
  BY <1>1, <1>2
<1>4. /\ conn'[s].pc = "ready" /\ conn'[s].inbox = inbox /\ conn'[s].out = out
      /\ \A t \in Sockets \ {s} : conn'[t].pc # "ready"
  BY <1>1, <1>2
<1>5. Reconnecting'
  BY <1>4 DEF Reconnecting
<1>6. \A t \in Sockets : t # client'.socket => conn'[t].pc # "ready"
  BY <1>3, <1>4
<1>7. \A i \in 1 .. Len(client'.got) : client'.got[i] = i
  BY <1>3 DEF CompleteInv
<1>8. Complete(s)'
  <2>1. CASE starts
    <3>1. sequence = 0
      BY <1>2, <2>1, RetentionAssumption DEF LogInv, LogContiguous
    <3>2. AppendAll(Plain("started", 1))
      BY <1>1, <2>1
    <3>3. Plain("started", 1) \in Seq(Entry) /\ Len(Plain("started", 1)) = 1
      BY PlainType DEF Kinds
    <3>4. sequence' = 0 + 1
      BY <3>1, <3>2, <3>3, RecordGrows
    <3>5. Len(client'.got) = 0 /\ conn'[s].out = <<1>>
      BY <1>2, <1>3, <1>4, <2>1, <3>1
    <3>6. Run(0, 0) = <<>> /\ Append(Run(0, 0), 0 + (0 + 1)) = Run(0, 0 + 1)
      BY RunProperties, RunEmpty
    <3>7. Run(0, 1) = <<1>>
      BY <3>6
    <3>8. QED
      BY <3>4, <3>5, <3>7 DEF Complete
  <2>2. CASE ~ starts
    <3>1. sequence > 0
      BY <1>2, <2>2, RetentionAssumption DEF LogInv, LogContiguous
    <3>2. inbox = <<Resume(LastReceived)>>
      BY <3>1 DEF CompleteInv
    <3>3. 1 \in 1 .. Len(conn'[s].inbox) /\ conn'[s].inbox[1].type = "resume"
      BY <1>4, <3>2 DEF Resume
    <3>4. QED
      BY <3>3 DEF Complete, Asked
  <2>3. QED
    BY <2>1, <2>2
<1>9. Complete(client.socket)'
  BY <1>3, <1>8
<1>10. QED
  BY <1>5, <1>6, <1>7, <1>9 DEF CompleteInv

(* The client leaves, or sends audio or a finalize.                          *)
LEMMA ClientCompletes ==
    ASSUME LogInv, ReceiveInv, CompleteInv,
           Leave \/ SendMessage(Pcm) \/ SendMessage(FinalizeMessage)
    PROVE  CompleteInv'
<1>1. sequence' = sequence
  BY DEF Leave, SendMessage, log
<1>2. /\ conn \in [Sockets -> Handler]
      /\ client \in [socket : Sockets \union {NoSocket}, got : Seq(Nat)]
  BY DEF ReceiveInv, ChannelTypeOK
<1>3. CASE Leave
  <2>1. client' = [client EXCEPT !.socket = NoSocket] /\ conn' = conn
    BY <1>3 DEF Leave
  <2>2. client'.socket = NoSocket /\ client'.got = client.got
    BY <1>2, <2>1
  <2>3. QED
    BY <1>1, <2>1, <2>2 DEF CompleteInv, Reconnecting
<1>4. ASSUME NEW message, message \in Message, SendMessage(message)
      PROVE  CompleteInv'
  <2>1. PICK s \in Sockets : s = client.socket
    BY <1>2, <1>4 DEF SendMessage
  <2>2. /\ conn[s].pc = "ready" /\ client' = client
        /\ conn' = [conn EXCEPT ![s].inbox = Append(@, message)]
    BY <1>4, <2>1 DEF SendMessage
  <2>3. /\ conn[s] \in Handler /\ conn[s].inbox \in Seq(Message)
        /\ Len(conn[s].inbox) \in Nat
    BY <1>2, LenProperties DEF Handler
  <2> DEFINE more == Append(conn[s].inbox, message)
  <2>4. /\ conn'[s].inbox = more /\ conn'[s].out = conn[s].out /\ conn'[s].pc = "ready"
        /\ \A t \in Sockets \ {s} : conn'[t] = conn[t]
    BY <1>2, <2>2, <2>3 DEF Handler
  <2>5. /\ Len(more) = Len(conn[s].inbox) + 1
        /\ \A i \in 1 .. Len(conn[s].inbox) : more[i] = conn[s].inbox[i]
    BY <1>4, <2>3, AppendProperties
  <2> HIDE DEF more
  <2>6. Asked(s) => Asked(s)'
    <3> SUFFICES ASSUME NEW i \in 1 .. Len(conn[s].inbox), conn[s].inbox[i].type = "resume"
                 PROVE  Asked(s)'
      BY DEF Asked
    <3>1. i \in 1 .. Len(more) /\ more[i].type = "resume"
      BY <2>3, <2>5
    <3>2. QED
      BY <2>4, <3>1 DEF Asked
  <2>7. Complete(s)
    BY <2>1, SocketAssumption DEF CompleteInv
  <2>8. Complete(s)'
    BY <1>1, <2>2, <2>4, <2>6, <2>7 DEF Complete
  <2>9. QED
    BY <1>2, <2>2, <2>4, <2>8, CompleteStep
<1>5. Pcm \in Message /\ FinalizeMessage \in Message
  BY DEF Pcm, FinalizeMessage, Message
<1>6. QED
  BY <1>3, <1>4, <1>5

(* A client that waits for its old connection to end before it reconnects    *)
(* has the log from its start without a hole, through any number of broken   *)
(* connections, failed windows and failed finalizes: what was not sent is    *)
(* replayed, or the resume is refused (audio_socket, replay_from).  An       *)
(* overlapping handler or a finalize over HTTP takes events the client is    *)
(* not sent, so that both are excluded.                                      *)
THEOREM NothingMissed ==
    ASSUME ~ Overlapping, ~ HttpFinalizes
    PROVE  Spec => []NoEventLost
<1> DEFINE Inv == LogInv /\ ReceiveInv /\ CompleteInv
<1>1. Init => Inv
  <2> SUFFICES ASSUME Init PROVE CompleteInv
    BY InitKeeps, InitReceives
  <2>1. client = [socket |-> NoSocket, got |-> <<>>] /\ sequence = 0
    BY DEF Init, LogInit
  <2>2. QED
    BY <2>1 DEF CompleteInv
<1>2. Inv /\ [Next]_vars => Inv'
  <2> SUFFICES ASSUME LogInv, ReceiveInv, CompleteInv, [Next]_vars PROVE CompleteInv'
    BY NextKeeps, NextReceives
  <2>1. CASE \E s \in Sockets : Connect(s) \/ Serve(s)
    BY <2>1, ConnectCompletes, ServeCompletes
  <2>2. CASE Leave \/ SendMessage(Pcm) \/ SendMessage(FinalizeMessage)
    BY <2>2, ClientCompletes
  <2>3. CASE UNCHANGED vars
    BY <2>3 DEF vars, log, CompleteInv, Complete, Asked, Reconnecting
  <2>4. ~ HttpFinalize
    BY DEF HttpFinalize
  <2>5. QED
    BY <2>1, <2>2, <2>3, <2>4 DEF Next
<1>3. Inv => NoEventLost
  <2> SUFFICES ASSUME Inv PROVE NoEventLost
    OBVIOUS
  <2>1. DOMAIN client.got = 1 .. Len(client.got)
    BY LenProperties DEF ReceiveInv, ChannelTypeOK
  <2>2. QED
    BY <2>1 DEF CompleteInv, NoEventLost
<1>4. QED
  BY <1>1, <1>2, <1>3, PTL DEF Spec

-----------------------------------------------------------------------------
(* What a final replaces *)

(* An event of the log was there before, or is one of the new entries.       *)
LEMMA Appended ==
    ASSUME LogTypeOK, LogContiguous, NEW entries \in Seq(Entry), AppendAll(entries),
           NEW i \in 1 .. Len(events')
    PROVE  \/ \E j \in 1 .. Len(events) : events'[i] = events[j]
           \/ \E p \in 1 .. Len(entries) :
                 events'[i] = [seq |-> sequence + p, kind |-> entries[p].kind,
                               supersedes |-> entries[p].supersedes]
<1> DEFINE list == Longer(entries)
           n == Len(events) + Len(entries)
           new == [p \in 1 .. Len(entries) |->
                     [seq |-> sequence + p, kind |-> entries[p].kind,
                      supersedes |-> entries[p].supersedes]]
<1>1. list \in Seq(Event) /\ Len(list) = n
  BY LongerContiguous
<1>2. events' = Retain(list)
  BY DEF AppendAll, Longer
<1>3. /\ Len(entries) \in Nat /\ Len(events) \in Nat /\ n \in Nat /\ events \in Seq(Event)
      /\ Retention \in Nat \ {0} /\ sequence \in Nat
  BY LenProperties, RetentionAssumption DEF LogTypeOK
<1>4. \A k \in 1 .. n : list[k] \in Event
  BY <1>1, ElementOfSeq, Zenon
<1>5. new \in Seq(Event) /\ Len(new) = Len(entries)
  <2>1. \A p \in 1 .. Len(entries) : entries[p] \in Entry
    BY ElementOfSeq, Zenon
  <2>2. \A p \in 1 .. Len(entries) : new[p] \in Event
    BY <1>3, <2>1 DEF Event, Entry
  <2>3. QED
    BY <1>3, <2>2, IsASeq, LenProperties
<1>6. \A p \in 1 .. Len(entries) :
          new[p] = [seq |-> sequence + p, kind |-> entries[p].kind,
                    supersedes |-> entries[p].supersedes]
  OBVIOUS
<1>7. list = events \o new
  BY DEF Longer
<1> HIDE DEF list, new
<1>8. \A k \in 1 .. n : list[k] = IF k <= Len(events) THEN events[k] ELSE new[k - Len(events)]
  <2>1. \A k \in 1 .. Len(events) + Len(new) :
            (events \o new)[k] = IF k <= Len(events) THEN events[k] ELSE new[k - Len(events)]
    BY <1>3, <1>5, ConcatProperties, Zenon
  <2>2. QED
    BY <1>5, <1>7, <2>1, Zenon
<1>9. \E k \in 1 .. n : events'[i] = list[k]
  <2>1. CASE n > Retention
    <3> DEFINE first == n - Retention + 1
    <3>1. first \in Int /\ n \in Int /\ first <= n /\ \A k \in first .. n : list[k] \in Event
      BY <1>3, <1>4, <2>1
    <3>2. events' = SubSeq(list, first, n)
      BY <1>1, <1>2, <2>1 DEF Retain
    <3>3. first >= 1
      BY <1>3, <2>1
    <3> HIDE DEF first, n
    <3>4. /\ Len(events') = n - first + 1
          /\ \A k \in 1 .. n - first + 1 : events'[k] = list[first + k - 1]
      BY <3>1, <3>2, PartOfLog
    <3>5. events'[i] = list[first + i - 1] /\ first + i - 1 \in 1 .. n
      BY <3>1, <3>3, <3>4
    <3>6. QED
      BY <3>5
  <2>2. CASE ~ (n > Retention)
    <3>1. events' = list
      BY <1>1, <1>2, <2>2 DEF Retain
    <3>2. QED
      BY <1>1, <3>1
  <2>3. QED
    BY <2>1, <2>2
<1>10. PICK k \in 1 .. n : events'[i] = list[k]
  BY <1>9
<1>11. CASE k <= Len(events)
  BY <1>3, <1>8, <1>10, <1>11
<1>12. CASE k > Len(events)
  <2>1. k - Len(events) \in 1 .. Len(entries) /\ list[k] = new[k - Len(events)]
    BY <1>3, <1>8, <1>12
  <2>2. QED
    BY <1>6, <1>10, <2>1
<1>13. k <= Len(events) \/ k > Len(events)
  BY <1>3
<1>14. QED
  BY <1>11, <1>12, <1>13, Zenon

(* The entries of a finalize: the forced window comes first, and the finals  *)
(* stand in the order of the final pass, after the label revisions.          *)
LaidOut(entries, a, b, m, f) ==
    /\ a <= Len(entries)
    /\ \A p \in 1 .. Len(entries) :
          /\ entries[p].kind = "final" =>
                p - a - b \in 1 .. m /\ entries[p].supersedes = f[p - a - b]
          /\ p <= a => entries[p].kind = "provisional"

(* finalize() builds them so.                                                *)
LEMMA BatchLayout ==
    ASSUME NEW a \in Nat, NEW b \in Nat, NEW c \in Nat, NEW m \in Nat,
           NEW f \in [1 .. m -> Nat], NEW entries, entries = FinalBatch(a, b, f, c)
    PROVE  LaidOut(entries, a, b, m, f)
<1> DEFINE A == Plain("provisional", a)
           R == Plain("revision", b)
           F == Finals(f)
           W == Plain("warning", c)
           Z == Plain("finalized", 1)
           B == A \o R
           C == B \o F
           D == C \o W
           E == D \o Z
<1>1. /\ A \in Seq(Entry) /\ Len(A) = a /\ R \in Seq(Entry) /\ Len(R) = b
      /\ W \in Seq(Entry) /\ Len(W) = c /\ Z \in Seq(Entry) /\ Len(Z) = 1
  BY PlainType DEF Kinds
<1>2. F \in Seq(Entry) /\ Len(F) = m
  <2>1. Len(f) = m
    BY LenProperties, SeqDef
  <2>2. F = [i \in 1 .. m |-> [kind |-> "final", supersedes |-> f[i]]]
    BY <2>1 DEF Finals
  <2>3. F \in Seq(Entry)
    BY FinalsType
  <2>4. QED
    BY <2>2, <2>3, LenProperties
<1>3. /\ \A i \in 1 .. a : A[i].kind = "provisional"
      /\ \A i \in 1 .. b : R[i].kind = "revision"
      /\ \A i \in 1 .. c : W[i].kind = "warning"
      /\ \A i \in 1 .. 1 : Z[i].kind = "finalized"
  BY DEF Plain
<1>4. \A i \in 1 .. m : F[i].supersedes = f[i]
  <2>1. Len(f) = m
    BY LenProperties, SeqDef
  <2>2. QED
    BY <2>1 DEF Finals
<1>5. entries = E
  BY DEF FinalBatch
<1> HIDE DEF A, R, F, W, Z
<1>6. /\ B \in Seq(Entry) /\ Len(B) = a + b
      /\ \A i \in 1 .. a + b : B[i] = IF i <= a THEN A[i] ELSE R[i - a]
  <2>1. /\ A \o R \in Seq(Entry) /\ Len(A \o R) = Len(A) + Len(R)
        /\ \A i \in 1 .. Len(A) + Len(R) :
              (A \o R)[i] = IF i <= Len(A) THEN A[i] ELSE R[i - Len(A)]
    BY <1>1, ConcatProperties, Zenon
  <2>2. QED
    BY <1>1, <2>1
<1> HIDE DEF B
<1>7. /\ C \in Seq(Entry) /\ Len(C) = a + b + m
      /\ \A i \in 1 .. a + b + m : C[i] = IF i <= a + b THEN B[i] ELSE F[i - (a + b)]
  <2>1. /\ B \o F \in Seq(Entry) /\ Len(B \o F) = Len(B) + Len(F)
        /\ \A i \in 1 .. Len(B) + Len(F) :
              (B \o F)[i] = IF i <= Len(B) THEN B[i] ELSE F[i - Len(B)]
    BY <1>2, <1>6, ConcatProperties, Zenon
  <2>2. QED
    BY <1>2, <1>6, <2>1
<1> HIDE DEF C
<1>8. /\ D \in Seq(Entry) /\ Len(D) = a + b + m + c
      /\ \A i \in 1 .. a + b + m + c :
            D[i] = IF i <= a + b + m THEN C[i] ELSE W[i - (a + b + m)]
  <2>0. C \in Seq(Entry) /\ W \in Seq(Entry)
    BY <1>1, <1>7
  <2>1. /\ C \o W \in Seq(Entry) /\ Len(C \o W) = Len(C) + Len(W)
        /\ \A i \in 1 .. Len(C) + Len(W) :
              (C \o W)[i] = IF i <= Len(C) THEN C[i] ELSE W[i - Len(C)]
    BY <2>0, ConcatProperties, Zenon
  <2>2. QED
    BY <1>1, <1>7, <2>1
<1> HIDE DEF D
<1>9. /\ E \in Seq(Entry) /\ Len(E) = a + b + m + c + 1
      /\ \A i \in 1 .. a + b + m + c + 1 :
            E[i] = IF i <= a + b + m + c THEN D[i] ELSE Z[i - (a + b + m + c)]
  <2>1. /\ D \o Z \in Seq(Entry) /\ Len(D \o Z) = Len(D) + Len(Z)
        /\ \A i \in 1 .. Len(D) + Len(Z) :
              (D \o Z)[i] = IF i <= Len(D) THEN D[i] ELSE Z[i - Len(D)]
    BY <1>1, <1>8, ConcatProperties, Zenon
  <2>2. QED
    BY <1>1, <1>8, <2>1
<1> HIDE DEF E
<1>10. a <= Len(entries)
  BY <1>5, <1>9
<1> SUFFICES ASSUME NEW p \in 1 .. a + b + m + c + 1
             PROVE  /\ E[p].kind = "final" =>
                          p - a - b \in 1 .. m /\ E[p].supersedes = f[p - a - b]
                    /\ p <= a => E[p].kind = "provisional"
  BY <1>5, <1>9, <1>10 DEF LaidOut
<1>11. CASE p <= a
  <2>1. E[p] = A[p]
    BY <1>6, <1>7, <1>8, <1>9, <1>11
  <2>2. E[p].kind = "provisional"
    BY <1>3, <1>11, <2>1
  <2>3. QED
    BY <2>2
<1>12. CASE p > a /\ p <= a + b
  <2>0. E[p] = D[p] /\ D[p] = C[p]
    BY <1>8, <1>9, <1>12
  <2>a. p \in 1 .. a + b /\ p \in 1 .. a + b + m /\ ~ (p <= a)
    BY <1>12
  <2>b. B[p] = R[p - a]
    BY <1>6, <2>a
  <2>c. C[p] = B[p]
    BY <1>7, <1>12, <2>a
  <2>1. E[p] = R[p - a] /\ p - a \in 1 .. b
    BY <1>12, <2>0, <2>b, <2>c
  <2>2. E[p].kind = "revision"
    BY <1>3, <2>1
  <2>3. QED
    BY <2>2, <1>12
<1>13. CASE p > a + b /\ p <= a + b + m
  <2>0. E[p] = D[p] /\ D[p] = C[p]
    BY <1>8, <1>9, <1>13
  <2>a. C[p] = F[p - (a + b)]
    BY <1>7, <1>13
  <2>b. p - (a + b) \in 1 .. m /\ p - a - b = p - (a + b)
    BY <1>13
  <2>1. E[p] = F[p - (a + b)] /\ p - (a + b) \in 1 .. m /\ p - a - b = p - (a + b)
    BY <2>0, <2>a, <2>b
  <2>2. E[p].supersedes = f[p - a - b]
    BY <1>4, <2>1
  <2>3. QED
    BY <2>1, <2>2, <1>13
<1>14. CASE p > a + b + m /\ p <= a + b + m + c
  <2>1. E[p] = W[p - (a + b + m)] /\ p - (a + b + m) \in 1 .. c
    BY <1>8, <1>9, <1>14
  <2>2. E[p].kind = "warning"
    BY <1>3, <2>1
  <2>3. QED
    BY <2>2, <1>14
<1>15. CASE p > a + b + m + c
  <2>1. E[p] = Z[p - (a + b + m + c)] /\ p - (a + b + m + c) \in 1 .. 1
    BY <1>9, <1>15
  <2>2. E[p].kind = "finalized"
    BY <1>3, <2>1
  <2>3. QED
    BY <2>2, <1>15
<1>16. QED
  BY <1>11, <1>12, <1>13, <1>14, <1>15

(* What a batch is made of.                                                  *)
LEMMA BatchParts ==
    ASSUME NEW a, NEW entries \in FinalBatches(a)
    PROVE  \E b \in {0, 1}, c \in {0, 1},
              f \in Supersedes(emitted \union {sequence + i : i \in 1 .. a}) :
                  entries = FinalBatch(a, b, f, c)
  BY DEF FinalBatches

(* What a final of a finalize replaces: a provisional event of an earlier    *)
(* window or of the forced one, and no two finals the same.                  *)
LEMMA FinalsReplace ==
    ASSUME LogInv, emitted \subseteq 1 .. sequence, NEW entries \in FinalEntries,
           NEW p \in 1 .. Len(entries), entries[p].kind = "final",
           entries[p].supersedes # 0
    PROVE  /\ entries[p].supersedes \in
                 emitted \union {sequence + i : i \in Of(entries, "provisional")}
           /\ entries[p].supersedes < sequence + p
           /\ \A q \in 1 .. Len(entries) :
                 entries[q].kind = "final" /\ entries[q].supersedes = entries[p].supersedes
                     => q = p
<1>1. sequence \in Nat /\ entries \in Seq(Entry) /\ Len(entries) \in Nat
  BY FinalEntriesType, LenProperties DEF LogInv, LogTypeOK
<1>2. audio
  <2>1. CASE ~ audio
    <3>1. entries = Plain("finalized", 1)
      BY <2>1 DEF FinalEntries
    <3>2. Len(entries) = 1
      BY <3>1, PlainType DEF Kinds
    <3>3. entries[p].kind = "finalized"
      BY <3>1, <3>2 DEF Plain
    <3>4. QED
      BY <3>3
  <2>2. QED
    BY <2>1
<1> DEFINE Known(n) == emitted \union {sequence + i : i \in 1 .. n}
<1>3. PICK a \in 0 .. MaxSegments : entries \in FinalBatches(a)
  BY <1>2, Zenon DEF FinalEntries
<1>4. PICK b \in {0, 1}, c \in {0, 1}, f \in Supersedes(Known(a)) :
          entries = FinalBatch(a, b, f, c)
  BY <1>3, BatchParts
<1>5. a \in Nat /\ b \in Nat /\ c \in Nat
  BY BoundAssumption
<1>6. PICK m \in 0 .. MaxFinals :
          /\ f \in [1 .. m -> Known(a) \union {0}]
          /\ \A i, j \in 1 .. m : i # j /\ f[i] # 0 => f[i] # f[j]
  BY <1>4 DEF Supersedes
<1>7. m \in Nat
  BY BoundAssumption
<1>8. \A x \in Known(a) : x \in Nat
  BY <1>1, <1>5
<1> HIDE DEF Known
<1>9. f \in [1 .. m -> Nat]
  <2>1. Known(a) \union {0} \subseteq Nat
    BY <1>8
  <2>2. QED
    BY <1>6, <2>1, Zenon
<1>10. LaidOut(entries, a, b, m, f)
  BY <1>4, <1>5, <1>7, <1>9, BatchLayout, Zenon
<1>11. /\ p - a - b \in 1 .. m /\ entries[p].supersedes = f[p - a - b] /\ a <= Len(entries)
  BY <1>10 DEF LaidOut
<1>12. entries[p].supersedes \in Known(a)
  BY <1>6, <1>11
<1>13. 1 .. a \subseteq Of(entries, "provisional")
  BY <1>1, <1>5, <1>10, <1>11 DEF Of, LaidOut
<1>14. Known(a) \subseteq emitted \union {sequence + i : i \in Of(entries, "provisional")}
  BY <1>13 DEF Known
<1>15. entries[p].supersedes < sequence + p
  <2>1. CASE entries[p].supersedes \in emitted
    <3> DEFINE x == entries[p].supersedes
    <3>1. x \in 1 .. sequence
      BY <2>1, Zenon
    <3> HIDE DEF x
    <3>2. x < sequence + p
      BY <1>1, <3>1
    <3>3. QED
      BY <3>2 DEF x
  <2>2. CASE \E i \in 1 .. a : entries[p].supersedes = sequence + i
    <3>1. PICK i \in 1 .. a : entries[p].supersedes = sequence + i
      BY <2>2
    <3>2. i < p
      BY <1>1, <1>5, <1>11
    <3>3. QED
      BY <1>1, <1>5, <3>1, <3>2
  <2>3. QED
    BY <1>12, <2>1, <2>2 DEF Known
<1>16. ASSUME NEW q \in 1 .. Len(entries), entries[q].kind = "final",
              entries[q].supersedes = entries[p].supersedes
       PROVE  q = p
  <2>1. q - a - b \in 1 .. m /\ entries[q].supersedes = f[q - a - b]
    BY <1>10, <1>16 DEF LaidOut
  <2>2. q - a - b = p - a - b
    BY <1>6, <1>11, <1>16, <2>1
  <2>3. QED
    BY <1>1, <1>5, <2>2
<1>17. QED
  BY <1>12, <1>14, <1>15, <1>16

(* Before the session is finalized there is no final to replace anything: a  *)
(* failed final pass logs none.  What was emitted has a number of the log.   *)
ReplaceInv ==
    /\ emitted \subseteq 1 .. sequence
    /\ state # "FINALIZED" => FinalEvents = {}
    /\ SupersededOnce

(* Recorded provisionals have numbers of the log.                            *)
LEMMA RecordNumbers ==
    ASSUME LogInv, emitted \subseteq 1 .. sequence, NEW entries \in Seq(Entry),
           Record(entries)
    PROVE  emitted' \subseteq 1 .. sequence'
<1>1. sequence \in Nat /\ Len(entries) \in Nat /\ sequence' = sequence + Len(entries)
  BY LenProperties DEF LogInv, LogTypeOK, Record, AppendAll
<1>2. \A i \in Of(entries, "provisional") : i \in 1 .. Len(entries)
  BY DEF Of
<1>3. emitted' = emitted \union {sequence + i : i \in Of(entries, "provisional")}
  BY DEF Record
<1>4. \A i \in Of(entries, "provisional") : sequence + i \in 1 .. sequence'
  BY <1>1, <1>2
<1>5. \A x \in 1 .. sequence : x \in 1 .. sequence'
  BY <1>1
<1>6. QED
  BY <1>3, <1>4, <1>5, Zenon

(* A log without finals stays without when none is appended.                 *)
LEMMA NoFinalAppended ==
    ASSUME LogInv, FinalEvents = {}, NEW entries \in Seq(Entry), AppendAll(entries),
           \A p \in 1 .. Len(entries) : entries[p].kind # "final"
    PROVE  FinalEvents' = {}
<1>1. LogTypeOK'
  BY AppendContiguous DEF LogInv
<1>2. DOMAIN events' = 1 .. Len(events') /\ DOMAIN events = 1 .. Len(events)
  BY <1>1, LenProperties DEF LogInv, LogTypeOK
<1>3. \A j \in 1 .. Len(events) : events[j].kind # "final"
  BY <1>2 DEF FinalEvents
<1>4. \A i \in 1 .. Len(events') : events'[i].kind # "final"
  <2> TAKE i \in 1 .. Len(events')
  <2>1. CASE \E j \in 1 .. Len(events) : events'[i] = events[j]
    BY <1>3, <2>1
  <2>2. CASE \E p \in 1 .. Len(entries) :
                 events'[i] = [seq |-> sequence + p, kind |-> entries[p].kind,
                               supersedes |-> entries[p].supersedes]
    BY <2>2
  <2>3. QED
    BY <2>1, <2>2, Appended DEF LogInv
<1>5. QED
  BY <1>2, <1>4 DEF FinalEvents

(* A window, and a finalize that fails.                                      *)
LEMMA ProvisionalReplaces ==
    ASSUME LogInv, ReplaceInv, state # "FINALIZED", NEW n \in 0 .. MaxSegments,
           Record(Plain("provisional", n))
    PROVE  ReplaceInv'
<1>1. n \in Nat /\ "provisional" \in Kinds
  BY BoundAssumption DEF Kinds
<1>2. Plain("provisional", n) \in Seq(Entry) /\ Len(Plain("provisional", n)) = n
  BY <1>1, PlainType
<1>3. \A p \in 1 .. n : Plain("provisional", n)[p].kind # "final"
  BY DEF Plain
<1>4. FinalEvents' = {}
  BY <1>2, <1>3, NoFinalAppended DEF ReplaceInv, Record
<1>5. emitted' \subseteq 1 .. sequence'
  BY <1>2, RecordNumbers DEF ReplaceInv
<1>6. QED
  BY <1>4, <1>5 DEF ReplaceInv, SupersededOnce

(* A finalize.                                                               *)
LEMMA FinalizeReplaces ==
    ASSUME LogInv, ReplaceInv, NEW entries \in FinalEntries, Finalize(entries)
    PROVE  ReplaceInv'
<1>1. entries \in Seq(Entry) /\ sequence \in Nat
  BY FinalEntriesType DEF LogInv, LogTypeOK
<1>2. /\ state # "FINALIZED" /\ state' = "FINALIZED" /\ Record(entries) /\ AppendAll(entries)
      /\ emitted' = emitted \union {sequence + i : i \in Of(entries, "provisional")}
  BY DEF Finalize, Record
<1>3. LogTypeOK' /\ LogContiguous'
  BY <1>1, <1>2, AppendContiguous DEF LogInv
<1>4. DOMAIN events' = 1 .. Len(events') /\ DOMAIN events = 1 .. Len(events)
  BY <1>3, LenProperties DEF LogInv, LogTypeOK
<1>5. emitted' \subseteq 1 .. sequence'
  BY <1>1, <1>2, RecordNumbers DEF ReplaceInv
<1>6. \A j \in 1 .. Len(events) : events[j].kind # "final"
  BY <1>2, <1>4 DEF FinalEvents, ReplaceInv
<1>7. ASSUME NEW i \in FinalEvents'
      PROVE  \E p \in 1 .. Len(entries) :
                /\ events'[i].seq = sequence + p /\ entries[p].kind = "final"
                /\ entries[p].supersedes = events'[i].supersedes
  <2>1. i \in 1 .. Len(events') /\ events'[i].kind = "final"
    BY <1>4, <1>7 DEF FinalEvents
  <2>2. \E p \in 1 .. Len(entries) :
            events'[i] = [seq |-> sequence + p, kind |-> entries[p].kind,
                          supersedes |-> entries[p].supersedes]
    BY <1>1, <1>2, <1>6, <2>1, Appended DEF LogInv
  <2>3. QED
    BY <2>1, <2>2
<1>8. ASSUME NEW i \in FinalEvents', events'[i].supersedes # 0
      PROVE  /\ events'[i].supersedes \in emitted'
             /\ events'[i].supersedes < events'[i].seq
             /\ \A j \in FinalEvents' :
                   events'[j].supersedes = events'[i].supersedes => j = i
  <2>1. PICK p \in 1 .. Len(entries) :
            /\ events'[i].seq = sequence + p /\ entries[p].kind = "final"
            /\ entries[p].supersedes = events'[i].supersedes
    BY <1>7, <1>8
  <2>2. /\ entries[p].supersedes \in
               emitted \union {sequence + k : k \in Of(entries, "provisional")}
        /\ entries[p].supersedes < sequence + p
        /\ \A q \in 1 .. Len(entries) :
              entries[q].kind = "final" /\ entries[q].supersedes = entries[p].supersedes
                  => q = p
    BY <1>8, <2>1, FinalsReplace DEF ReplaceInv
  <2>3. ASSUME NEW j \in FinalEvents', events'[j].supersedes = events'[i].supersedes
        PROVE  j = i
    <3>1. PICK q \in 1 .. Len(entries) :
              /\ events'[j].seq = sequence + q /\ entries[q].kind = "final"
              /\ entries[q].supersedes = events'[j].supersedes
      BY <1>7, <2>3
    <3>2. q = p
      BY <2>1, <2>2, <2>3, <3>1
    <3>3. events'[j].seq = events'[i].seq
      BY <2>1, <3>1, <3>2
    <3>4. i \in 1 .. Len(events') /\ j \in 1 .. Len(events')
      BY <1>4 DEF FinalEvents
    <3>5. /\ events'[i].seq = sequence' - Len(events') + i
          /\ events'[j].seq = sequence' - Len(events') + j
      BY <1>3, <3>4 DEF LogContiguous
    <3>6. sequence' \in Nat /\ Len(events') \in Nat
      BY <1>3, LenProperties DEF LogTypeOK
    <3>7. QED
      BY <3>3, <3>4, <3>5, <3>6
  <2>4. QED
    BY <1>2, <2>1, <2>2, <2>3
<1>9. SupersededOnce'
  BY <1>8 DEF SupersededOnce
<1>10. QED
  BY <1>2, <1>5, <1>9 DEF ReplaceInv

(* A step that leaves the log, the state and _emitted alone.                 *)
LEMMA UnchangedReplaces ==
    ASSUME ReplaceInv, UNCHANGED <<log, state, emitted>>
    PROVE  ReplaceInv'
  BY DEF ReplaceInv, SupersededOnce, FinalEvents, log

(* Every step keeps what finals replace.                                     *)
LEMMA NextReplaces ==
    ASSUME LogInv, ReplaceInv, [Next]_vars
    PROVE  ReplaceInv'
<1>1. CASE \E entries \in FinalEntries : Finalize(entries)
  BY <1>1, FinalizeReplaces
<1>2. CASE state # "FINALIZED" /\ \E n \in 0 .. MaxSegments : Record(Plain("provisional", n))
  BY <1>2, ProvisionalReplaces
<1>3. CASE UNCHANGED <<log, state, emitted>>
  BY <1>3, UnchangedReplaces
<1>4. CASE \E s \in Sockets : Connect(s)
  <2>1. PICK s \in Sockets : Connect(s)
    BY <1>4
  <2>2. CASE Len(events) = 0
    <3>1. AppendAll(Plain("started", 1)) /\ emitted' = emitted
      BY <2>1, <2>2 DEF Connect
    <3>2. Plain("started", 1) \in Seq(Entry) /\ Len(Plain("started", 1)) = 1
      BY PlainType DEF Kinds
    <3>3. FinalEvents = {}
      BY <2>2, LenProperties DEF FinalEvents, LogInv, LogTypeOK
    <3>4. \A p \in 1 .. 1 : Plain("started", 1)[p].kind # "final"
      BY DEF Plain
    <3>5. FinalEvents' = {}
      BY <3>1, <3>2, <3>3, <3>4, NoFinalAppended
    <3>6. sequence \in Nat /\ sequence' = sequence + 1
      BY <3>1, <3>2 DEF AppendAll, LogInv, LogTypeOK
    <3>7. emitted' \subseteq 1 .. sequence'
      BY <3>1, <3>6 DEF ReplaceInv
    <3>8. QED
      BY <3>5, <3>7 DEF ReplaceInv, SupersededOnce
  <2>3. CASE Len(events) # 0
    <3>1. AppendAll(<<>>) /\ state' = state /\ emitted' = emitted
      BY <2>1, <2>3 DEF Connect
    <3>2. UNCHANGED log
      BY <3>1, AppendNothing
    <3>3. QED
      BY <3>1, <3>2, UnchangedReplaces
  <2>4. QED
    BY <2>2, <2>3
<1>5. CASE \E s \in Sockets : Serve(s)
  <2>1. PICK s \in Sockets : Serve(s)
    BY <1>5
  <2>2. CASE PushFails(s) \/ PushRefused(s) \/ SocketFinalizedBefore(s) \/ SocketResume(s)
                \/ Send(s) \/ Disconnect(s)
    <3>1. UNCHANGED <<log, state, emitted>>
      BY <2>2, Zenon DEF PushFails, PushRefused, SocketFinalizedBefore, SocketResume,
            Send, Disconnect, session
    <3>2. QED
      BY <1>3, <3>1
  <2>3. CASE SocketFinalize(s)
    BY <1>1, <2>3, Zenon DEF SocketFinalize
  <2>4. CASE \E n \in 0 .. MaxSegments : PushPcm(s, n)
    BY <1>2, <2>4 DEF PushPcm
  <2>5. CASE \E n \in 0 .. MaxSegments : SocketFinalizeFails(s, n)
    BY <1>2, <2>5 DEF SocketFinalizeFails, FinalizeFails
  <2>6. QED
    BY <2>1, <2>2, <2>3, <2>4, <2>5 DEF Serve
<1>6. CASE Leave \/ SendMessage(Pcm) \/ SendMessage(FinalizeMessage) \/ UNCHANGED vars
  <2>1. UNCHANGED <<log, state, emitted>>
    BY <1>6, Zenon DEF Leave, SendMessage, vars, session
  <2>2. QED
    BY <1>3, <2>1
<1>7. CASE HttpFinalize
  <2>1. CASE \E entries \in FinalEntries : Finalize(entries)
    BY <1>1, <2>1
  <2>2. CASE \E n \in 0 .. MaxSegments : FinalizeFails(n)
    BY <1>2, <2>2 DEF FinalizeFails
  <2>3. QED
    BY <1>7, <2>1, <2>2, Zenon DEF HttpFinalize
<1>8. QED
  BY <1>4, <1>5, <1>6, <1>7 DEF Next

(* A final replaces a provisional event that came before it, and no two      *)
(* finals the same one, whoever finalizes, over whatever connection, and     *)
(* however many final passes failed before (_superseded_event_id, finalize). *)
THEOREM ReplacedOnce == Spec => []SupersededOnce
<1> DEFINE Inv == LogInv /\ ReplaceInv
<1>1. Init => Inv
  <2> SUFFICES ASSUME Init PROVE ReplaceInv
    BY InitKeeps
  <2>1. events = <<>> /\ emitted = {}
    BY DEF Init, LogInit
  <2>2. FinalEvents = {}
    BY <2>1 DEF FinalEvents
  <2>3. QED
    BY <2>1, <2>2 DEF ReplaceInv, SupersededOnce
<1>2. Inv /\ [Next]_vars => Inv'
  BY NextKeeps, NextReplaces
<1>3. Inv => SupersededOnce
  BY DEF ReplaceInv
<1>4. QED
  BY <1>1, <1>2, <1>3, PTL DEF Spec
=============================================================================
