------------------------------ MODULE EventLog ------------------------------
(***************************************************************************)
(* The append-only event log of one streaming session: class                *)
(* SessionEventLog of domain/events.py.                                     *)
(*                                                                         *)
(* An event_id stands for its sequence number (both are fresh with every    *)
(* append), so supersedes is the number of the event that is replaced, 0    *)
(* for none.  The dedup_key of a final contains a speaker ID that is fresh  *)
(* in every final pass, so append never finds an earlier final with it.     *)
(***************************************************************************)
EXTENDS Integers, Sequences

CONSTANT Retention      \* retention of the log, 10 000 in the code

ASSUME RetentionAssumption == Retention \in Nat \ {0}

VARIABLES
    events,     \* _events: what the log still holds
    sequence    \* _sequence: the number of the last event

Kinds == {"started", "provisional", "revision", "final", "warning", "finalized"}
Entry == [kind : Kinds, supersedes : Nat]
Event == [seq : Nat, kind : Kinds, supersedes : Nat]

LogInit == events = <<>> /\ sequence = 0

(* Entries of one kind that replace nothing.                                 *)
Plain(kind, n) == [i \in 1 .. n |-> [kind |-> kind, supersedes |-> 0]]

(* Finals, one per segment, each with the event it replaces.                 *)
Finals(replaced) ==
    [i \in 1 .. Len(replaced) |-> [kind |-> "final", supersedes |-> replaced[i]]]

(* Mutant: one event too many leaves the log.                                *)
RetainOneLess(list) ==
    IF Len(list) > Retention
    THEN SubSeq(list, Len(list) - Retention + 1, Len(list) - 1)
    ELSE list

(* The oldest events leave the log when it is full.                          *)
Retain(list) ==
    IF Len(list) > Retention
    THEN SubSeq(list, Len(list) - Retention + 1, Len(list))
    ELSE list

(* append(), once for every entry.                                           *)
AppendAll(entries) ==
    /\ events' = Retain(events \o [i \in 1 .. Len(entries) |->
                                     [seq |-> sequence + i, kind |-> entries[i].kind,
                                      supersedes |-> entries[i].supersedes]])
    /\ sequence' = sequence + Len(entries)

(* The numbers append() gives them.                                          *)
NewNumbers(entries) == [i \in 1 .. Len(entries) |-> sequence + i]

(* Mutant: the start of the retention window is not looked at.               *)
CanReplayTrimmed(n) == n <= sequence

(* replay_from() raises for a point ahead of the log or before its start.    *)
CanReplayFrom(n) ==
    /\ n <= sequence
    /\ events # <<>> => n >= events[1].seq - 1

(* Mutant: the replay includes the event the client already has.             *)
ReplayFromInclusive(n) ==
    LET newer[i \in 0 .. Len(events)] ==
            IF i = 0 THEN <<>>
            ELSE IF events[i].seq >= n THEN Append(newer[i - 1], events[i].seq)
            ELSE newer[i - 1]
    IN  newer[Len(events)]

(* replay_from(): the numbers of the retained events after n, out of the     *)
(* first i events of the log.                                                *)
ReplayFrom(n) ==
    LET newer[i \in 0 .. Len(events)] ==
            IF i = 0 THEN <<>>
            ELSE IF events[i].seq > n THEN Append(newer[i - 1], events[i].seq)
            ELSE newer[i - 1]
    IN  newer[Len(events)]

(* final_events() *)
FinalEvents == {i \in DOMAIN events : events[i].kind = "final"}

LogTypeOK ==
    /\ events \in Seq(Event)
    /\ sequence \in Nat

(* However events were appended and trimmed, the log is the newest part of   *)
(* the session without a hole: a replay that is not refused misses nothing,  *)
(* and next_sequence_number() never repeats.                                 *)
LogContiguous ==
    /\ Len(events) <= Retention
    /\ Len(events) = IF sequence > Retention THEN Retention ELSE sequence
    /\ \A i \in 1 .. Len(events) : events[i].seq = sequence - Len(events) + i
=============================================================================
