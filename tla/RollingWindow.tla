---------------------------- MODULE RollingWindow ----------------------------
(***************************************************************************)
(* What a StreamingSession does with its audio (application/                *)
(* streaming_pipeline.py): every hop it looks at the last window, sends the *)
(* speech that has been closed by silence as provisional segments, and at   *)
(* the end transcribes everything again and replaces them.  The event log   *)
(* and the sockets are module StreamSession, the roster StreamingSpeakers.  *)
(*                                                                         *)
(* The audio is a sequence of units, each silence or speech with its        *)
(* speakers.  VAD, diarizer and overlap detector tell what is there, in     *)
(* every window alike; the language identifier may say anything.            *)
(***************************************************************************)
EXTENDS Fusion, FiniteSetsExt

CONSTANTS
    Sounds,        \* what a unit of audio may be: Silence or a set of speakers
    Silence,
    Hop,           \* streaming.diarization_hop_seconds
    Window,        \* streaming.diarization_window_seconds
    Ring,          \* streaming.ring_buffer_seconds
    CloseAfter,    \* streaming.finalize_after_silence_seconds
    Sample,        \* asr.language_detection.sample_seconds
    Languages,     \* what detect_language may answer
    NoLanguage,    \* nothing is pinned: the recognizer decides call by call
    MaxTime        \* bound: units of audio in a session

ASSUME SoundAssumption == Silence \in Sounds /\ Sounds \ {Silence} \subseteq SUBSET Speakers

(* The configuration as it is validated; the mode is auto_once, the default. *)
StreamingConfig ==
    /\ {Hop, Window, Ring, CloseAfter} \subseteq Nat \ {0}
    /\ Hop <= Window /\ Window <= Ring
LanguageDetectionConfig == Sample \in Nat \ {0} /\ NoLanguage \notin Languages

ASSUME WindowAssumption == StreamingConfig
ASSUME LanguageAssumption == LanguageDetectionConfig
ASSUME TimeAssumption == MaxTime \in Nat

VARIABLES
    audio,            \* the session's PCM, which is spooled
    ring,             \* _samples: how much of its end is in memory
    last_process,     \* _last_process_ms
    emitted_until,    \* _emitted_until_ms
    emitted,          \* _emitted, each with the language it was decoded in
    state,            \* state_machine
    language,         \* session_language of the rolling pipeline
    finals,           \* the final segments, each with the event it supersedes
    failed            \* history: has a pass raised?

vars == <<audio, ring, last_process, emitted_until, emitted, state, language, finals, failed>>

Now == Len(audio)

Init ==
    /\ audio = <<>>
    /\ ring = 0
    /\ last_process = 0
    /\ emitted_until = 0
    /\ emitted = <<>>
    /\ state = "STREAMING"
    /\ language = NoLanguage
    /\ finals = <<>>
    /\ failed = FALSE

-----------------------------------------------------------------------------
(* What the models hear in a stretch of audio *)

SpeechUnits(sound, units) == {t \in units : sound[t + 1] # Silence}
Turns(sound) ==
    [t \in 0 .. Len(sound) - 1 |-> IF sound[t + 1] = Silence THEN {} ELSE sound[t + 1]]

(* Mutant: the window is a unit short.                                       *)
WindowUnitsShort(sound, held) ==
    Greater(0, Len(sound) - Lesser(Window, held) + 1) .. Len(sound) - 1

(* _window_buffer.                                                           *)
WindowUnits(sound, held) ==
    Greater(0, Len(sound) - Lesser(Window, held)) .. Len(sound) - 1

(* _pool_speech: how much speech the identifier is given, if it is enough.   *)
Pooled(speech) ==
    LET taken == Lesser(Cardinality(speech), Sample)
    IN  IF taken < Sample \div 2 THEN 0 ELSE taken

(* Mutant: every window decides anew.                                        *)
ResolveAnew(pinned, speech) ==
    IF Pooled(speech) > 0 THEN Languages \union {pinned} ELSE {pinned}

(* resolve_session_language: once, if the identifier is sure enough.         *)
Resolve(pinned, speech) ==
    IF pinned = NoLanguage /\ Pooled(speech) > 0
    THEN Languages \union {NoLanguage}
    ELSE {pinned}

(* pin_language: a decision made elsewhere, if there is one.                 *)
PinLanguage(pinned, given) == IF given # NoLanguage THEN given ELSE pinned

-----------------------------------------------------------------------------
(* One rolling pass *)

(* Mutant: speech may still be going on.                                     *)
ClosedEarly(now, speech, force) ==
    {i \in speech : i.end_ms > emitted_until}

Closed(now, speech, force) ==
    {i \in speech : i.end_ms > emitted_until
                    /\ (force \/ now - i.end_ms >= CloseAfter)}

Pending(i) == Interval(Greater(i.start_ms, emitted_until), i.end_ms)

(* The segments of one closed interval: its direct slices, and the regions   *)
(* that reach into it as a whole.                                            *)
SegmentsOf(now, turns, i, regions, force) ==
    LET handled == {r \in regions : \E c \in Clamp(r, Pending(i)) :
                                       force \/ now - c.end_ms >= CloseAfter}
    IN  NonOverlap({Pending(i)}, regions, turns)
            \union UNION {Sources(r, turns) : r \in handled}

(* The order of a pass: a stable sort of what the intervals gave in turn.    *)
GroupLess(x, y) ==
    \/ SortKeyLess(x.segment, y.segment)
    \/ ~ SortKeyLess(y.segment, x.segment) /\ x.closed < y.closed

(* _process: what the closed intervals give, sorted together, and how far    *)
(* they reach.                                                               *)
Process(sound, held, force) ==
    LET units   == WindowUnits(sound, held)
        turns   == Turns(sound)
        regions == OverlapRegions(units, turns)
        closed  == Closed(Len(sound), Runs(SpeechUnits(sound, units)), force)
        groups  == UNION {{[closed |-> i.end_ms, segment |-> s] :
                              s \in SegmentsOf(Len(sound), turns, i, regions, force)} :
                          i \in closed}
    IN  [sent |-> Ordered(groups, GroupLess),
         until |-> Max({emitted_until} \union {i.end_ms : i \in closed})]

(* _emit_provisional: the segments of a pass, decoded in its language.       *)
EmitProvisional(pass, decoded) ==
    /\ emitted' = emitted \o [n \in DOMAIN pass.sent |->
                                 [segment |-> pass.sent[n].segment, language |-> decoded]]
    /\ emitted_until' = pass.until

-----------------------------------------------------------------------------
(* The final pass *)

(* OfflinePipeline.run over the spooled audio.                               *)
FinalSegments ==
    LET units   == 0 .. Now - 1
        turns   == Turns(audio)
        regions == OverlapRegions(units, turns)
    IN  SortSegments(NonOverlap(Runs(SpeechUnits(audio, units)), regions, turns)
                        \union UNION {Sources(r, turns) : r \in regions})

(* Mutant: the longest intersection alone decides.                           *)
SupersededByOverlap(list, segment, used) ==
    LET Common(n) == Intersection(list[n].segment, segment)
        found == {n \in 1 .. Len(list) : Common(n) > 0}
        Better(n, m) == Common(n) > Common(m) \/ (Common(n) = Common(m) /\ n <= m)
    IN  IF found = {} THEN 0 ELSE CHOOSE n \in found : \A m \in found : Better(n, m)

(* _superseded_event_id: of the events that were not used, one of the same   *)
(* source track, then the longest intersection, then the first.              *)
Superseded(list, segment, used) ==
    LET Same(n) == list[n].segment.track = segment.track
        Common(n) == Intersection(list[n].segment, segment)
        Better(n, m) == \/ Same(n) /\ ~ Same(m)
                        \/ Same(n) = Same(m) /\ Common(n) > Common(m)
                        \/ Same(n) = Same(m) /\ Common(n) = Common(m) /\ n <= m
        found == {n \in 1 .. Len(list) : n \notin used /\ Common(n) > 0}
    IN  IF found = {} THEN 0 ELSE CHOOSE n \in found : \A m \in found : Better(n, m)

(* The loop of _final_pass over its segments.                                *)
Finals(list, segments) ==
    LET supersedes[n \in DOMAIN segments] ==
            Superseded(list, segments[n], {supersedes[m] : m \in 1 .. n - 1})
    IN  [n \in DOMAIN segments |->
            [segment |-> segments[n], supersedes |-> supersedes[n]]]

-----------------------------------------------------------------------------
(* push_pcm, with a unit that does not complete a hop.                       *)
Push(kind) ==
    /\ state = "STREAMING"
    /\ Now < MaxTime
    /\ Now + 1 - last_process < Hop
    /\ audio' = Append(audio, kind)
    /\ ring' = Lesser(ring + 1, Ring)
    /\ UNCHANGED <<last_process, emitted_until, emitted, state, language, finals, failed>>

(* push_pcm, and the pass that is due.                                       *)
PushAndProcess(kind) ==
    /\ state = "STREAMING"
    /\ Now < MaxTime
    /\ Now + 1 - last_process >= Hop
    /\ audio' = Append(audio, kind)
    /\ ring' = Lesser(ring + 1, Ring)
    /\ last_process' = Now + 1
    /\ \E pass \in {Process(audio', ring', FALSE)} :
           /\ language' \in Resolve(language, SpeechUnits(audio', WindowUnits(audio', ring')))
           /\ EmitProvisional(pass, language')
    /\ UNCHANGED <<state, finals, failed>>

(* A stage of the pass raises: nothing is sent, and the next pass is a hop   *)
(* away.  The language may have been pinned before.                          *)
PushFails(kind) ==
    /\ state = "STREAMING"
    /\ Now < MaxTime
    /\ Now + 1 - last_process >= Hop
    /\ audio' = Append(audio, kind)
    /\ ring' = Lesser(ring + 1, Ring)
    /\ last_process' = Now + 1
    /\ language' \in Resolve(language, SpeechUnits(audio', WindowUnits(audio', ring')))
    /\ failed' = TRUE
    /\ UNCHANGED <<emitted_until, emitted, state, finals>>

(* The forced pass of finalize().                                            *)
ForcedProcess ==
    /\ state # "FINALIZED"
    /\ last_process' = Now
    /\ \E pass \in {Process(audio, ring, TRUE)} :
           /\ language' \in Resolve(language, SpeechUnits(audio, WindowUnits(audio, ring)))
           /\ EmitProvisional(pass, language')

ForcedProcessFails ==
    /\ state # "FINALIZED"
    /\ last_process' = Now
    /\ language' \in Resolve(language, SpeechUnits(audio, WindowUnits(audio, ring)))
    /\ UNCHANGED <<emitted_until, emitted>>

(* finalize(): the forced pass, and the final pass in a pipeline of its own, *)
(* which is given the language of the rolling one.                           *)
Finalize ==
    /\ ForcedProcess
    /\ \E list \in {Finals(emitted', FinalSegments)},
          decoded \in Resolve(PinLanguage(NoLanguage, language'),
                              SpeechUnits(audio, 0 .. Now - 1)) :
           finals' = [n \in DOMAIN list |-> [segment |-> list[n].segment, language |-> decoded,
                                              supersedes |-> list[n].supersedes]]
    /\ state' = "FINALIZED"
    /\ UNCHANGED <<audio, ring, failed>>

(* One of the two raises; finalize() can be called again.  Without audio     *)
(* neither has anything to do.                                               *)
FinalizeFails ==
    /\ Now > 0
    /\ ForcedProcess \/ ForcedProcessFails
    /\ state' = "FINALIZING"
    /\ failed' = TRUE
    /\ UNCHANGED <<audio, ring, finals>>

(* result(): GET /v1/sessions/{id}/result.                                   *)
Result == SortSegments({finals[n].segment : n \in DOMAIN finals})

Next ==
    \/ \E kind \in Sounds : Push(kind) \/ PushAndProcess(kind) \/ PushFails(kind)
    \/ Finalize
    \/ FinalizeFails

Spec == Init /\ [][Next]_vars

-----------------------------------------------------------------------------
(* Every variable keeps its type.                                            *)
TypeOK ==
    /\ audio \in Seq(Sounds)
    /\ ring = Lesser(Now, Ring)
    /\ last_process \in 0 .. Now
    /\ emitted_until \in 0 .. Now
    /\ emitted \in Seq([segment : Segment, language : Languages \union {NoLanguage}])
    /\ state \in {"STREAMING", "FINALIZING", "FINALIZED"}
    /\ language \in Languages \union {NoLanguage}
    /\ finals \in Seq([segment : Segment, language : Languages \union {NoLanguage},
                       supersedes : 0 .. Len(emitted)])
    /\ failed \in BOOLEAN

SentAt(list, t) == {n \in DOMAIN list : t \in Units(list[n])}
Sent == [n \in DOMAIN emitted |-> emitted[n].segment]

(* No word is sent twice as provisional, although every unit of audio is in  *)
(* several windows, a region is handled as a whole for every interval it     *)
(* reaches into, a pass may fail, and finalize may be called again.          *)
SentOnce ==
    \A m, n \in DOMAIN emitted :
        /\ m # n
        /\ emitted[m].segment.speaker = emitted[n].segment.speaker
        => ~ Intersects(emitted[m].segment, emitted[n].segment)

(* Speech that silence has closed is sent by the next pass, as far back as   *)
(* the window of that pass may be relied on to reach: nothing of a short     *)
(* utterance is missing, and of a long one its end is there.                 *)
ClosedSpeechSent ==
    state = "STREAMING" /\ ~ failed =>
        \A i \in Runs(SpeechUnits(audio, 0 .. Now - 1)) :
            Now >= i.end_ms + CloseAfter + Hop - 1 =>
                \A t \in Units(i) :
                    t >= i.end_ms + CloseAfter + Hop - 1 - Window => SentAt(Sent, t) # {}

(* The result of a session has every unit of speech: outside the overlap     *)
(* regions once and no silence, in a region once for each of the unit's      *)
(* speakers, for nobody twice and for nobody who is not in the region.       *)
FinalsComplete ==
    state = "FINALIZED" =>
        LET turns   == Turns(audio)
            regions == OverlapRegions(0 .. Now - 1, turns)
            At(t)   == SentAt(Result, t)
            Who(t)  == {Result[n].speaker : n \in At(t)}
        IN  \A t \in 0 .. Now - 1 :
                /\ t \notin AllUnits(regions) =>
                      Cardinality(At(t)) = IF audio[t + 1] = Silence THEN 0 ELSE 1
                /\ \A r \in regions : t \in Units(r) =>
                      /\ turns[t] \subseteq Who(t)
                      /\ Who(t) \subseteq ActiveIn(r, turns)
                      /\ Cardinality(At(t)) = Cardinality(Who(t))

(* No provisional segment is superseded twice, and one that the final pass   *)
(* confirms is superseded by its confirmation and by nothing else: two       *)
(* concurrent speakers "do not both claim the same earlier event"            *)
(* (_superseded_event_id).                                                   *)
ConfirmedReplaced ==
    /\ \A f, g \in DOMAIN finals :
          f # g /\ finals[f].supersedes # 0 => finals[f].supersedes # finals[g].supersedes
    /\ state = "FINALIZED" =>
          \A n \in DOMAIN emitted, f \in DOMAIN finals :
              emitted[n].segment = finals[f].segment => finals[f].supersedes = n

(* Once a segment was decoded in a pinned language, every later segment and  *)
(* the whole final transcript is in that language.                           *)
LanguageCommitted ==
    \A m \in DOMAIN emitted :
        emitted[m].language # NoLanguage =>
            /\ \A n \in m .. Len(emitted) : emitted[n].language = emitted[m].language
            /\ \A f \in DOMAIN finals : finals[f].language = emitted[m].language
=============================================================================
