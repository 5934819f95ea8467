------------------------------- MODULE Fusion --------------------------------
(***************************************************************************)
(* From speech to segments: the recognizer's calls of one pass (application *)
(* /offline_pipeline.py) and FusionEngine (application/fusion.py).          *)
(*                                                                         *)
(* A unit of speech is one word.  turns[t] holds the speakers the diarizer  *)
(* has there, none for speech it missed.  A separated region gives one      *)
(* source per speaker, in the order of the speakers; sources that do not    *)
(* fit them are module OverlapHandling, whom they are given to is module    *)
(* SpeakerStages.  No word ends a sentence: that only cuts an utterance.    *)
(***************************************************************************)
EXTENDS Timeline, Sequences

CONSTANTS
    Speakers,      \* the people, as numbers from 1
    MergeGap,      \* overlap_detection.merge_gap_seconds
    MinDuration    \* overlap_detection.min_duration_seconds

ASSUME SpeakerAssumption == Speakers \subseteq Nat \ {0} /\ IsFiniteSet(Speakers)

(* OverlapDetectionConfig, of what is used here.                             *)
OverlapDetectionConfig == MergeGap \in Nat /\ MinDuration \in Nat \ {0}
ASSUME RegionAssumption == OverlapDetectionConfig

Unattributed == 0    \* the session's sink for words of nobody

(* track is the source_track, 0 for audio that was not separated.            *)
Segment == [start_ms : Nat, end_ms : Nat, speaker : Nat, track : Nat]
SegmentOf(i, speaker, track) ==
    [start_ms |-> i.start_ms, end_ms |-> i.end_ms, speaker |-> speaker, track |-> track]

(* _merge_overlap_regions over the units with several speakers.              *)
OverlapRegions(units, turns) ==
    {r \in MergeIntervals(Runs({t \in units : Cardinality(turns[t]) > 1}), MergeGap) :
        Duration(r) >= MinDuration}

(* attribute_word for the words of one call: the turn that covers most of    *)
(* the word; of several, the one of the previous word's speaker or else the  *)
(* first of the list; without a turn, _fallback_speaker_id.                  *)
AttributeWords(slice, turns) ==
    LET who[t \in Units(slice)] ==
            LET previous == IF t > slice.start_ms THEN who[t - 1] ELSE Unattributed
            IN  IF turns[t] = {} THEN Unattributed
                ELSE IF previous \in turns[t] THEN previous
                ELSE CHOOSE s \in turns[t] : TRUE
    IN  who

(* _coalesce: consecutive words of one speaker are one utterance.            *)
Coalesce(slice, turns) ==
    LET who == AttributeWords(slice, turns)
    IN  UNION {{SegmentOf(i, s, 0) : i \in Runs({t \in Units(slice) : who[t] = s})} :
                  s \in {who[t] : t \in Units(slice)}}

(* transcribe_non_overlap.                                                   *)
NonOverlap(speech, regions, turns) ==
    UNION {Coalesce(slice, turns) : slice \in Subtract(speech, regions)}

(* counting_evidence: who has a turn in the region.                          *)
ActiveIn(region, turns) == UNION {turns[t] : t \in Units(region)}

(* _Utterance: from its first word to its last.                              *)
Span(words) ==
    Interval(CHOOSE t \in words : \A u \in words : t <= u,
             1 + CHOOSE t \in words : \A u \in words : t >= u)

(* handle_overlap_region: the whole region, every source an utterance.       *)
Sources(region, turns) ==
    {SegmentOf(Span({t \in Units(region) : s \in turns[t]}), s, s) :
        s \in ActiveIn(region, turns)}

(* A finite set in the order of Less, which is total on it.                  *)
Ordered(S, Less(_, _)) ==
    [n \in 1 .. Cardinality(S) |->
        CHOOSE x \in S : Cardinality({y \in S : Less(y, x)}) = n - 1]

(* sort_segments.                                                            *)
SortKeyLess(x, y) ==
    \/ x.start_ms < y.start_ms
    \/ x.start_ms = y.start_ms /\ x.speaker < y.speaker
    \/ x.start_ms = y.start_ms /\ x.speaker = y.speaker /\ x.track < y.track

SortSegments(segments) == Ordered(segments, SortKeyLess)
=============================================================================
