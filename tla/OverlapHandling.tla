--------------------------- MODULE OverlapHandling ---------------------------
(***************************************************************************)
(* What the pipeline does with one overlap region: it counts the speakers   *)
(* and routes the region (application/overlap_router.py), cuts a long       *)
(* region into windows (_split_crop), separates and transcribes window      *)
(* after window, retries a failed separation without context and falls back *)
(* to the mixture (handle_overlap_region, application/offline_pipeline.py). *)
(*                                                                         *)
(* Times are integers in any unit.  A slice of the region is heard when its *)
(* audio reaches the recognizer; who is heard is module SpeakerStages.      *)
(***************************************************************************)
EXTENDS Integers, Sequences

CONSTANTS
    MaxCrop,      \* separation.max_crop_seconds
    Stitch,       \* separation.stitch_overlap_seconds
    Context,      \* audio.overlap_context_seconds
    Recordings,   \* bound: the recordings, as intervals
    MaxCount      \* bound: speakers the diarizer counts

Interval == [start_ms : Nat, end_ms : Nat]
Duration(i) == i.end_ms - i.start_ms

ASSUME CropAssumption == MaxCrop \in Nat /\ Stitch \in Nat /\ Stitch < MaxCrop
ASSUME ContextAssumption == Context \in Nat /\ Context <= Stitch
ASSUME RecordingAssumption ==
    Recordings \subseteq {i \in Interval : i.start_ms < i.end_ms}
ASSUME CountAssumption == MaxCount \in Nat

VARIABLES
    config,       \* feature flags, and the separators that are loaded
    recording,    \* mono
    region,       \* region.interval
    count,        \* speakers the diarizer has in it, 0 for no evidence
    pc,           \* where handle_overlap_region is
    attempt,      \* 1, or 2 for the retry
    padded,       \* what is separated
    start, owned_start,   \* _split_crop
    windows,      \* its result so far
    separated,    \* how many windows are separated and transcribed
    heard,        \* the slices that went to the recognizer
    degraded      \* the third result of handle_overlap_region

input == <<config, recording, region, count>>
loop == <<start, owned_start, windows>>
vars == <<input, pc, attempt, padded, loop, separated, heard, degraded>>

Config == [three_source_beta : BOOLEAN, research : BOOLEAN,
           separator : BOOLEAN, three_source_separator : BOOLEAN]

Lesser(a, b) == IF a <= b THEN a ELSE b
Greater(a, b) == IF a >= b THEN a ELSE b

Init ==
    /\ config \in Config
    /\ recording \in Recordings
    /\ region \in [start_ms : recording.start_ms .. recording.end_ms,
                   end_ms : recording.start_ms .. recording.end_ms]
    /\ region.start_ms < region.end_ms
    /\ count \in 0 .. MaxCount
    /\ pc = "route"
    /\ attempt = 1
    /\ padded = region
    /\ start = 0 /\ owned_start = 0 /\ windows = <<>>
    /\ separated = 0
    /\ heard = <<>>
    /\ degraded = FALSE

-----------------------------------------------------------------------------
(* The router *)

(* estimate_source_count(): no evidence counts as two.                       *)
Counted == IF count = 0 THEN 2 ELSE count

(* Mutant: three voices go through the two-source separator.                 *)
RequestedTwoForThree == IF Counted <= 3 THEN 2 ELSE 0

(* route_overlap(): how many sources are requested, 0 for none.  The         *)
(* pipeline never offers evidence of several channels or enrolled targets.   *)
Requested ==
    CASE Counted <= 2 -> 2
      [] Counted = 3 -> IF config.three_source_beta THEN 3 ELSE 0
      [] Counted \in {4, 5} -> IF config.research THEN Counted ELSE 0
      [] OTHER -> 0

(* RouteDecision.degraded *)
RouteDegraded == Requested = 0 \/ Requested >= 4

(* _separator_for() *)
SeparatorLoaded == IF Requested = 3 THEN config.three_source_separator ELSE config.separator

(* The number of sources that separator can make.                            *)
Supported == IF Requested = 3 THEN 3 ELSE 2

-----------------------------------------------------------------------------
(* The cuts *)

(* TimeInterval.pad() *)
Pad(i) ==
    [start_ms |-> Greater(recording.start_ms, i.start_ms - Context),
     end_ms |-> Lesser(recording.end_ms, i.end_ms + Context)]

(* crop_ms() *)
Crop(i, bounds) ==
    [start_ms |-> Greater(i.start_ms, bounds.start_ms),
     end_ms |-> Lesser(i.end_ms, bounds.end_ms)]

Step == Greater(MaxCrop - Stitch, 1)

StartSplit(crop) ==
    /\ pc' = "split"
    /\ padded' = crop
    /\ start' = crop.start_ms
    /\ owned_start' = region.start_ms
    /\ windows' = <<>>
    /\ separated' = 0
    /\ heard' = <<>>

(* mixture_fallback(): the whole region is transcribed as it is.             *)
Mixture ==
    /\ pc' = "mixture"
    /\ heard' = <<region>>
    /\ degraded' = TRUE
    /\ UNCHANGED <<input, attempt, padded, loop, separated>>

-----------------------------------------------------------------------------
(* handle_overlap_region *)

RouteMixture ==
    /\ pc = "route"
    /\ Requested = 0 \/ ~ config.separator \/ ~ SeparatorLoaded
    /\ Mixture

RouteSeparate ==
    /\ pc = "route"
    /\ Requested # 0 /\ config.separator /\ SeparatorLoaded
    /\ StartSplit(Pad(region))
    /\ UNCHANGED <<input, attempt, degraded>>

(* A crop that is short enough is not split.                                 *)
SplitWhole ==
    /\ pc = "split"
    /\ Duration(padded) <= MaxCrop
    /\ windows' = <<[window |-> padded, owned |-> region]>>
    /\ owned_start' = region.end_ms
    /\ pc' = "separate"
    /\ UNCHANGED <<input, attempt, padded, start, separated, heard, degraded>>

(* Mutant: a window owns all it contains, the stitch included.               *)
SplitStepOwnsWindow ==
    /\ pc = "split"
    /\ Duration(padded) > MaxCrop
    /\ LET end == Lesser(start + MaxCrop, padded.end_ms)
           owned == Crop([start_ms |-> start, end_ms |-> end], region)
       IN  /\ windows' = Append(windows, [window |-> [start_ms |-> start, end_ms |-> end],
                                          owned |-> owned])
           /\ owned_start' = owned.end_ms
           /\ IF end >= padded.end_ms
              THEN pc' = "separate" /\ UNCHANGED start
              ELSE start' = start + Step /\ UNCHANGED pc
    /\ UNCHANGED <<input, attempt, padded, separated, heard, degraded>>

(* Mutant: the loop stops when what is left is shorter than a step.          *)
SplitStepStopsEarly ==
    /\ pc = "split"
    /\ Duration(padded) > MaxCrop
    /\ LET end == Lesser(start + MaxCrop, padded.end_ms)
           owned_end == Lesser(owned_start + Step, region.end_ms)
       IN  /\ windows' = IF owned_end > owned_start
                         THEN Append(windows,
                                [window |-> [start_ms |-> start, end_ms |-> end],
                                 owned |-> [start_ms |-> owned_start, end_ms |-> owned_end]])
                         ELSE windows
           /\ owned_start' = owned_end
           /\ IF end + Step > padded.end_ms
              THEN pc' = "separate" /\ UNCHANGED start
              ELSE start' = start + Step /\ UNCHANGED pc
    /\ UNCHANGED <<input, attempt, padded, separated, heard, degraded>>

(* One turn of the loop of _split_crop.                                      *)
SplitStep ==
    /\ pc = "split"
    /\ Duration(padded) > MaxCrop
    /\ LET end == Lesser(start + MaxCrop, padded.end_ms)
           owned_end == Lesser(owned_start + Step, region.end_ms)
       IN  /\ windows' = IF owned_end > owned_start
                         THEN Append(windows,
                                [window |-> [start_ms |-> start, end_ms |-> end],
                                 owned |-> [start_ms |-> owned_start, end_ms |-> owned_end]])
                         ELSE windows
           /\ owned_start' = owned_end
           /\ IF end >= padded.end_ms
              THEN pc' = "separate" /\ UNCHANGED start
              ELSE start' = start + Step /\ UNCHANGED pc
    /\ UNCHANGED <<input, attempt, padded, separated, heard, degraded>>

(* One window of separate_and_link: its sources are transcribed over the     *)
(* slice it owns.                                                            *)
SeparateWindow ==
    /\ pc = "separate"
    /\ Requested = Supported
    /\ LET w == windows[separated + 1]
       IN  heard' = Append(heard, Crop(w.owned, w.window))
    /\ separated' = separated + 1
    /\ IF separated + 1 = Len(windows)
       THEN pc' = "separated" /\ degraded' = RouteDegraded
       ELSE UNCHANGED <<pc, degraded>>
    /\ UNCHANGED <<input, attempt, padded, loop>>

(* The text of a source is impossible for its speech: the region is          *)
(* transcribed as a mixture, whatever the windows before it gave.            *)
SourceImplausible ==
    /\ pc = "separate"
    /\ Requested = Supported
    /\ Mixture

(* Mutant: the separation is tried again and again.                          *)
SeparationFailsForever ==
    /\ pc = "separate"
    /\ StartSplit(region)
    /\ UNCHANGED <<input, attempt, degraded>>

(* SeparationFailedError, from the model or for a count it does not          *)
(* support: once more with a smaller crop, then the mixture.                 *)
SeparationFails ==
    /\ pc = "separate"
    /\ \/ /\ attempt = 1
          /\ attempt' = 2
          /\ StartSplit(region)
          /\ UNCHANGED <<input, degraded>>
       \/ /\ attempt = 2
          /\ Mixture

Done == pc \in {"separated", "mixture"}

Next ==
    \/ RouteMixture
    \/ RouteSeparate
    \/ SplitWhole
    \/ SplitStep
    \/ SeparateWindow
    \/ SourceImplausible
    \/ SeparationFails

Spec == Init /\ [][Next]_vars

(* One thread runs the job to its end.                                       *)
FairSpec == Spec /\ WF_vars(Next)

-----------------------------------------------------------------------------
Slice == [window : Interval, owned : Interval]

(* Every variable keeps its type.                                            *)
TypeOK ==
    /\ config \in Config
    /\ recording \in Interval /\ region \in Interval /\ padded \in Interval
    /\ count \in Nat
    /\ pc \in {"route", "split", "separate", "separated", "mixture"}
    /\ attempt \in {1, 2}
    /\ start \in Nat /\ owned_start \in Nat
    /\ windows \in Seq(Slice)
    /\ separated \in 0 .. Len(windows)
    /\ heard \in Seq(Interval)
    /\ degraded \in BOOLEAN

HeardUntil == IF heard = <<>> THEN region.start_ms ELSE heard[Len(heard)].end_ms

(* The slices that are transcribed follow each other without a gap from the  *)
(* start of the region, so no word of it is emitted twice by two windows.    *)
HeardOnce ==
    \A i \in 1 .. Len(heard) :
        /\ heard[i].start_ms < heard[i].end_ms
        /\ heard[i].start_ms = IF i = 1 THEN region.start_ms ELSE heard[i - 1].end_ms

(* What is lost at the end of a region is at most the stitch overlap that    *)
(* the padding does not make up for: nothing, when the crop has as much      *)
(* context as the windows share.                                             *)
LossBounded ==
    Done => region.end_ms - HeardUntil
                <= Greater(0, Stitch - (Duration(padded) - Duration(region)))

(* A region is presented as separated only when the separator made as many   *)
(* sources as speakers were counted in it, and is marked degraded otherwise. *)
NeverForced ==
    /\ pc = "separated" => Supported >= Counted
    /\ pc = "mixture" => degraded

(* Every region is finished, whatever fails.                                 *)
RegionHandled == <>Done
=============================================================================
