------------------------ MODULE OverlapHandlingProofs ------------------------
(***************************************************************************)
(* Proofs about the handling of one overlap region, for every crop length,  *)
(* stitch overlap, context and recording: the slices that are transcribed   *)
(* never overlap, the loss at the end of a region is bounded, and speech is *)
(* never presented as separated into fewer sources than were counted.  And   *)
(* about the linking of the separated sources, in the second half.          *)
(***************************************************************************)
EXTENDS OverlapHandling, SourceLinking, FiniteSetTheorems, SequenceTheorems,
        NaturalsInduction, WellFoundedInduction, TLAPS

(* The owned slices of a list of windows cut the region from its start, and  *)
(* every window contains what it owns.                                       *)
Tiles(list) ==
    \A i \in 1 .. Len(list) :
        /\ list[i].owned.start_ms < list[i].owned.end_ms
        /\ list[i].owned.start_ms = IF i = 1 THEN region.start_ms
                                    ELSE list[i - 1].owned.end_ms
        /\ list[i].window.start_ms <= list[i].owned.start_ms
        /\ list[i].owned.end_ms <= list[i].window.end_ms

(* Where the cut has come to.                                                *)
TiledUntil(list) == IF list = <<>> THEN region.start_ms ELSE list[Len(list)].owned.end_ms

(* What the end of a region may lose.                                        *)
Slack == Greater(0, Stitch - (Duration(padded) - Duration(region)))

(* The region lies in its recording.                                         *)
InputInv ==
    /\ region.start_ms < region.end_ms
    /\ recording.start_ms <= region.start_ms
    /\ region.end_ms <= recording.end_ms

(* The crop contains the region, with at most the context before it.         *)
CropInv ==
    /\ padded.start_ms <= region.start_ms
    /\ region.start_ms <= padded.start_ms + Context
    /\ region.end_ms <= padded.end_ms

(* The loop of _split_crop: owned_start runs with start until the region     *)
(* ends.                                                                     *)
LoopInv ==
    /\ Tiles(windows)
    /\ owned_start = TiledUntil(windows)
    /\ padded.start_ms <= start
    /\ owned_start = Lesser(region.end_ms, region.start_ms + (start - padded.start_ms))
    /\ heard = <<>>
    /\ separated = 0

(* The windows are complete; each one separated has been heard.              *)
SplitInv ==
    /\ Tiles(windows)
    /\ owned_start = TiledUntil(windows)
    /\ region.end_ms - owned_start <= Slack
    /\ Len(heard) = separated
    /\ \A i \in 1 .. separated : heard[i] = windows[i].owned

(* The inductive invariant.                                                  *)
IInv ==
    /\ TypeOK
    /\ InputInv
    /\ pc = "route" => heard = <<>>
    /\ pc \in {"split", "separate", "separated"} => CropInv
    /\ pc = "split" => LoopInv
    /\ pc \in {"separate", "separated"} => SplitInv
    /\ pc = "separate" => separated < Len(windows)
    /\ pc = "separated" => separated = Len(windows) /\ separated > 0
    /\ pc = "mixture" => heard = <<region>>

-----------------------------------------------------------------------------
(* Lemmas *)

(* The validator of SeparationConfig makes every step at least one.          *)
LEMMA StepSize == Step = MaxCrop - Stitch /\ Step \in Nat \ {0}
  BY CropAssumption DEF Step, Greater

(* The last window reaches the end of the crop.                              *)
LEMMA LossArithmetic ==
    ASSUME NEW from \in Nat, NEW to \in Nat, NEW left \in Nat, NEW right \in Nat,
           NEW at \in Nat, NEW reached \in Nat,
           at + MaxCrop >= right,
           reached = from + (at - left) + Step
    PROVE  to - reached <= Stitch - ((right - left) - (to - from))
  BY StepSize, CropAssumption

(* One more window that continues the cut.                                   *)
LEMMA TilesAppend ==
    ASSUME NEW list \in Seq(Slice), Tiles(list), NEW w \in Slice,
           w.owned.start_ms = TiledUntil(list),
           w.owned.start_ms < w.owned.end_ms,
           w.window.start_ms <= w.owned.start_ms,
           w.owned.end_ms <= w.window.end_ms
    PROVE  /\ Append(list, w) \in Seq(Slice)
           /\ Len(Append(list, w)) = Len(list) + 1
           /\ Tiles(Append(list, w))
           /\ TiledUntil(Append(list, w)) = w.owned.end_ms
<1> DEFINE longer == Append(list, w)
<1>1. /\ longer \in Seq(Slice)
      /\ Len(longer) = Len(list) + 1
      /\ \A i \in 1 .. Len(list) : longer[i] = list[i]
      /\ longer[Len(list) + 1] = w
      /\ longer # <<>>
  BY AppendProperties
<1>2. Len(list) \in Nat
  OBVIOUS
<1> HIDE DEF longer
<1>3. ASSUME NEW i \in 1 .. Len(longer)
      PROVE  /\ longer[i].owned.start_ms < longer[i].owned.end_ms
             /\ longer[i].owned.start_ms = IF i = 1 THEN region.start_ms
                                            ELSE longer[i - 1].owned.end_ms
             /\ longer[i].window.start_ms <= longer[i].owned.start_ms
             /\ longer[i].owned.end_ms <= longer[i].window.end_ms
  <2>1. CASE i <= Len(list)
    <3>1. i \in 1 .. Len(list) /\ longer[i] = list[i]
      BY <2>1, <1>1, <1>2
    <3>2. i # 1 => longer[i - 1] = list[i - 1]
      BY <3>1, <1>1, <1>2
    <3>3. QED
      BY <3>1, <3>2 DEF Tiles
  <2>2. CASE i = Len(list) + 1
    <3>1. longer[i] = w
      BY <2>2, <1>1
    <3>2. i # 1 => list # <<>> /\ longer[i - 1] = list[Len(list)]
      BY <2>2, <1>1, <1>2
    <3>3. i = 1 => list = <<>>
      BY <2>2, <1>2, EmptySeq
    <3>4. QED
      BY <3>1, <3>2, <3>3 DEF TiledUntil
  <2>3. QED
    BY <2>1, <2>2, <1>1, <1>2
<1>4. Tiles(longer)
  BY <1>3 DEF Tiles
<1>5. TiledUntil(longer) = w.owned.end_ms
  BY <1>1 DEF TiledUntil
<1>6. QED
  BY <1>1, <1>4, <1>5 DEF longer

(* A window hears the whole slice it owns.                                   *)
LEMMA CropInside ==
    ASSUME NEW w \in Slice,
           w.window.start_ms <= w.owned.start_ms,
           w.owned.end_ms <= w.window.end_ms
    PROVE  Crop(w.owned, w.window) = w.owned
  BY DEF Crop, Greater, Lesser, Slice, Interval

(* The mixture, from wherever it is reached.                                 *)
LEMMA MixtureKeeps ==
    ASSUME IInv, Mixture
    PROVE  IInv'
<1>1. UNCHANGED <<input, attempt, padded, loop, separated>> /\ pc' = "mixture"
      /\ heard' = <<region>> /\ degraded' = TRUE
  BY DEF Mixture
<1>2. <<region>> \in Seq(Interval)
  BY DEF IInv, TypeOK
<1>3. TypeOK'
  BY <1>1, <1>2 DEF IInv, TypeOK, input, loop
<1>4. InputInv'
  BY <1>1 DEF IInv, InputInv, input
<1>5. QED
  BY <1>1, <1>3, <1>4 DEF IInv, input

(* The start of a split, with context or without.                            *)
LEMMA StartSplitKeeps ==
    ASSUME IInv, NEW crop \in Interval, StartSplit(crop),
           UNCHANGED <<input, degraded>>, attempt' \in {1, 2},
           crop.start_ms <= region.start_ms,
           region.start_ms <= crop.start_ms + Context,
           region.end_ms <= crop.end_ms
    PROVE  IInv'
<1>1. /\ pc' = "split" /\ padded' = crop /\ start' = crop.start_ms
      /\ owned_start' = region.start_ms /\ windows' = <<>> /\ separated' = 0 /\ heard' = <<>>
  BY DEF StartSplit
<1>2. TypeOK'
  BY <1>1 DEF IInv, TypeOK, input, Interval
<1>3. InputInv' /\ CropInv'
  BY <1>1 DEF IInv, InputInv, CropInv, input
<1>4. Tiles(windows)' /\ TiledUntil(windows)' = region.start_ms
  BY <1>1 DEF Tiles, TiledUntil, input
<1>5. owned_start' = Lesser(region.end_ms, region.start_ms + (start - padded.start_ms))'
  BY <1>1 DEF Lesser, IInv, InputInv, TypeOK, Interval, input
<1>6. LoopInv'
  BY <1>1, <1>4, <1>5 DEF LoopInv, Interval
<1>7. QED
  BY <1>1, <1>2, <1>3, <1>6 DEF IInv

-----------------------------------------------------------------------------
(* One lemma per action *)

(* The padded crop is clamped to the recording, which contains the region.   *)
LEMMA RouteSeparateKeeps == IInv /\ RouteSeparate => IInv'
<1> SUFFICES ASSUME IInv, RouteSeparate PROVE IInv'
  OBVIOUS
<1> DEFINE crop == Pad(region)
<1>1. StartSplit(crop) /\ UNCHANGED <<input, attempt, degraded>>
  BY DEF RouteSeparate
<1>2. /\ crop \in Interval
      /\ crop.start_ms <= region.start_ms
      /\ region.start_ms <= crop.start_ms + Context
      /\ region.end_ms <= crop.end_ms
  <2>1. /\ region.start_ms \in Nat /\ region.end_ms \in Nat
        /\ recording.start_ms \in Nat /\ recording.end_ms \in Nat
        /\ recording.start_ms <= region.start_ms /\ region.end_ms <= recording.end_ms
    BY DEF IInv, InputInv, TypeOK, Interval
  <2>2. crop = [start_ms |-> Greater(recording.start_ms, region.start_ms - Context),
                end_ms |-> Lesser(recording.end_ms, region.end_ms + Context)]
    BY <2>1, ContextAssumption DEF Pad, Greater, Lesser
  <2>3. QED
    BY <2>1, <2>2, ContextAssumption DEF Greater, Lesser, Interval
<1>3. attempt' \in {1, 2}
  BY <1>1 DEF IInv, TypeOK
<1> HIDE DEF crop
<1>4. QED
  BY <1>1, <1>2, <1>3, StartSplitKeeps

(* The retry, and the mixture after it.                                      *)
LEMMA SeparationFailsKeeps == IInv /\ SeparationFails => IInv'
<1> SUFFICES ASSUME IInv, SeparationFails PROVE IInv'
  OBVIOUS
<1>1. CASE Mixture
  BY <1>1, MixtureKeeps
<1>2. CASE attempt' = 2 /\ StartSplit(region) /\ UNCHANGED <<input, degraded>>
  <2>1. region \in Interval /\ region.start_ms <= region.start_ms + Context
        /\ region.start_ms <= region.start_ms /\ region.end_ms <= region.end_ms
    BY ContextAssumption DEF IInv, TypeOK, Interval
  <2>2. QED
    BY <1>2, <2>1, StartSplitKeeps
<1>3. QED
  BY <1>1, <1>2 DEF SeparationFails

(* A crop that is not split has one window, which owns the region.           *)
LEMMA SplitWholeKeeps == IInv /\ SplitWhole => IInv'
<1> SUFFICES ASSUME IInv, SplitWhole PROVE IInv'
  OBVIOUS
<1> DEFINE w == [window |-> padded, owned |-> region]
<1>1. /\ pc = "split" /\ pc' = "separate" /\ windows' = <<w>>
      /\ owned_start' = region.end_ms
      /\ UNCHANGED <<config, recording, region, count, attempt, padded, start, separated,
                     heard, degraded>>
  BY DEF SplitWhole, input
<1>2. /\ CropInv /\ LoopInv /\ region \in Interval /\ padded \in Interval
      /\ region.start_ms < region.end_ms
  BY <1>1 DEF IInv, TypeOK, InputInv
<1>3. w \in Slice /\ <<w>> \in Seq(Slice) /\ Len(<<w>>) = 1 /\ <<w>>[1] = w /\ <<w>> # <<>>
  BY <1>2 DEF Slice
<1>4. heard = <<>> /\ separated = 0
  BY <1>2 DEF LoopInv
<1>5. TypeOK'
  BY <1>1, <1>2, <1>3, <1>4 DEF IInv, TypeOK, Interval
<1>6. InputInv' /\ CropInv'
  BY <1>1, <1>2 DEF IInv, InputInv, CropInv
<1>7. Tiles(windows)' /\ TiledUntil(windows)' = region.end_ms
  <2>1. Tiles(<<w>>)
    BY <1>2, <1>3 DEF Tiles, CropInv
  <2>2. TiledUntil(<<w>>) = region.end_ms
    BY <1>3 DEF TiledUntil
  <2>3. QED
    BY <1>1, <2>1, <2>2 DEF Tiles, TiledUntil
<1>8. region'.end_ms - owned_start' <= Slack'
  BY <1>1, <1>2, CropAssumption DEF Slack, Greater, Duration, Interval
<1>9. SplitInv'
  BY <1>1, <1>4, <1>7, <1>8 DEF SplitInv
<1>10. QED
  BY <1>1, <1>3, <1>4, <1>5, <1>6, <1>9 DEF IInv

(* One turn of the loop.                                                     *)
LEMMA SplitStepKeeps == IInv /\ SplitStep => IInv'
<1> SUFFICES ASSUME IInv, SplitStep PROVE IInv'
  OBVIOUS
<1> DEFINE end == Lesser(start + MaxCrop, padded.end_ms)
           owned_end == Lesser(owned_start + Step, region.end_ms)
           w == [window |-> [start_ms |-> start, end_ms |-> end],
                 owned |-> [start_ms |-> owned_start, end_ms |-> owned_end]]
<1>1. /\ pc = "split" /\ Duration(padded) > MaxCrop
      /\ windows' = IF owned_end > owned_start THEN Append(windows, w) ELSE windows
      /\ owned_start' = owned_end
      /\ UNCHANGED <<config, recording, region, count, attempt, padded, separated,
                     heard, degraded>>
  BY DEF SplitStep, input
<1>2. \/ end >= padded.end_ms /\ pc' = "separate" /\ start' = start
      \/ ~ (end >= padded.end_ms) /\ start' = start + Step /\ pc' = "split"
  BY <1>1 DEF SplitStep
<1>3. /\ CropInv /\ LoopInv /\ InputInv
      /\ region \in Interval /\ padded \in Interval
      /\ start \in Nat /\ owned_start \in Nat /\ windows \in Seq(Slice)
  BY <1>1 DEF IInv, TypeOK
<1>4. /\ region.start_ms \in Nat /\ region.end_ms \in Nat
      /\ padded.start_ms \in Nat /\ padded.end_ms \in Nat
      /\ MaxCrop \in Nat /\ Stitch \in Nat /\ Context \in Nat
      /\ Stitch < MaxCrop /\ Context <= Stitch
      /\ Step = MaxCrop - Stitch /\ Step \in Nat \ {0}
  BY <1>3, CropAssumption, ContextAssumption, StepSize DEF Interval
<1>5. /\ owned_start <= region.end_ms
      /\ owned_start <= region.start_ms + (start - padded.start_ms)
      /\ owned_start < region.end_ms => owned_start = region.start_ms + (start - padded.start_ms)
  BY <1>3, <1>4 DEF LoopInv, Lesser
<1>6. /\ end \in Nat /\ owned_end \in Nat
      /\ owned_end <= region.end_ms
      /\ owned_start <= owned_end
      /\ owned_end > owned_start => start <= owned_start
      /\ owned_end > owned_start => owned_end <= end
  <2>1. /\ end \in Nat
        /\ end = start + MaxCrop \/ end = padded.end_ms
        /\ owned_end \in Nat
        /\ owned_end <= owned_start + Step
        /\ owned_end <= region.end_ms
        /\ owned_start <= owned_end
    BY <1>3, <1>4, <1>5 DEF Lesser
  <2>2. /\ padded.start_ms <= region.start_ms
        /\ region.start_ms <= padded.start_ms + Context
        /\ region.end_ms <= padded.end_ms
    BY <1>3 DEF CropInv
  <2>3. ASSUME owned_end > owned_start PROVE start <= owned_start /\ owned_end <= end
    <3>1. owned_start < region.end_ms
      BY <2>1, <2>3, <1>3, <1>4
    <3>2. owned_start = region.start_ms + (start - padded.start_ms)
      BY <3>1, <1>5
    <3>3. start <= owned_start /\ owned_start <= start + Context
      BY <3>2, <2>2, <1>3, <1>4, ContextAssumption
    <3> HIDE DEF end, owned_end
    <3>4. QED
      BY <3>3, <2>1, <2>2, <1>3, <1>4, ContextAssumption
  <2>4. QED
    BY <2>1, <2>3
<1>7. windows' \in Seq(Slice) /\ Tiles(windows)' /\ TiledUntil(windows)' = owned_end
  <2>1. CASE owned_end > owned_start
    <3>1. w \in Slice
      BY <1>3, <1>6 DEF Slice, Interval
    <3>2. /\ w.owned.start_ms = TiledUntil(windows)
          /\ w.owned.start_ms < w.owned.end_ms
          /\ w.window.start_ms <= w.owned.start_ms
          /\ w.owned.end_ms <= w.window.end_ms
      BY <2>1, <1>3, <1>6 DEF LoopInv
    <3>3. w.owned.end_ms = owned_end
      OBVIOUS
    <3>4. windows' = Append(windows, w)
      BY <2>1, <1>1
    <3> HIDE DEF w
    <3>5. /\ Append(windows, w) \in Seq(Slice)
          /\ Tiles(Append(windows, w))
          /\ TiledUntil(Append(windows, w)) = w.owned.end_ms
      BY <3>1, <3>2, <1>3, TilesAppend DEF LoopInv
    <3>6. QED
      BY <3>3, <3>4, <3>5, <1>1 DEF Tiles, TiledUntil
  <2>2. CASE ~ (owned_end > owned_start)
    <3>1. windows' = windows /\ owned_end = owned_start
      BY <2>2, <1>1, <1>3, <1>6
    <3>2. QED
      BY <3>1, <1>1, <1>3 DEF LoopInv, Tiles, TiledUntil
  <2>3. QED
    BY <2>1, <2>2
<1>8. windows' # <<>>
  <2>1. CASE windows = <<>>
    <3>1. owned_start = region.start_ms
      BY <2>1, <1>3 DEF LoopInv, TiledUntil
    <3>2. owned_end > owned_start
      BY <3>1, <1>3, <1>4 DEF InputInv, Lesser
    <3>3. QED
      BY <3>2, <1>1, <1>3, AppendProperties
  <2>2. CASE windows # <<>>
    BY <2>2, <1>1, <1>3, AppendProperties
  <2>3. QED
    BY <2>1, <2>2
<1>9. heard = <<>> /\ separated = 0
  BY <1>3 DEF LoopInv
<1>10. Len(windows') \in Nat \ {0}
  BY <1>7, <1>8, EmptySeq, LenProperties
<1>a. \/ owned_end = region.end_ms
      \/ /\ owned_end = region.start_ms + (start - padded.start_ms) + Step
         /\ owned_end <= region.end_ms
  BY <1>4, <1>5, <1>6, <1>3 DEF Lesser
<1>b. end >= padded.end_ms => start + MaxCrop >= padded.end_ms
  BY <1>3, <1>4 DEF Lesser
<1>c. region.start_ms + (start - padded.start_ms) + Step >= owned_end
  BY <1>3, <1>4, <1>5, <1>6 DEF Lesser
<1> HIDE DEF w, end, owned_end
<1>11. TypeOK'
  BY <1>1, <1>2, <1>3, <1>4, <1>6, <1>7, <1>9, <1>10 DEF IInv, TypeOK
<1>12. InputInv' /\ CropInv'
  BY <1>1, <1>3 DEF InputInv, CropInv
<1>13. CASE pc' = "separate"
  <2>1. end >= padded.end_ms /\ start' = start
    BY <1>2, <1>13
  <2>2. start + MaxCrop >= padded.end_ms
    BY <2>1, <1>b
  <2>3. region.end_ms - owned_end <= Slack
    <3>1. region.end_ms - owned_end <= 0
            \/ region.end_ms - owned_end <= Stitch - (Duration(padded) - Duration(region))
      <4>1. CASE owned_end = region.end_ms
        BY <4>1, <1>4
      <4>2. CASE owned_end = region.start_ms + (start - padded.start_ms) + Step
        <5>1. region.end_ms - owned_end
                <= Stitch - ((padded.end_ms - padded.start_ms)
                                - (region.end_ms - region.start_ms))
          BY <4>2, <2>2, <1>3, <1>4, <1>6, LossArithmetic, Zenon
        <5>2. QED
          BY <5>1 DEF Duration
      <4>3. QED
        BY <4>1, <4>2, <1>a
    <3>2. QED
      BY <3>1, <1>3, <1>4, <1>6 DEF Slack, Greater, Duration
  <2>4. region'.end_ms - owned_start' <= Slack'
    BY <2>3, <1>1 DEF Slack
  <2>5. SplitInv'
    BY <2>4, <1>1, <1>7, <1>9 DEF SplitInv
  <2>6. QED
    BY <2>5, <1>1, <1>9, <1>10, <1>11, <1>12, <1>13 DEF IInv
<1>14. CASE pc' = "split"
  <2>1. start' = start + Step
    BY <1>2, <1>14
  <2>2. owned_end = Lesser(region.end_ms, region.start_ms + (start + Step - padded.start_ms))
    <3> DEFINE bound == region.start_ms + (start + Step - padded.start_ms)
    <3>1. bound \in Int /\ bound = region.start_ms + (start - padded.start_ms) + Step
      BY <1>3, <1>4
    <3>2. bound >= owned_end
      BY <3>1, <1>c
    <3>3. \/ owned_end = region.end_ms
          \/ owned_end = bound /\ owned_end <= region.end_ms
      BY <3>1, <1>a
    <3> HIDE DEF bound
    <3>4. owned_end = Lesser(region.end_ms, bound)
      BY <3>1, <3>2, <3>3, <1>4, <1>6 DEF Lesser
    <3>5. QED
      BY <3>4 DEF bound
  <2>3. owned_start' = Lesser(region.end_ms, region.start_ms + (start - padded.start_ms))'
    <3>1. region' = region /\ padded' = padded /\ owned_start' = owned_end
      BY <1>1
    <3>2. QED
      BY <2>1, <2>2, <3>1, <1>3, <1>4 DEF Lesser
  <2>4. padded'.start_ms <= start'
    BY <2>1, <1>1, <1>3, <1>4 DEF LoopInv
  <2>5. LoopInv'
    BY <2>3, <2>4, <1>1, <1>7, <1>9 DEF LoopInv
  <2>6. QED
    BY <2>5, <1>11, <1>12, <1>14 DEF IInv
<1>15. QED
  BY <1>2, <1>13, <1>14

(* One more window heard: exactly the slice it owns.                         *)
LEMMA SeparateWindowKeeps == IInv /\ SeparateWindow => IInv'
<1> SUFFICES ASSUME IInv, SeparateWindow PROVE IInv'
  OBVIOUS
<1> DEFINE w == windows[separated + 1]
<1>1. /\ pc = "separate" /\ heard' = Append(heard, Crop(w.owned, w.window))
      /\ separated' = separated + 1
      /\ UNCHANGED <<config, recording, region, count, attempt, padded, start, owned_start,
                     windows>>
  BY DEF SeparateWindow, input, loop
<1>2. \/ separated + 1 = Len(windows) /\ pc' = "separated" /\ degraded' = RouteDegraded
      \/ separated + 1 # Len(windows) /\ pc' = "separate" /\ degraded' = degraded
  BY <1>1 DEF SeparateWindow
<1>3. /\ CropInv /\ SplitInv /\ InputInv
      /\ separated \in Nat /\ separated < Len(windows)
      /\ windows \in Seq(Slice) /\ heard \in Seq(Interval) /\ Len(windows) \in Nat
  BY <1>1 DEF IInv, TypeOK
<1>4. separated + 1 \in 1 .. Len(windows)
  BY <1>3
<1>5. w \in Slice
  BY <1>3, <1>4, ElementOfSeq
<1>6. w.window.start_ms <= w.owned.start_ms /\ w.owned.end_ms <= w.window.end_ms
  BY <1>3, <1>4 DEF SplitInv, Tiles
<1> HIDE DEF w
<1>7. Crop(w.owned, w.window) = w.owned
  BY <1>5, <1>6, CropInside
<1>8. heard' = Append(heard, w.owned) /\ w.owned \in Interval
  BY <1>1, <1>5, <1>7 DEF Slice
<1>9. /\ heard' \in Seq(Interval) /\ Len(heard') = Len(heard) + 1
      /\ \A i \in 1 .. Len(heard) : heard'[i] = heard[i]
      /\ heard'[Len(heard) + 1] = w.owned
  BY <1>3, <1>8, AppendProperties
<1>10. Len(heard') = separated'
  BY <1>1, <1>3, <1>9 DEF SplitInv
<1>11. \A i \in 1 .. separated' : heard'[i] = windows'[i].owned
  BY <1>1, <1>3, <1>9 DEF SplitInv, w
<1>12. SplitInv'
  BY <1>1, <1>3, <1>10, <1>11 DEF SplitInv, Tiles, TiledUntil, Slack
<1>13. degraded' \in BOOLEAN
  BY <1>2 DEF IInv, TypeOK, RouteDegraded
<1>14. TypeOK'
  BY <1>1, <1>2, <1>3, <1>4, <1>9, <1>13 DEF IInv, TypeOK
<1>15. InputInv' /\ CropInv'
  BY <1>1, <1>3 DEF InputInv, CropInv
<1>16. QED
  BY <1>1, <1>2, <1>3, <1>12, <1>14, <1>15 DEF IInv

-----------------------------------------------------------------------------
(* A region begins inside its recording.                                     *)
LEMMA InitKeeps == Init => IInv
<1> SUFFICES ASSUME Init PROVE IInv
  OBVIOUS
<1>1. recording \in Interval
  BY RecordingAssumption DEF Init
<1>2. region \in Interval /\ InputInv
  BY <1>1 DEF Init, InputInv, Interval
<1>3. TypeOK
  <2>1. count \in Nat /\ start \in Nat /\ owned_start \in Nat /\ attempt \in {1, 2}
    BY CountAssumption DEF Init
  <2>2. windows \in Seq(Slice) /\ heard \in Seq(Interval) /\ separated \in 0 .. Len(windows)
    BY DEF Init
  <2>3. QED
    BY <1>1, <1>2, <2>1, <2>2 DEF Init, TypeOK
<1>4. QED
  BY <1>2, <1>3 DEF Init, IInv

(* Every step keeps the invariant.                                           *)
LEMMA NextKeeps == IInv /\ [Next]_vars => IInv'
<1> SUFFICES ASSUME IInv, [Next]_vars PROVE IInv'
  OBVIOUS
<1>1. CASE RouteMixture \/ SourceImplausible
  BY <1>1, MixtureKeeps DEF RouteMixture, SourceImplausible
<1>2. CASE UNCHANGED vars
  BY <1>2 DEF vars, input, loop, IInv, TypeOK, InputInv, CropInv, LoopInv, SplitInv,
              Tiles, TiledUntil, Slack
<1>3. QED
  BY <1>1, <1>2, RouteSeparateKeeps, SplitWholeKeeps, SplitStepKeeps, SeparateWindowKeeps,
     SeparationFailsKeeps DEF Next

(* What was heard is a prefix of the cut, or the whole region at once.       *)
LEMMA HeardFromInv == IInv => HeardOnce
<1> SUFFICES ASSUME IInv, NEW i \in 1 .. Len(heard)
             PROVE  /\ heard[i].start_ms < heard[i].end_ms
                    /\ heard[i].start_ms = IF i = 1 THEN region.start_ms
                                           ELSE heard[i - 1].end_ms
  BY DEF HeardOnce
<1>1. CASE pc \in {"separate", "separated"}
  <2>1. /\ Tiles(windows) /\ Len(heard) = separated /\ separated \in 0 .. Len(windows)
        /\ \A j \in 1 .. separated : heard[j] = windows[j].owned
        /\ Len(windows) \in Nat
    BY <1>1 DEF IInv, SplitInv, TypeOK
  <2>2. i \in 1 .. Len(windows) /\ heard[i] = windows[i].owned
    BY <2>1
  <2>3. i # 1 => heard[i - 1] = windows[i - 1].owned
    BY <2>1
  <2>4. QED
    BY <2>1, <2>2, <2>3 DEF Tiles
<1>2. CASE pc = "mixture"
  <2>1. heard = <<region>> /\ region.start_ms < region.end_ms
    BY <1>2 DEF IInv, InputInv
  <2>2. i = 1 /\ heard[i] = region
    BY <2>1
  <2>3. QED
    BY <2>1, <2>2
<1>3. CASE pc \in {"split", "route"}
  <2>1. heard = <<>>
    BY <1>3 DEF IInv, LoopInv
  <2>2. QED
    BY <2>1
<1>4. QED
  BY <1>1, <1>2, <1>3 DEF IInv, TypeOK

(* What is not heard at the end is what the cut left over.                   *)
LEMMA LossFromInv == IInv => LossBounded
<1> SUFFICES ASSUME IInv, Done
             PROVE  region.end_ms - HeardUntil <= Slack
  BY DEF LossBounded, Slack
<1>1. /\ region \in Interval /\ padded \in Interval /\ Stitch \in Nat
      /\ region.end_ms \in Nat
  BY CropAssumption DEF IInv, TypeOK, Interval
<1>2. CASE pc = "separated"
  <2>1. /\ SplitInv /\ separated = Len(windows) /\ separated > 0 /\ Len(windows) \in Nat
    BY <1>2 DEF IInv, TypeOK
  <2>2. heard[separated] = windows[separated].owned
    BY <2>1 DEF SplitInv
  <2>3. heard # <<>> /\ windows # <<>> /\ Len(heard) = separated
    BY <2>1 DEF SplitInv
  <2>4. HeardUntil = TiledUntil(windows)
    BY <2>1, <2>2, <2>3 DEF HeardUntil, TiledUntil
  <2>5. QED
    BY <2>1, <2>4 DEF SplitInv
<1>3. CASE pc = "mixture"
  <2>1. heard = <<region>>
    BY <1>3 DEF IInv
  <2>2. HeardUntil = region.end_ms
    BY <2>1 DEF HeardUntil
  <2>3. QED
    BY <2>2, <1>1 DEF Slack, Greater, Duration, Interval
<1>4. QED
  BY <1>2, <1>3 DEF Done

-----------------------------------------------------------------------------
(* No moment of a region is transcribed by two windows, and none between two *)
(* windows is left out, whatever is retried (_split_crop).                   *)
THEOREM SlicesDisjoint == Spec => []HeardOnce
  BY InitKeeps, NextKeeps, HeardFromInv, PTL DEF Spec

(* For every crop length, stitch overlap and context, a region loses at most *)
(* the part of the stitch overlap that its padding does not make up for      *)
(* (_split_crop, handle_overlap_region).                                     *)
THEOREM LossIsBounded == Spec => []LossBounded
  BY InitKeeps, NextKeeps, LossFromInv, PTL DEF Spec
-----------------------------------------------------------------------------
(* A region is separated only by a separator that makes as many sources as   *)
(* were requested, and left to the mixture only with the flag.               *)
RouteInv ==
    /\ pc = "separated" => Requested = Supported
    /\ pc = "mixture" => degraded

(* A request the separator can meet is for no fewer sources than speakers    *)
(* were counted: route_overlap never rounds the count down.                  *)
LEMMA EnoughSources == ASSUME count \in Nat, Requested = Supported
                       PROVE  Supported >= Counted
<1>1. Counted \in Nat
  BY DEF Counted
<1>2. CASE Counted <= 2
  BY <1>1, <1>2 DEF Supported
<1>3. CASE Counted = 3
  BY <1>3 DEF Requested, Supported
<1>4. CASE Counted > 3
  <2>1. Requested # 2 /\ Requested # 3
    BY <1>1, <1>4 DEF Requested
  <2>2. QED
    BY <2>1 DEF Supported
<1>5. QED
  BY <1>1, <1>2, <1>3, <1>4

(* Every step keeps what the answer says of the separation.                  *)
LEMMA RouteKeeps == RouteInv /\ [Next]_vars => RouteInv'
<1> SUFFICES ASSUME RouteInv, [Next]_vars PROVE RouteInv'
  OBVIOUS
<1>1. CASE Mixture
  BY <1>1 DEF Mixture, RouteInv
<1>2. CASE pc' \notin {"separated", "mixture"}
  BY <1>2 DEF RouteInv
<1>3. CASE SeparateWindow
  <2>1. Requested = Supported /\ Requested' = Requested /\ Supported' = Supported
    BY <1>3 DEF SeparateWindow, input, Requested, Supported, Counted
  <2>2. pc' # "mixture"
    BY <1>3 DEF SeparateWindow
  <2>3. QED
    BY <2>1, <2>2 DEF RouteInv
<1>4. CASE UNCHANGED vars
  BY <1>4 DEF RouteInv, vars, input, Requested, Supported, Counted
<1>5. QED
  <2>1. RouteSeparate \/ SplitWhole \/ SplitStep => pc' \notin {"separated", "mixture"}
    BY DEF RouteSeparate, StartSplit, SplitWhole, SplitStep
  <2>2. SeparationFails => pc' \notin {"separated", "mixture"} \/ Mixture
    BY DEF SeparationFails, StartSplit
  <2>3. RouteMixture \/ SourceImplausible => Mixture
    BY DEF RouteMixture, SourceImplausible
  <2>4. QED
    BY <1>1, <1>2, <1>3, <1>4, <2>1, <2>2, <2>3 DEF Next

(* Whatever the diarizer counts and whichever separators are loaded, speech  *)
(* of more people is never presented as separated into fewer sources, and    *)
(* the mixture is always marked (route_overlap, handle_overlap_region).      *)
THEOREM SeparationNeverForced == Spec => []NeverForced
<1>1. Init => RouteInv
  BY DEF Init, RouteInv
<1>2. IInv /\ RouteInv => NeverForced
  BY EnoughSources DEF IInv, TypeOK, RouteInv, NeverForced
<1>3. QED
  BY <1>1, <1>2, InitKeeps, NextKeeps, RouteKeeps, PTL DEF Spec

-----------------------------------------------------------------------------
(* Linking the sources of a window (module SourceLinking): no two are linked *)
(* to one speaker, for any number of sources and speakers and any scores and *)
(* thresholds.  Whatever the assignment maximises, it is one-to-one, and a   *)
(* decision either rejects a source or keeps what it was assigned.  Nobody   *)
(* is linked to a speaker the diarizer calls silent: a link needs a finite   *)
(* score.                                                                    *)

(* Of everything link_sources decides only this is needed.                   *)
LEMMA DecideKeepsAssigned ==
    ASSUME NEW matrix, NEW audible, NEW known, NEW a, NEW i
    PROVE  Decide(matrix, audible, known, a, i).speaker \in {None, a[i]}
  BY DEF Decide, Rejected, Linked

(* linear_sum_assignment is one-to-one.                                      *)
LEMMA AssignmentInjective ==
    ASSUME NEW matrix, NEW a \in LinearSumAssignment(matrix),
           NEW i \in Sources, NEW k \in Sources, i # k
    PROVE  a[i] # a[k]
  BY DEF LinearSumAssignment, Injection, IsInjective

(* The sources of one call of link_sources are different people.             *)
LEMMA LinkSourcesDistinct ==
    ASSUME NEW similarity, NEW active, LinkSources(similarity, active)
    PROVE  LinkedOnce'
<1>1. PICK a \in LinearSumAssignment(
                    Solvable(Extended(ApplyContinuityBonus(base'), constrained'))) :
          decisions' = [i \in Sources |-> Decide(base', embedded', constrained', a, i)]
  BY DEF LinkSources
<1>2. SUFFICES ASSUME NEW i \in Sources, NEW k \in Sources, i # k,
                      decisions'[i].speaker # None
               PROVE  decisions'[i].speaker # decisions'[k].speaker
  BY <1>1 DEF LinkedOnce
<1>3. decisions'[i].speaker = a[i]
  BY <1>1, <1>2, DecideKeepsAssigned
<1>4. decisions'[k].speaker \in {None, a[k]}
  BY <1>1, DecideKeepsAssigned
<1>5. a[i] # a[k]
  BY <1>2, AssignmentInjective
<1>6. QED
  BY <1>2, <1>3, <1>4, <1>5

(* LinkedOnce: over any number of windows and regions, no two sources of a   *)
(* window are linked to the same session speaker (link_sources).             *)
THEOREM SourcesDistinct == LinkSpec => []LinkedOnce
<1>1. LinkInit => LinkedOnce
  BY DEF LinkInit, NoCall, LinkedOnce
<1>2. LinkedOnce /\ [LinkNext]_linkVars => LinkedOnce'
  <2> SUFFICES ASSUME LinkedOnce, [LinkNext]_linkVars PROVE LinkedOnce'
    OBVIOUS
  <2>1. CASE UNCHANGED linkVars
    BY <2>1 DEF linkVars, LinkedOnce
  <2>2. ASSUME NEW similarity, NEW active, LinkSources(similarity, active)
        PROVE  LinkedOnce'
    BY <2>2, LinkSourcesDistinct
  <2>3. ASSUME NEW audible, NEW active, LinkNobody(audible, active)
        PROVE  LinkedOnce'
    BY <2>3 DEF LinkNobody, LinkedOnce, Rejected
  <2>4. ASSUME NEW mapping, NEW learned, Continue(mapping, learned)
        PROVE  LinkedOnce'
    BY <2>4 DEF Continue, LinkedOnce
  <2>5. QED
    BY <2>1, <2>2, <2>3, <2>4 DEF LinkNext, NextWindow, NextRegion
<1>3. QED
  BY <1>1, <1>2, PTL DEF LinkSpec

-----------------------------------------------------------------------------
(* A source that is linked has a score for the speaker: the thresholds, and  *)
(* the constrained permutation, refuse -inf.                                 *)
LEMMA LinkedIsScored ==
    ASSUME NEW matrix, NEW audible, NEW known, NEW a, NEW i,
           Decide(matrix, audible, known, a, i).speaker # None
    PROVE  /\ Decide(matrix, audible, known, a, i).speaker = a[i]
           /\ a[i] \in prototypes
           /\ Finite(matrix[i][a[i]])
<1>1. NegInf < Accept
  BY ThresholdAssumption
<1>2. a[i] \in prototypes /\ Decide(matrix, audible, known, a, i).speaker = a[i]
  BY DEF Decide, Rejected, Linked
<1>3. (known /\ Finite(matrix[i][a[i]])) \/ ~ (matrix[i][a[i]] < Accept)
  BY DEF Decide, Rejected, Linked
<1>4. QED
  BY <1>1, <1>2, <1>3 DEF Finite

(* The restriction of a matrix with a score for a candidate blanks everybody *)
(* else.                                                                     *)
LEMMA RestrictedBlank ==
    ASSUME NEW matrix, NEW keys, NEW i \in Sources, NEW c \in prototypes, c \in keys,
           Finite(matrix[i][c]),
           NEW k \in Sources, NEW j \in prototypes,
           Finite(RestrictToCandidates(matrix, keys)[k][j])
    PROVE  j \in keys
<1> DEFINE restricted == [l \in Sources |->
            [d \in prototypes |-> IF d \in keys THEN matrix[l][d] ELSE NegInf]]
<1>1. c \in FiniteIn(restricted[i])
  BY DEF FiniteIn
<1>2. RestrictToCandidates(matrix, keys) = restricted
  BY <1>1 DEF RestrictToCandidates
<1>3. QED
  BY <1>2 DEF Finite

(* One call of link_sources links nobody to a silent speaker.                *)
LEMMA LinkSourcesActive ==
    ASSUME NEW audible \in SUBSET Sources, NEW similarity \in [audible -> [prototypes -> Scores]],
           NEW active, LinkSources(similarity, active)
    PROVE  OnlyActive'
<1> DEFINE matrix == BuildScoreMatrix(similarity)
<1>1. /\ embedded' = audible
      /\ prototypes' = prototypes
      /\ base' = RestrictToCandidates(matrix, candidates')
  BY DEF LinkSources
<1>2. PICK a : decisions' = [i \in Sources |-> Decide(base', embedded', constrained', a, i)]
  BY DEF LinkSources
<1>3. SUFFICES ASSUME NEW i \in audible, NEW c \in candidates' \intersect prototypes,
                      NEW k \in Sources, decisions'[k].speaker # None
               PROVE  decisions'[k].speaker \in candidates'
  BY <1>1, <1>2 DEF OnlyActive
<1>4. Finite(matrix[i][c])
  <2>1. i \in Sources /\ matrix[i][c] = similarity[i][c] /\ similarity[i][c] \in Scores
    BY <1>3 DEF BuildScoreMatrix
  <2>2. QED
    BY <2>1, ScoreAssumption DEF Finite
<1>5. /\ decisions'[k].speaker = a[k]
      /\ a[k] \in prototypes
      /\ Finite(base'[k][a[k]])
  BY <1>2, <1>3, LinkedIsScored
<1> HIDE DEF matrix
<1>6. a[k] \in candidates'
  BY <1>1, <1>3, <1>4, <1>5, RestrictedBlank
<1>7. QED
  BY <1>5, <1>6

(* OnlyActive: no source is linked to a speaker who is silent in the window  *)
(* when anybody it can be compared with talks (restrict_to_candidates).      *)
THEOREM SilentNeverLinked == LinkSpec => []OnlyActive
<1>1. LinkInit => OnlyActive
  BY DEF LinkInit, NoCall, OnlyActive
<1>2. OnlyActive /\ [LinkNext]_linkVars => OnlyActive'
  <2> SUFFICES ASSUME OnlyActive, [LinkNext]_linkVars PROVE OnlyActive'
    OBVIOUS
  <2>1. CASE UNCHANGED linkVars
    BY <2>1 DEF linkVars, OnlyActive
  <2>2. ASSUME NEW audible \in SUBSET Sources, NEW active,
               NEW similarity \in [audible -> [prototypes -> Scores]],
               LinkSources(similarity, active)
        PROVE  OnlyActive'
    BY <2>2, LinkSourcesActive
  <2>3. ASSUME NEW audible, NEW active, LinkNobody(audible, active)
        PROVE  OnlyActive'
    BY <2>3 DEF LinkNobody, OnlyActive
  <2>4. ASSUME NEW mapping, NEW learned, Continue(mapping, learned)
        PROVE  OnlyActive'
    BY <2>4 DEF Continue, OnlyActive
  <2>5. QED
    BY <2>1, <2>2, <2>3, <2>4 DEF LinkNext, NextWindow, NextRegion
<1>3. QED
  BY <1>1, <1>2, PTL DEF LinkSpec

-----------------------------------------------------------------------------
(* A source is linked to its best match: greatest and least elements and     *)
(* sums of integers first, then what no optimal assignment leaves to gain.   *)

(* A nonempty set of natural numbers has a least element.                    *)
LEMMA LeastNumber ==
    ASSUME NEW S, S \subseteq Nat, S # {}
    PROVE  \E n \in S : \A k \in S : n <= k
<1> DEFINE less == {p \in Nat \X Nat : p[1] < p[2]}
<1>1. IsWellFoundedOn(less, Nat)
  BY NatLessThanWellFounded DEF OpToRel
<1>2. \A k, n \in Nat : <<k, n>> \in less <=> k < n
  OBVIOUS
<1> HIDE DEF less
<1>3. \E n \in S : \A k \in S : ~ (<<k, n>> \in less)
  BY <1>1, WFMin, Zenon
<1>4. \A k, n \in Nat : ~ (<<k, n>> \in less) => n <= k
  BY <1>2
<1>5. QED
  BY <1>3, <1>4, Zenon

(* A nonempty set of integers with a bound has a greatest element.           *)
LEMMA BoundedGreatest ==
    ASSUME NEW S, S \subseteq Int, S # {}, NEW bound \in Int, \A x \in S : x <= bound
    PROVE  /\ Max(S) \in S
           /\ \A x \in S : x <= Max(S)
<1> DEFINE D == {bound - x : x \in S}
<1>1. D \subseteq Nat /\ D # {}
  <2>1. PICK x : x \in S
    OBVIOUS
  <2>2. bound - x \in D
    BY <2>1
  <2>3. QED
    BY <2>2
<1>2. PICK d \in D : \A e \in D : d <= e
  <2> HIDE DEF D
  <2>1. QED
    BY <1>1, LeastNumber
<1>3. PICK m \in S : d = bound - m
  BY <1>2
<1>4. \A x \in S : bound - m <= bound - x
  BY <1>2, <1>3
<1>5. ASSUME NEW x \in S PROVE m >= x
  <2>1. x \in Int /\ m \in Int /\ bound - m <= bound - x
    BY <1>3, <1>4
  <2>2. QED
    BY <2>1
<1>6. Max(S) \in S /\ \A x \in S : Max(S) >= x
  BY <1>5 DEF Max
<1>7. QED
  BY <1>6

(* And one with a bound from below a least one.                              *)
LEMMA BoundedLeast ==
    ASSUME NEW S, S \subseteq Int, S # {}, NEW bound \in Int, \A x \in S : bound <= x
    PROVE  /\ Min(S) \in S
           /\ \A x \in S : Min(S) <= x
<1> DEFINE D == {x - bound : x \in S}
<1>1. D \subseteq Nat /\ D # {}
  <2>1. PICK x : x \in S
    OBVIOUS
  <2>2. x - bound \in D
    BY <2>1
  <2>3. QED
    BY <2>2
<1>2. PICK d \in D : \A e \in D : d <= e
  <2> HIDE DEF D
  <2>1. QED
    BY <1>1, LeastNumber
<1>3. PICK m \in S : d = m - bound
  BY <1>2
<1>4. \A x \in S : m - bound <= x - bound
  BY <1>2, <1>3
<1>5. ASSUME NEW x \in S PROVE m <= x
  <2>1. x \in Int /\ m \in Int /\ m - bound <= x - bound
    BY <1>3, <1>4
  <2>2. QED
    BY <2>1
<1>6. \E x \in S : \A y \in S : x <= y
  BY <1>5
<1>7. QED
  BY <1>6 DEF Min

(* Bounds that also hold v.                                                  *)
LEMMA Widened ==
    ASSUME NEW v \in Int, NEW lo \in Int, NEW hi \in Int
    PROVE  \E low, high \in Int : low <= v /\ v <= high /\ low <= lo /\ hi <= high
<1> DEFINE low == IF v <= lo THEN v ELSE lo
           high == IF hi <= v THEN v ELSE hi
<1>1. low \in Int /\ high \in Int /\ low <= v /\ v <= high /\ low <= lo /\ hi <= high
  OBVIOUS
<1>2. QED
  BY <1>1

(* Wider bounds hold what narrower ones do.                                  *)
LEMMA StillWithin ==
    \A v, lo, hi, low, high \in Int :
        lo <= v /\ v <= hi /\ low <= lo /\ hi <= high => low <= v /\ v <= high
  OBVIOUS

(* A function on a finite set has bounded values.                            *)
LEMMA ValuesBounded ==
    ASSUME NEW S, IsFiniteSet(S), NEW f \in [S -> Int]
    PROVE  \E lo, hi \in Int : \A x \in S : lo <= f[x] /\ f[x] <= hi
<1> DEFINE Bounded(s) == \E lo, hi \in Int : \A x \in s : lo <= f[x] /\ f[x] <= hi
           Bad == {s \in SUBSET S : ~ Bounded(s)}
           Sizes == {n \in Nat : \E s \in Bad : n = Cardinality(s)}
<1>1. \A s \in SUBSET S : IsFiniteSet(s) /\ Cardinality(s) \in Nat
  BY FS_Subset, FS_CardinalityType
<1>2. SUFFICES ASSUME Bad # {} PROVE FALSE
  OBVIOUS
<1>3. Sizes # {} /\ Sizes \subseteq Nat
  BY <1>1, <1>2
<1> HIDE DEF Sizes
<1>4. PICK n \in Sizes : \A m \in Sizes : n <= m
  BY <1>3, LeastNumber
<1> USE DEF Sizes
<1>5. PICK s \in Bad : n = Cardinality(s)
  BY <1>4
<1>6. CASE s = {}
  <2>1. Bounded(s)
    BY <1>6
  <2>2. QED
    BY <1>5, <2>1
<1>7. CASE s # {}
  <2>1. PICK x \in s : TRUE
    BY <1>7
  <2>2. s \ {x} \in SUBSET S /\ Cardinality(s \ {x}) = n - 1 /\ n \in Nat
    BY <1>1, <1>4, <1>5, <2>1, FS_RemoveElement
  <2>3. Bounded(s \ {x})
    <3>1. SUFFICES ASSUME s \ {x} \in Bad PROVE FALSE
      BY <2>2
    <3>2. n - 1 \in Sizes
      BY <1>1, <2>2, <3>1
    <3> HIDE DEF Sizes, Bad, Bounded
    <3>3. n <= n - 1
      BY <1>4, <3>2
    <3>4. QED
      BY <2>2, <3>3
  <2>4. PICK lo \in Int, hi \in Int : \A y \in s \ {x} : lo <= f[y] /\ f[y] <= hi
    BY <2>3
  <2>5. f[x] \in Int /\ \A y \in s : f[y] \in Int
    BY <2>1, <1>5
  <2>6. PICK low \in Int, high \in Int : low <= f[x] /\ f[x] <= high /\ low <= lo /\ hi <= high
    BY <2>4, <2>5, Widened
  <2>7. \A y \in s : low <= f[y] /\ f[y] <= high
    <3>1. ASSUME NEW y \in s, y # x PROVE low <= f[y] /\ f[y] <= high
      <4>1. lo <= f[y] /\ f[y] <= hi /\ f[y] \in Int
        BY <2>4, <2>5, <3>1
      <4>2. lo \in Int /\ hi \in Int /\ low \in Int /\ high \in Int /\ low <= lo /\ hi <= high
        BY <2>4, <2>6
      <4>3. QED
        BY <4>1, <4>2, StillWithin, Zenon
    <3>2. QED
      BY <2>6, <3>1
  <2>8. Bounded(s)
    BY <2>6, <2>7
  <2>9. QED
    BY <1>5, <2>8
<1>8. QED
  BY <1>6, <1>7

-----------------------------------------------------------------------------
(* Sums: SumFunction adds the values along a chain of subsets, the same for  *)
(* every function.                                                           *)
Chosen(s) == CHOOSE x \in s : TRUE

(* h has the sum of f over every subset of S, and over those of at most n    *)
(* elements.                                                                 *)
Sums(h, S, f) ==
    h = [s \in SUBSET S |-> IF s = {} THEN 0 ELSE f[Chosen(s)] + h[s \ {Chosen(s)}]]

SumsUpTo(h, S, f, n) ==
    h = [s \in {t \in SUBSET S : Cardinality(t) <= n} |->
            IF s = {} THEN 0 ELSE f[Chosen(s)] + h[s \ {Chosen(s)}]]

(* The chain goes down by one element.                                       *)
LEMMA ChosenSmaller ==
    ASSUME NEW s, IsFiniteSet(s), s # {}
    PROVE  /\ Chosen(s) \in s
           /\ IsFiniteSet(s \ {Chosen(s)})
           /\ Cardinality(s) \in Nat \ {0}
           /\ Cardinality(s \ {Chosen(s)}) = Cardinality(s) - 1
<1>1. Chosen(s) \in s
  BY DEF Chosen
<1>2. QED
  BY <1>1, FS_RemoveElement, FS_EmptySet, FS_CardinalityType

(* SumFunction is the sum over the whole domain.                             *)
LEMMA SumIs ==
    ASSUME NEW S, NEW f, S = DOMAIN f
    PROVE  SumFunction(f) = (CHOOSE h : Sums(h, S, f))[S]
  BY DEF SumFunction, SumFunctionOnSet, FoldFunctionOnSet, MapThenFoldSet, Sums, Chosen

(* The recursion along the chain has a solution.                             *)
LEMMA SumExists ==
    ASSUME NEW S, IsFiniteSet(S), NEW f
    PROVE  \E h : Sums(h, S, f)
<1> DEFINE Missing == {n \in Nat : ~ \E h : SumsUpTo(h, S, f, n)}
<1>1. \A s \in SUBSET S :
          IsFiniteSet(s) /\ Cardinality(s) \in Nat /\ Cardinality(s) <= Cardinality(S)
  BY FS_Subset, FS_CardinalityType
<1>2. Missing = {}
  <2>1. SUFFICES ASSUME Missing # {} PROVE FALSE
    OBVIOUS
  <2>2. PICK n \in Missing : \A m \in Missing : n <= m
    <3>1. Missing \subseteq Nat
      OBVIOUS
    <3> HIDE DEF Missing
    <3>2. QED
      BY <2>1, <3>1, LeastNumber
  <2>3. n \in Nat /\ ~ \E h : SumsUpTo(h, S, f, n)
    BY <2>2
  <2> DEFINE Up(m) == {t \in SUBSET S : Cardinality(t) <= m}
             Rec(h, m) == [s \in Up(m) |-> IF s = {} THEN 0 ELSE f[Chosen(s)] + h[s \ {Chosen(s)}]]
  <2>4. CASE n = 0
    <3>1. \A s \in Up(0) : s = {}
      BY <1>1, FS_EmptySet
    <3> DEFINE h == [s \in Up(0) |-> 0]
    <3>2. h = Rec(h, 0)
      BY <3>1
    <3>3. SumsUpTo(h, S, f, 0)
      BY <3>2 DEF SumsUpTo
    <3>4. QED
      BY <2>3, <2>4, <3>3
  <2>5. CASE n # 0
    <3>1. n - 1 \in Nat /\ n - 1 \notin Missing
      BY <2>2, <2>3, <2>5
    <3>2. PICK h : SumsUpTo(h, S, f, n - 1)
      BY <3>1
    <3>3. h = Rec(h, n - 1)
      BY <3>2 DEF SumsUpTo
    <3> DEFINE g == Rec(h, n)
    <3>4. \A s \in Up(n - 1) : g[s] = h[s]
      <4>1. \A s \in Up(n - 1) : s \in Up(n)
        BY <1>1, <2>3
      <4>2. QED
        BY <3>3, <4>1
    <3>5. \A s \in Up(n) : s # {} => s \ {Chosen(s)} \in Up(n - 1)
      BY <1>1, <2>3, ChosenSmaller
    <3>6. g = Rec(g, n)
      BY <3>4, <3>5
    <3>7. SumsUpTo(g, S, f, n)
      BY <3>6 DEF SumsUpTo
    <3>8. QED
      BY <2>3, <3>7
  <2>6. QED
    BY <2>4, <2>5
<1>3. PICK h : SumsUpTo(h, S, f, Cardinality(S))
  BY <1>1, <1>2
<1>4. {t \in SUBSET S : Cardinality(t) <= Cardinality(S)} = SUBSET S
  BY <1>1
<1>5. QED
  BY <1>3, <1>4 DEF SumsUpTo, Sums

(* What g has more than f at i, as far as i is counted.                      *)
Gain(f, g, i, s) == IF i \in s THEN g[i] - f[i] ELSE 0

(* Two functions that g leads everywhere but at i and k.                     *)
LEMMA SumCompare ==
    ASSUME NEW S, IsFiniteSet(S), NEW f \in [S -> Int], NEW g \in [S -> Int],
           NEW i, NEW k, i # k, \A x \in S \ {i, k} : f[x] <= g[x]
    PROVE  /\ SumFunction(f) \in Int
           /\ SumFunction(g) \in Int
           /\ SumFunction(f) + Gain(f, g, i, S) + Gain(f, g, k, S) <= SumFunction(g)
<1> DEFINE F == CHOOSE h : Sums(h, S, f)
           G == CHOOSE h : Sums(h, S, g)
<1>1. Sums(F, S, f) /\ Sums(G, S, g)
  BY SumExists
<1>2. SumFunction(f) = F[S] /\ SumFunction(g) = G[S]
  BY SumIs
<1> HIDE DEF F, G
<1> DEFINE Led(s) == /\ F[s] \in Int /\ G[s] \in Int
                     /\ F[s] + Gain(f, g, i, s) + Gain(f, g, k, s) <= G[s]
           Sizes == {n \in Nat : \E s \in SUBSET S : n = Cardinality(s) /\ ~ Led(s)}
<1>3. \A s \in SUBSET S : IsFiniteSet(s) /\ Cardinality(s) \in Nat
  BY FS_Subset, FS_CardinalityType
<1>4. ASSUME NEW s \in SUBSET S, ~ Led(s) PROVE FALSE
  <2>1. Sizes # {} /\ Sizes \subseteq Nat
    BY <1>3, <1>4
  <2> HIDE DEF Sizes
  <2>2. PICK n \in Sizes : \A m \in Sizes : n <= m
    BY <2>1, LeastNumber
  <2> USE DEF Sizes
  <2>3. PICK t \in SUBSET S : n = Cardinality(t) /\ ~ Led(t)
    BY <2>2
  <2>4. CASE t = {}
    BY <1>1, <2>3, <2>4 DEF Sums, Gain
  <2>5. CASE t # {}
    <3> DEFINE x == Chosen(t)
               u == t \ {x}
    <3>1. x \in t /\ u \in SUBSET S /\ Cardinality(u) = n - 1 /\ n \in Nat
      BY <1>3, <2>3, <2>5, ChosenSmaller
    <3>2. Led(u)
      BY <1>3, <2>2, <3>1
    <3>3. F[t] = f[x] + F[u] /\ G[t] = g[x] + G[u]
      BY <1>1, <2>5 DEF Sums
    <3>4. x \in S /\ f[x] \in Int /\ g[x] \in Int
      BY <3>1
    <3> HIDE DEF x
    <3>5. CASE x = i
      <4>1. Gain(f, g, i, t) = g[i] - f[i] /\ Gain(f, g, i, u) = 0
            /\ Gain(f, g, k, t) = Gain(f, g, k, u)
        BY <3>1, <3>5 DEF Gain
      <4>2. Gain(f, g, k, u) \in Int
        BY DEF Gain
      <4>3. QED
        BY <2>3, <3>2, <3>3, <3>4, <3>5, <4>1, <4>2
    <3>6. CASE x = k
      <4>1. Gain(f, g, k, t) = g[k] - f[k] /\ Gain(f, g, k, u) = 0
            /\ Gain(f, g, i, t) = Gain(f, g, i, u)
        BY <3>1, <3>6 DEF Gain
      <4>2. Gain(f, g, i, u) \in Int
        BY DEF Gain
      <4>3. QED
        BY <2>3, <3>2, <3>3, <3>4, <3>6, <4>1, <4>2
    <3>7. CASE x # i /\ x # k
      <4>1. Gain(f, g, k, t) = Gain(f, g, k, u) /\ Gain(f, g, i, t) = Gain(f, g, i, u)
        BY <3>1, <3>7 DEF Gain
      <4>2. Gain(f, g, i, u) \in Int /\ Gain(f, g, k, u) \in Int
        BY DEF Gain
      <4>3. f[x] <= g[x]
        BY <3>4, <3>7
      <4>4. QED
        BY <2>3, <3>2, <3>3, <3>4, <4>1, <4>2, <4>3
    <3>8. QED
      BY <3>5, <3>6, <3>7
  <2>6. QED
    BY <2>4, <2>5
<1>5. Led(S)
  BY <1>4
<1>6. QED
  BY <1>2, <1>5

-----------------------------------------------------------------------------
(* The assignment *)

(* The matrices linear_sum_assignment is called with.                        *)
Matrices == [Sources -> [Columns -> Int]]

(* The columns are finitely many.                                            *)
LEMMA ColumnsFinite ==
    ASSUME prototypes \subseteq Speakers
    PROVE  /\ IsFiniteSet(prototypes)
           /\ IsFiniteSet(Columns)
           /\ IsFiniteSet(Sources)
<1>1. NumSpeakers \in Nat /\ NumSources \in Nat
  BY SizeAssumption
<1>2. IsFiniteSet(1 .. NumSpeakers + NumSources)
  BY <1>1, FS_Interval
<1>3. Columns \subseteq 1 .. NumSpeakers + NumSources
  <2>1. ASSUME NEW i \in Sources PROVE Dummy(i) \in 1 .. NumSpeakers + NumSources
    BY <1>1 DEF Dummy, Sources
  <2>2. Speakers \subseteq 1 .. NumSpeakers + NumSources
    BY <1>1 DEF Speakers
  <2>3. QED
    BY <2>1, <2>2 DEF Columns
<1>4. /\ prototypes \subseteq 1 .. NumSpeakers + NumSources
      /\ Sources \subseteq 1 .. NumSpeakers + NumSources
  BY <1>1 DEF Speakers, Sources
<1>5. QED
  BY <1>2, <1>3, <1>4, FS_Subset

(* The value of one source under an assignment.                              *)
Values(m, a) == [x \in Sources |-> m[x][a[x]]]

(* The sum of an assignment is the sum of these numbers.                     *)
LEMMA ValuesType ==
    ASSUME NEW m \in Matrices, NEW a \in [Sources -> Columns]
    PROVE  /\ Values(m, a) \in [Sources -> Int]
           /\ \A x \in Sources : Values(m, a)[x] = m[x][a[x]]
           /\ Total(m, a) = SumFunction(Values(m, a))
  BY DEF Matrices, Values, Total

(* The sums of all assignments have a bound.                                 *)
LEMMA TotalBounded ==
    ASSUME prototypes \subseteq Speakers, NEW m \in Matrices
    PROVE  \E bound \in Int : \A a \in [Sources -> Columns] :
               Total(m, a) \in Int /\ Total(m, a) <= bound
<1> DEFINE most(x) == CHOOSE hi \in Int : \A c \in Columns : m[x][c] <= hi
           top == [x \in Sources |-> most(x)]
<1>1. ASSUME NEW x \in Sources
      PROVE  most(x) \in Int /\ \A c \in Columns : m[x][c] <= most(x)
  <2>1. m[x] \in [Columns -> Int]
    BY <1>1 DEF Matrices
  <2>2. \E hi \in Int : \A c \in Columns : m[x][c] <= hi
    BY <2>1, ColumnsFinite, ValuesBounded
  <2>3. QED
    BY <2>2
<1>2. top \in [Sources -> Int]
  BY <1>1
<1>3. ASSUME NEW a \in [Sources -> Columns]
      PROVE  Total(m, a) \in Int /\ SumFunction(top) \in Int /\ Total(m, a) <= SumFunction(top)
  <2>1. \A x \in Sources : Values(m, a)[x] <= top[x]
    BY <1>1, ValuesType
  <2> HIDE DEF top
  <2>2. NumSources + 1 \notin Sources /\ NumSources + 2 \notin Sources
        /\ NumSources + 1 # NumSources + 2
    BY SizeAssumption DEF Sources
  <2> DEFINE f == Values(m, a)
  <2>3. f \in [Sources -> Int]
    BY ValuesType
  <2>4. /\ SumFunction(f) \in Int /\ SumFunction(top) \in Int
        /\ SumFunction(f) + Gain(f, top, NumSources + 1, Sources)
              + Gain(f, top, NumSources + 2, Sources) <= SumFunction(top)
    <3>1. IsFiniteSet(Sources) /\ \A x \in Sources : f[x] <= top[x]
      BY <2>1, ColumnsFinite
    <3> HIDE DEF f
    <3>2. QED
      BY <1>2, <2>2, <2>3, <3>1, SumCompare
  <2>5. Gain(f, top, NumSources + 1, Sources) = 0 /\ Gain(f, top, NumSources + 2, Sources) = 0
    BY <2>2 DEF Gain
  <2>6. QED
    BY <2>4, <2>5, ValuesType
<1>4. CASE [Sources -> Columns] = {}
  BY <1>4
<1>5. CASE [Sources -> Columns] # {}
  BY <1>3, <1>5
<1>6. QED
  BY <1>4, <1>5

(* linear_sum_assignment: no one-to-one assignment has a greater sum.        *)
LEMMA NoneBetter ==
    ASSUME prototypes \subseteq Speakers, NEW m \in Matrices,
           NEW a \in LinearSumAssignment(m), NEW b \in Injection(Sources, Columns)
    PROVE  Total(m, b) <= Total(m, a)
<1> DEFINE all == Injection(Sources, Columns)
           totals == {Total(m, c) : c \in all}
<1>1. all \subseteq [Sources -> Columns]
  BY DEF Injection
<1>2. PICK bound \in Int :
          \A c \in [Sources -> Columns] : Total(m, c) \in Int /\ Total(m, c) <= bound
  BY TotalBounded
<1>3. totals \subseteq Int /\ Total(m, b) \in totals /\ \A t \in totals : t <= bound
  BY <1>1, <1>2
<1>4. Total(m, a) = Max(totals)
  BY DEF LinearSumAssignment
<1> HIDE DEF totals
<1>5. \A t \in totals : t <= Max(totals)
  BY <1>2, <1>3, BoundedGreatest
<1>6. QED
  BY <1>3, <1>4, <1>5

(* A change of the assignment that costs nobody but i and k anything gains   *)
(* nothing for the two together.                                             *)
LEMMA NoGain ==
    ASSUME prototypes \subseteq Speakers, NEW m \in Matrices,
           NEW a \in LinearSumAssignment(m), NEW b \in Injection(Sources, Columns),
           NEW i \in Sources, NEW k, i # k,
           \A x \in Sources \ {i, k} : m[x][a[x]] <= m[x][b[x]]
    PROVE  /\ k \in Sources => m[i][b[i]] + m[k][b[k]] <= m[i][a[i]] + m[k][a[k]]
           /\ k \notin Sources => m[i][b[i]] <= m[i][a[i]]
<1> DEFINE f == Values(m, a)
           g == Values(m, b)
<1>1. a \in [Sources -> Columns] /\ b \in [Sources -> Columns]
  BY DEF LinearSumAssignment, Injection
<1>2. /\ f \in [Sources -> Int] /\ g \in [Sources -> Int]
      /\ \A x \in Sources : f[x] = m[x][a[x]] /\ g[x] = m[x][b[x]]
      /\ Total(m, a) = SumFunction(f) /\ Total(m, b) = SumFunction(g)
  BY <1>1, ValuesType
<1> HIDE DEF f, g
<1>3. \A x \in Sources \ {i, k} : f[x] <= g[x]
  BY <1>2
<1>4. /\ SumFunction(f) \in Int /\ SumFunction(g) \in Int
      /\ SumFunction(f) + Gain(f, g, i, Sources) + Gain(f, g, k, Sources) <= SumFunction(g)
  BY <1>2, <1>3, ColumnsFinite, SumCompare
<1>5. SumFunction(g) <= SumFunction(f)
  BY <1>2, NoneBetter
<1>6. Gain(f, g, i, Sources) = g[i] - f[i] /\ f[i] \in Int /\ g[i] \in Int
  BY <1>2 DEF Gain
<1>7. CASE k \in Sources
  <2>1. Gain(f, g, k, Sources) = g[k] - f[k] /\ f[k] \in Int /\ g[k] \in Int
    BY <1>2, <1>7 DEF Gain
  <2>2. g[i] + g[k] <= f[i] + f[k]
    BY <1>4, <1>5, <1>6, <2>1
  <2>3. QED
    BY <1>2, <1>7, <2>2
<1>8. CASE k \notin Sources
  <2>1. Gain(f, g, k, Sources) = 0
    BY <1>8 DEF Gain
  <2>2. g[i] <= f[i]
    BY <1>4, <1>5, <1>6, <2>1
  <2>3. QED
    BY <1>2, <1>8, <2>2
<1>9. QED
  BY <1>7, <1>8

(* A source does not prefer a column that nobody has.                        *)
LEMMA NoFreeBetter ==
    ASSUME prototypes \subseteq Speakers, NEW m \in Matrices,
           NEW a \in LinearSumAssignment(m),
           NEW i \in Sources, NEW p \in Columns, \A x \in Sources : a[x] # p
    PROVE  m[i][p] <= m[i][a[i]]
<1> DEFINE b == [a EXCEPT ![i] = p]
<1>1. a \in [Sources -> Columns] /\ \A x, y \in Sources : a[x] = a[y] => x = y
  BY DEF LinearSumAssignment, Injection, IsInjective
<1>2. b \in [Sources -> Columns] /\ b[i] = p /\ \A x \in Sources : x # i => b[x] = a[x]
  BY <1>1
<1> HIDE DEF b
<1>3. b \in Injection(Sources, Columns)
  BY <1>1, <1>2 DEF Injection, IsInjective
<1>4. NumSources + 1 \notin Sources /\ i # NumSources + 1
  BY SizeAssumption DEF Sources
<1>5. \A x \in Sources : m[x][a[x]] \in Int
  BY <1>1 DEF Matrices
<1>6. \A x \in Sources \ {i, NumSources + 1} : m[x][a[x]] <= m[x][b[x]]
  BY <1>2, <1>5
<1>7. QED
  BY <1>2, <1>3, <1>4, <1>6, NoGain

(* Nor does it with the one who has it: i takes the column of k, k takes q,  *)
(* and whoever had q, to whom it is no loss, takes what i had.               *)
LEMMA NoExchangeBetter ==
    ASSUME prototypes \subseteq Speakers, NEW m \in Matrices,
           NEW a \in LinearSumAssignment(m),
           NEW i \in Sources, NEW k \in Sources, i # k,
           NEW q \in Columns, q # a[k],
           \A x \in Sources \ {i, k} : a[x] = q => m[x][q] <= m[x][a[i]]
    PROVE  m[i][a[k]] + m[k][q] <= m[i][a[i]] + m[k][a[k]]
<1> DEFINE b == [x \in Sources |-> IF x = i THEN a[k] ELSE IF x = k THEN q
                                   ELSE IF a[x] = q THEN a[i] ELSE a[x]]
<1>1. a \in [Sources -> Columns] /\ \A x, y \in Sources : a[x] = a[y] => x = y
  BY DEF LinearSumAssignment, Injection, IsInjective
<1>2. /\ b \in [Sources -> Columns]
      /\ b[i] = a[k]
      /\ b[k] = q
      /\ \A x \in Sources \ {i, k} : b[x] = IF a[x] = q THEN a[i] ELSE a[x]
  BY <1>1
<1> HIDE DEF b
<1>3. ASSUME NEW x \in Sources, NEW y \in Sources, b[x] = b[y] PROVE x = y
  BY <1>1, <1>2, <1>3
<1>4. b \in Injection(Sources, Columns)
  BY <1>2, <1>3 DEF Injection, IsInjective
<1>5. \A x \in Sources : m[x][a[x]] \in Int
  BY <1>1 DEF Matrices
<1>6. \A x \in Sources \ {i, k} : m[x][a[x]] <= m[x][b[x]]
  BY <1>2, <1>5
<1>7. QED
  BY <1>2, <1>4, <1>6, NoGain

-----------------------------------------------------------------------------
(* The scores *)

(* The values of base_scores.                                                *)
ScoreRows == [Sources -> [prototypes -> Scores \union {NegInf}]]

(* Embedded sources have scores for the same speakers, the others have none. *)
ScoresOf(scores, audible) ==
    /\ scores \in ScoreRows
    /\ \A x \in Sources \ audible : \A c \in prototypes : ~ Finite(scores[x][c])
    /\ \A x, y \in audible : \A c \in prototypes : Finite(scores[x][c]) => Finite(scores[y][c])

(* m has the score of a source for a speaker with at most the bonus, or one  *)
(* floor where there is none.                                                *)
SolvedFor(m, scores) ==
    /\ m \in Matrices
    /\ \A x \in Sources : \A c \in prototypes : Finite(scores[x][c]) =>
           m[x][c] = scores[x][c] \/ m[x][c] = scores[x][c] + Bonus
    /\ \E floor : \A x \in Sources : \A c \in prototypes :
           ~ Finite(scores[x][c]) => m[x][c] = floor

(* build_score_matrix and restrict_to_candidates.                            *)
LEMMA BaseScores ==
    ASSUME NEW audible \in SUBSET Sources,
           NEW similarity \in [audible -> [prototypes -> Scores]], NEW keys
    PROVE  ScoresOf(RestrictToCandidates(BuildScoreMatrix(similarity), keys), audible)
<1> DEFINE scores == RestrictToCandidates(BuildScoreMatrix(similarity), keys)
           matrix == BuildScoreMatrix(similarity)
           restricted == [x \in Sources |->
               [c \in prototypes |-> IF c \in keys THEN matrix[x][c] ELSE NegInf]]
<1>1. /\ matrix \in ScoreRows
      /\ \A x \in Sources \ audible : \A c \in prototypes : ~ Finite(matrix[x][c])
      /\ \A x \in audible : \A c \in prototypes : Finite(matrix[x][c])
  <2>1. \A x \in audible : \A c \in prototypes :
            matrix[x][c] = similarity[x][c] /\ similarity[x][c] \in Scores
    BY DEF BuildScoreMatrix
  <2>2. \A x \in Sources \ audible : \A c \in prototypes : matrix[x][c] = NegInf
    BY DEF BuildScoreMatrix
  <2>3. \A v \in Scores : Finite(v)
    BY ScoreAssumption DEF Finite
  <2>4. matrix \in ScoreRows
    BY DEF BuildScoreMatrix, ScoreRows
  <2>5. QED
    BY <2>1, <2>2, <2>3, <2>4 DEF Finite
<1>2. scores = matrix \/ scores = restricted
  BY DEF RestrictToCandidates
<1> HIDE DEF matrix, scores
<1>3. ASSUME scores = matrix PROVE ScoresOf(scores, audible)
  BY <1>1, <1>3 DEF ScoresOf
<1>4. ASSUME scores = restricted PROVE ScoresOf(scores, audible)
  <2>1. restricted \in ScoreRows
    BY <1>1 DEF ScoreRows
  <2>2. \A x \in Sources : \A c \in prototypes :
            scores[x][c] = IF c \in keys THEN matrix[x][c] ELSE NegInf
    BY <1>4
  <2>3. QED
    BY <1>1, <1>4, <2>1, <2>2 DEF Finite, ScoresOf
<1>5. QED
  BY <1>2, <1>3, <1>4 DEF scores

(* _apply_continuity_bonus and the matrix that is solved.                    *)
LEMMA SolvedScores ==
    ASSUME prototypes \subseteq Speakers, NEW scores \in ScoreRows, NEW known
    PROVE  SolvedFor(Solvable(Extended(ApplyContinuityBonus(scores), known)), scores)
<1> DEFINE m == Solvable(Extended(ApplyContinuityBonus(scores), known))
<1> DEFINE e == Extended(ApplyContinuityBonus(scores), known)
           given == UNION {{e[x][c] : c \in FiniteIn(e[x])} : x \in Sources}
<1>1. /\ NegInf \in Int /\ Scores \subseteq Int /\ Bonus \in Nat /\ Accept \in Int
      /\ \A v \in Scores : Finite(v) /\ Finite(v + Bonus) /\ v + Bonus \in Int
  BY ScoreAssumption, ThresholdAssumption DEF Finite
<1>2. \A x \in Sources : \A c \in prototypes :
          ApplyContinuityBonus(scores)[x][c] =
              IF x \in DOMAIN previous /\ previous[x] = c /\ Finite(scores[x][c])
              THEN scores[x][c] + Bonus ELSE scores[x][c]
  BY DEF ApplyContinuityBonus
<1>3. prototypes \subseteq Columns
  BY DEF Columns
<1>4. \A x \in Sources : \A c \in prototypes : e[x][c] = ApplyContinuityBonus(scores)[x][c]
  <2>1. \A x \in Sources : Dummy(x) \notin prototypes
    BY SizeAssumption DEF Dummy, Speakers, Sources
  <2>2. ASSUME NEW x \in Sources, NEW c \in prototypes
        PROVE  e[x][c] = ApplyContinuityBonus(scores)[x][c]
    <3>1. e[x][c] = CASE c \in prototypes -> ApplyContinuityBonus(scores)[x][c]
                      [] c = Dummy(x) /\ ~ known -> IF IsCalibrated THEN Accept ELSE 0
                      [] OTHER -> NegInf
      BY <1>3 DEF Extended
    <3> HIDE DEF e
    <3>2. QED
      BY <2>1, <3>1
  <2>3. QED
    BY <2>2
<1>5. \A x \in Sources : \A c \in prototypes :
          scores[x][c] \in Scores \/ (scores[x][c] = NegInf /\ ~ Finite(scores[x][c]))
  BY DEF ScoreRows, Finite
<1>6. \A x \in Sources : \A c \in prototypes :
          /\ Finite(scores[x][c]) => /\ e[x][c] = scores[x][c] \/ e[x][c] = scores[x][c] + Bonus
                                     /\ Finite(e[x][c])
                                     /\ e[x][c] \in Int
          /\ ~ Finite(scores[x][c]) => ~ Finite(e[x][c]) /\ e[x][c] \in Int
  <2>1. SUFFICES ASSUME NEW x \in Sources, NEW c \in prototypes
        PROVE /\ Finite(scores[x][c]) => /\ e[x][c] = scores[x][c] \/ e[x][c] = scores[x][c] + Bonus
                                         /\ Finite(e[x][c])
                                         /\ e[x][c] \in Int
              /\ ~ Finite(scores[x][c]) => ~ Finite(e[x][c]) /\ e[x][c] \in Int
    BY Zenon
  <2> HIDE DEF e
  <2>2. CASE Finite(scores[x][c])
    <3>1. scores[x][c] \in Scores
      BY <1>5, <2>2
    <3>2. e[x][c] = scores[x][c] \/ e[x][c] = scores[x][c] + Bonus
      BY <1>2, <1>4
    <3>3. CASE e[x][c] = scores[x][c]
      BY <1>1, <2>2, <3>1, <3>3
    <3>4. CASE e[x][c] = scores[x][c] + Bonus
      <4>1. Finite(scores[x][c] + Bonus) /\ scores[x][c] + Bonus \in Int
        BY <1>1, <3>1, Zenon
      <4>2. QED
        BY <2>2, <3>4, <4>1
    <3>5. QED
      BY <3>2, <3>3, <3>4
  <2>3. CASE ~ Finite(scores[x][c])
    <3>1. scores[x][c] = NegInf /\ e[x][c] = scores[x][c]
      BY <1>2, <1>4, <2>3 DEF Finite
    <3>2. QED
      BY <1>1, <2>3, <3>1
  <2>4. QED
    BY <2>2, <2>3
<1>7. e \in [Sources -> [Columns -> Int]]
  <2>1. e = [x \in Sources |-> [c \in Columns |-> e[x][c]]]
    BY DEF Extended
  <2>2. ASSUME NEW x \in Sources, NEW c \in Columns, c \notin prototypes PROVE e[x][c] \in Int
    <3>1. e[x][c] = CASE c \in prototypes -> ApplyContinuityBonus(scores)[x][c]
                      [] c = Dummy(x) /\ ~ known -> IF IsCalibrated THEN Accept ELSE 0
                      [] OTHER -> NegInf
      BY DEF Extended
    <3> HIDE DEF e
    <3>2. e[x][c] \in {Accept, 0, NegInf}
      BY <2>2, <3>1
    <3>3. QED
      BY <1>1, <3>2
  <2> HIDE DEF e
  <2>3. \A x \in Sources : \A c \in Columns : e[x][c] \in Int
    BY <1>6, <2>2
  <2>4. QED
    BY <2>1, <2>3
<1> DEFINE floor == Floor(e)
<1> HIDE DEF e
<1>8. floor \in Int
  <2> DEFINE low(x) == CHOOSE lo \in Int : \A c \in Columns : lo <= e[x][c]
             lows == [x \in Sources |-> low(x)]
  <2>1. ASSUME NEW x \in Sources PROVE low(x) \in Int /\ \A c \in Columns : low(x) <= e[x][c]
    <3>1. e[x] \in [Columns -> Int]
      BY <1>7
    <3>2. \E lo \in Int : \A c \in Columns : lo <= e[x][c]
      BY <3>1, ColumnsFinite, ValuesBounded
    <3>3. QED
      BY <3>2
  <2>2. lows \in [Sources -> Int]
    BY <2>1
  <2>3. PICK lo \in Int : \A x \in Sources : lo <= lows[x]
    <3> HIDE DEF lows
    <3>1. QED
      BY <2>2, ColumnsFinite, ValuesBounded
  <2>4. PICK least \in Int : least <= 0 /\ least <= lo
    BY <2>3, Widened
  <2>5. given \subseteq Int
    BY <1>7 DEF FiniteIn
  <2>6. ASSUME NEW v \in given PROVE least <= v
    <3>1. PICK x \in Sources, c \in Columns : v = e[x][c]
      BY <1>7 DEF FiniteIn
    <3>2. lo <= low(x) /\ low(x) <= v /\ low(x) \in Int /\ v \in Int
      BY <1>7, <2>1, <2>3, <3>1
    <3> HIDE DEF low
    <3>3. QED
      BY <2>3, <2>4, <3>2
  <2> HIDE DEF given
  <2> DEFINE values == {0} \union given
  <2>7. values \subseteq Int /\ values # {} /\ \A v \in values : least <= v
    BY <2>4, <2>5, <2>6
  <2>8. floor = Min(values) - 1
    BY DEF Floor, given
  <2> HIDE DEF values
  <2>9. Min(values) \in values
    BY <2>4, <2>7, BoundedLeast
  <2>10. Min(values) \in Int
    BY <2>7, <2>9
  <2>11. QED
    BY <2>8, <2>10
<1>9. /\ \A x \in Sources : \A c \in Columns : m[x][c] = IF Finite(e[x][c]) THEN e[x][c] ELSE floor
      /\ m = [x \in Sources |-> [c \in Columns |-> m[x][c]]]
  BY DEF Solvable, e
<1> HIDE DEF floor
<1>10. m \in Matrices
  <2>1. \A x \in Sources : \A c \in Columns : m[x][c] \in Int
    BY <1>7, <1>8, <1>9
  <2>2. QED
    BY <1>9, <2>1 DEF Matrices
<1>11. QED
  <2>1. \A x \in Sources : \A c \in prototypes :
            m[x][c] = IF Finite(e[x][c]) THEN e[x][c] ELSE floor
    BY <1>3, <1>9
  <2> HIDE DEF m
  <2>2. SolvedFor(m, scores)
    BY <1>6, <1>10, <2>1 DEF SolvedFor
  <2>3. QED
    BY <2>2 DEF m

-----------------------------------------------------------------------------
(* The decision *)

(* np.argmax finds a column with the highest score.                          *)
LEMMA ArgMaxHighest ==
    ASSUME prototypes \subseteq Speakers, prototypes # {}, NEW row \in [prototypes -> Int]
    PROVE  /\ ArgMax(row) \in prototypes
           /\ \A c \in prototypes : row[c] <= row[ArgMax(row)]
<1> DEFINE V == {row[c] : c \in prototypes}
           high == {j \in DOMAIN row : \A k \in DOMAIN row : row[k] <= row[j]}
<1>1. PICK lo \in Int, hi \in Int : \A c \in prototypes : lo <= row[c] /\ row[c] <= hi
  BY ColumnsFinite, ValuesBounded
<1>2. V \subseteq Int /\ V # {} /\ \A v \in V : v <= hi
  BY <1>1
<1>3. PICK v \in V : \A w \in V : w <= v
  <2> HIDE DEF V
  <2>1. QED
    BY <1>1, <1>2, BoundedGreatest
<1>4. PICK j \in prototypes : row[j] = v
  BY <1>3
<1>5. j \in high /\ high \subseteq prototypes
  BY <1>3, <1>4
<1>6. PICK bound \in Int : high \subseteq Int /\ high # {} /\ \A x \in high : bound <= x
  <2>1. \A x \in prototypes : x \in Int /\ 1 <= x
    BY SizeAssumption DEF Speakers
  <2> HIDE DEF high
  <2>2. QED
    BY <1>5, <2>1
<1>7. ArgMax(row) = Min(high)
  BY DEF ArgMax
<1>8. Min(high) \in high
  <2> HIDE DEF high
  <2>1. QED
    BY <1>6, BoundedLeast
<1>9. QED
  BY <1>5, <1>7, <1>8

(* _top_two: any other score is the margin below the highest.                *)
LEMMA MarginHolds ==
    ASSUME prototypes \subseteq Speakers, NEW row \in [prototypes -> Int], ~ LowMargin(row),
           NEW j \in prototypes, Finite(row[j]), j # ArgMax(row)
    PROVE  row[j] + AmbiguousMargin <= row[ArgMax(row)]
<1> DEFINE others == FiniteIn(row) \ {ArgMax(row)}
           V == {row[c] : c \in others}
<1>1. ArgMax(row) \in prototypes /\ \A c \in prototypes : row[c] <= row[ArgMax(row)]
  BY ArgMaxHighest
<1>2. j \in others /\ others \subseteq prototypes
  BY DEF FiniteIn
<1>3. V \subseteq Int /\ row[j] \in V /\ row[ArgMax(row)] \in Int
      /\ \A v \in V : v <= row[ArgMax(row)]
  BY <1>1, <1>2
<1>4. ~ (row[ArgMax(row)] - Max(V) < AmbiguousMargin)
  BY <1>2 DEF LowMargin
<1> HIDE DEF V
<1>5. Max(V) \in V /\ row[j] <= Max(V)
  BY <1>3, BoundedGreatest
<1>6. Max(V) \in Int /\ row[j] \in Int /\ AmbiguousMargin \in Int
  <2>1. Max(V) \in Int /\ row[j] \in Int
    BY <1>3, <1>5, Zenon
  <2>2. QED
    BY <2>1, ThresholdAssumption
<1>7. QED
  BY <1>3, <1>4, <1>5, <1>6

(* Two embedded sources are all of them.                                     *)
LEMMA OnlyTwo ==
    ASSUME NEW S, IsFiniteSet(S), NEW i \in S, NEW k \in S, i # k
    PROVE  /\ Cardinality(S) > 1
           /\ Cardinality(S) <= 2 => S = {i, k}
<1>1. IsFiniteSet({i}) /\ Cardinality({i}) = 1
  BY FS_Singleton
<1>2. IsFiniteSet({i} \union {k}) /\ Cardinality({i} \union {k}) = 2
  <2>1. k \notin {i}
    OBVIOUS
  <2>2. /\ IsFiniteSet({i} \union {k})
        /\ Cardinality({i} \union {k}) =
              IF k \in {i} THEN Cardinality({i}) ELSE Cardinality({i}) + 1
    BY <1>1, FS_AddElement, Zenon
  <2>3. Cardinality({i} \union {k}) = Cardinality({i}) + 1
    BY <2>1, <2>2, Zenon
  <2>4. QED
    BY <1>1, <2>2, <2>3
<1>3. {i} \union {k} = {i, k} /\ {i, k} \in SUBSET S
  OBVIOUS
<1>4. Cardinality(S) \in Nat
  BY FS_CardinalityType
<1>5. 2 <= Cardinality(S) /\ (Cardinality(S) = 2 => S = {i, k})
  BY <1>2, <1>3, FS_Subset
<1>6. QED
  BY <1>4, <1>5

(* What a link by the thresholds says.                                       *)
LEMMA LinkedByThresholds ==
    ASSUME NEW scores, NEW audible, NEW known, ~ known, NEW a, NEW i,
           Decide(scores, audible, known, a, i).speaker # None
    PROVE  /\ i \in audible
           /\ a[i] \in prototypes
           /\ Finite(scores[i][a[i]])
           /\ ~ LowMargin(scores[i])
           /\ ~ Contested(scores, audible, i, a[i])
<1>1. a[i] \in prototypes /\ Finite(scores[i][a[i]])
  BY LinkedIsScored
<1>2. QED
  BY <1>1 DEF Decide, Rejected, Linked

(* A source linked by the thresholds that is more alike somebody else would  *)
(* have been assigned to that speaker: taking it from whoever has it costs   *)
(* at most the two bonuses, and the margin is more.                          *)
LEMMA LinkedBest ==
    ASSUME prototypes \subseteq Speakers, NEW audible \in SUBSET Sources,
           NEW similarity \in [audible -> [prototypes -> Scores]], NEW keys,
           NEW scores, scores = RestrictToCandidates(BuildScoreMatrix(similarity), keys),
           NEW known, ~ known,
           NEW a \in LinearSumAssignment(Solvable(Extended(ApplyContinuityBonus(scores), known))),
           Cardinality(audible) <= 2, 2 * Bonus < AmbiguousMargin,
           NEW i \in Sources, Decide(scores, audible, known, a, i).speaker # None
    PROVE  \A c \in prototypes : scores[i][c] <= scores[i][a[i]]
<1> DEFINE m == Solvable(Extended(ApplyContinuityBonus(scores), known))
           j == a[i]
           p == ArgMax(scores[i])
<1>1. /\ scores \in ScoreRows
      /\ \A x \in Sources \ audible : \A c \in prototypes : ~ Finite(scores[x][c])
      /\ \A x, y \in audible : \A c \in prototypes : Finite(scores[x][c]) => Finite(scores[y][c])
  <2>1. ScoresOf(scores, audible)
    BY BaseScores
  <2>2. QED
    BY <2>1 DEF ScoresOf
<1>2. /\ m \in Matrices
      /\ \A x \in Sources : \A c \in prototypes : Finite(scores[x][c]) =>
             m[x][c] = scores[x][c] \/ m[x][c] = scores[x][c] + Bonus
      /\ \E floor : \A x \in Sources : \A c \in prototypes :
             ~ Finite(scores[x][c]) => m[x][c] = floor
  <2>1. SolvedFor(m, scores)
    BY <1>1, SolvedScores
  <2> HIDE DEF m
  <2>2. QED
    BY <2>1 DEF SolvedFor
<1>3. a \in LinearSumAssignment(m)
  OBVIOUS
<1>4. a \in [Sources -> Columns] /\ \A x, y \in Sources : a[x] = a[y] => x = y
  BY DEF LinearSumAssignment, Injection, IsInjective
<1> HIDE DEF m
<1>5. /\ i \in audible /\ j \in prototypes /\ Finite(scores[i][j])
      /\ ~ LowMargin(scores[i]) /\ ~ Contested(scores, audible, i, j)
  BY LinkedByThresholds
<1>6. \A x \in Sources : scores[x] \in [prototypes -> Int]
  <2>1. Scores \union {NegInf} \subseteq Int
    BY ScoreAssumption
  <2>2. \A x \in Sources : scores[x] \in [prototypes -> Scores \union {NegInf}]
    BY <1>1 DEF ScoreRows
  <2>3. QED
    BY <2>1, <2>2
<1>7. \A x \in Sources : /\ ArgMax(scores[x]) \in prototypes
                         /\ \A c \in prototypes : scores[x][c] <= scores[x][ArgMax(scores[x])]
  BY <1>5, <1>6, ArgMaxHighest
<1>8. SUFFICES ASSUME j # p PROVE FALSE
  BY <1>7
<1>9. scores[i][j] + AmbiguousMargin <= scores[i][p]
  BY <1>5, <1>6, <1>8, MarginHolds
<1>10. /\ p \in prototypes /\ p \in Columns /\ j \in Columns
       /\ Bonus \in Nat /\ AmbiguousMargin \in Nat
  BY <1>5, <1>7, ThresholdAssumption DEF Columns
<1> HIDE DEF p, j
<1>11. \A x \in Sources : \A c \in prototypes : ~ Finite(scores[x][c]) \/ scores[x][c] > NegInf
  <2>1. \A v \in Scores \union {NegInf} : ~ Finite(v) \/ v > NegInf
    BY ScoreAssumption DEF Finite
  <2>2. \A x \in Sources : \A c \in prototypes : scores[x][c] \in Scores \union {NegInf}
    BY <1>1 DEF ScoreRows
  <2>3. QED
    BY <2>1, <2>2
<1>12. scores[i][j] \in Int /\ scores[i][p] \in Int /\ NegInf \in Int
  BY <1>5, <1>6, <1>10, ScoreAssumption
<1>13. Finite(scores[i][p])
  <2>1. scores[i][j] > NegInf
    BY <1>5, <1>11
  <2>2. QED
    BY <1>9, <1>10, <1>12, <2>1 DEF Finite
(* i would gain more than a bonus.                                           *)
<1>14. m[i][j] \in Int /\ m[i][p] \in Int /\ m[i][j] + Bonus < m[i][p]
  <2>1. m[i][j] = scores[i][j] \/ m[i][j] = scores[i][j] + Bonus
    BY <1>2, <1>5
  <2>2. m[i][p] = scores[i][p] \/ m[i][p] = scores[i][p] + Bonus
    BY <1>2, <1>10, <1>13
  <2>3. QED
    BY <1>9, <1>10, <1>12, <2>1, <2>2
<1>15. PICK k \in Sources : a[k] = p
  <2>1. SUFFICES ASSUME \A x \in Sources : a[x] # p PROVE FALSE
    OBVIOUS
  <2>2. m[i][p] <= m[i][a[i]]
    BY <1>2, <1>3, <1>10, <2>1, NoFreeBetter
  <2>3. QED
    BY <1>10, <1>14, <2>2 DEF j
<1>16. i # k
  BY <1>8, <1>15 DEF j
(* The others take what is left without a loss.                              *)
<1>17. \A x \in Sources \ audible : \A c, d \in prototypes : m[x][c] = m[x][d] /\ m[x][c] \in Int
  <2>1. \A x \in Sources : \A c \in prototypes : m[x][c] \in Int
    BY <1>2 DEF Matrices, Columns
  <2>2. PICK floor : \A x \in Sources : \A c \in prototypes :
            ~ Finite(scores[x][c]) => m[x][c] = floor
    BY <1>2
  <2>3. \A x \in Sources \ audible : \A c \in prototypes : m[x][c] = floor
    BY <1>1, <2>2
  <2>4. QED
    BY <2>1, <2>3
<1>18. CASE k \notin audible
  <2>1. \A x \in Sources \ {i, k} : a[x] # j
    BY <1>4 DEF j
  <2>2. m[i][a[k]] + m[k][j] <= m[i][a[i]] + m[k][a[k]]
    BY <1>2, <1>3, <1>8, <1>10, <1>15, <1>16, <2>1, NoExchangeBetter
  <2>3. m[k][j] = m[k][p] /\ m[k][j] \in Int
    BY <1>5, <1>10, <1>17, <1>18
  <2>4. QED
    BY <1>10, <1>14, <1>15, <2>2, <2>3 DEF j
<1>19. CASE k \in audible
  <2> DEFINE q == ArgMax(scores[k])
  <2>1. Finite(scores[k][p])
    BY <1>1, <1>5, <1>10, <1>13, <1>19
  <2>2. /\ q \in prototypes /\ scores[k][p] <= scores[k][q]
        /\ scores[k][q] \in Int /\ scores[k][p] \in Int
    BY <1>6, <1>7, <1>10
  <2>3. Finite(scores[k][q])
    <3>1. scores[k][p] > NegInf
      BY <1>10, <1>11, <2>1
    <3>2. QED
      BY <1>12, <2>2, <3>1 DEF Finite
  <2>4. IsFiniteSet(audible)
    BY ColumnsFinite, FS_Subset
  <2>5. q # p
    <3>1. SUFFICES ASSUME q = p PROVE FALSE
      OBVIOUS
    <3>2. i \in Owners(scores, audible, p) /\ k \in Owners(scores, audible, p)
      BY <1>5, <1>13, <1>19, <2>1, <3>1 DEF Owners, p
    <3>3. IsFiniteSet(Owners(scores, audible, p))
      BY <2>4, FS_Subset DEF Owners
    <3>4. Cardinality(Owners(scores, audible, p)) > 1
      BY <1>16, <3>2, <3>3, OnlyTwo
    <3>5. QED
      BY <1>5, <1>8, <3>4 DEF Contested, p
  <2>6. audible = {i, k}
    BY <1>5, <1>16, <1>19, <2>4, OnlyTwo
  <2> HIDE DEF q
  <2>7. \A x \in Sources \ {i, k} : a[x] = q => m[x][q] <= m[x][a[i]]
    BY <1>5, <1>17, <2>2, <2>6 DEF j
  <2>8. q \in Columns
    BY <2>2 DEF Columns
  <2>9. m[i][a[k]] + m[k][q] <= m[i][a[i]] + m[k][a[k]]
    BY <1>2, <1>3, <1>15, <1>16, <2>5, <2>7, <2>8, NoExchangeBetter
  <2>10. m[k][p] = scores[k][p] \/ m[k][p] = scores[k][p] + Bonus
    BY <1>2, <1>10, <2>1
  <2>11. m[k][q] = scores[k][q] \/ m[k][q] = scores[k][q] + Bonus
    BY <1>2, <2>2, <2>3
  <2>12. m[k][p] \in Int /\ m[k][q] \in Int /\ m[k][p] <= m[k][q] + Bonus
    BY <1>10, <2>2, <2>10, <2>11
  <2>13. QED
    BY <1>10, <1>14, <1>15, <2>9, <2>12 DEF j
<1>20. QED
  BY <1>18, <1>19

(* One call of link_sources links every source to its best match.            *)
LEMMA LinkSourcesBest ==
    ASSUME prototypes \subseteq Speakers, NEW audible \in SUBSET Sources,
           NEW similarity \in [audible -> [prototypes -> Scores]],
           NEW active, LinkSources(similarity, active)
    PROVE  BestMatch'
<1>1. /\ embedded' = audible
      /\ prototypes' = prototypes
      /\ base' = RestrictToCandidates(BuildScoreMatrix(similarity), candidates')
  BY DEF LinkSources
<1>2. PICK a \in LinearSumAssignment(
                    Solvable(Extended(ApplyContinuityBonus(base'), constrained'))) :
          decisions' = [i \in Sources |-> Decide(base', embedded', constrained', a, i)]
  BY DEF LinkSources
<1>3. SUFFICES ASSUME Cardinality(audible) <= 2, ~ constrained', 2 * Bonus < AmbiguousMargin,
                      NEW i \in Sources, decisions'[i].speaker # None
               PROVE  \A j \in prototypes : base'[i][j] <= base'[i][decisions'[i].speaker]
  BY <1>1, <1>2 DEF BestMatch
<1>4. Decide(base', audible, constrained', a, i).speaker # None /\ decisions'[i].speaker = a[i]
  BY <1>1, <1>2, <1>3, DecideKeepsAssigned
<1>5. QED
  BY <1>1, <1>2, <1>3, <1>4, LinkedBest

(* BestMatch: with at most two embedded sources and a margin of more than    *)
(* two bonuses, a source that passes the thresholds is linked to the speaker *)
(* it is most alike, whoever the assignment and the continuity bonus favour. *)
THEOREM LinkedToBestMatch == LinkSpec => []BestMatch
<1> DEFINE Inv == prototypes \subseteq Speakers /\ BestMatch
<1>1. LinkInit => Inv
  BY DEF LinkInit, NoCall, BestMatch
<1>2. Inv /\ [LinkNext]_linkVars => Inv'
  <2> SUFFICES ASSUME Inv, [LinkNext]_linkVars PROVE Inv'
    OBVIOUS
  <2>1. CASE UNCHANGED linkVars
    BY <2>1 DEF linkVars, BestMatch
  <2>2. ASSUME NEW audible \in SUBSET Sources, NEW active,
               NEW similarity \in [audible -> [prototypes -> Scores]],
               LinkSources(similarity, active)
        PROVE  Inv'
    <3>1. prototypes' = prototypes
      BY <2>2 DEF LinkSources
    <3>2. QED
      BY <2>2, <3>1, LinkSourcesBest
  <2>3. ASSUME NEW audible, NEW active, LinkNobody(audible, active)
        PROVE  Inv'
    BY <2>3 DEF LinkNobody, BestMatch, Rejected
  <2>4. ASSUME NEW mapping, NEW learned \in SUBSET Speakers, Continue(mapping, learned)
        PROVE  Inv'
    BY <2>4 DEF Continue, BestMatch
  <2>5. SUBSET Temporaries \subseteq SUBSET Speakers
    BY TemporariesAssumption
  <2>6. QED
    BY <2>1, <2>2, <2>3, <2>4, <2>5 DEF LinkNext, NextWindow, NextRegion
<1>3. QED
  BY <1>1, <1>2, PTL DEF LinkSpec
=============================================================================
