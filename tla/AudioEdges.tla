------------------------------ MODULE AudioEdges ------------------------------
(***************************************************************************)
(* The audio of one segment: what the worker recorded is checked, its edges *)
(* are conditioned (audio_edges.rs), the entry is published, and every     *)
(* later build checks the entry again before it reuses it (cache.rs).      *)
(*                                                                         *)
(* A sample is its magnitude.  An analysis frame is two samples, the       *)
(* required silence two frames and the longest ramp one frame, the         *)
(* proportions of the ratified 5 ms, 10 ms and 5 ms.                       *)
(***************************************************************************)
EXTENDS Integers, Sequences, SequencesExt, FiniteSetsExt, Folds

CONSTANTS
    Magnitudes,   \* what a sample can measure; FullScale is the largest in range
    MaxRecorded,  \* bound: samples the worker writes
    MaxSegment    \* max_segment_frames

ASSUME AudioAssumption == Magnitudes \subseteq Nat /\ MaxSegment \in Nat

FullScale == 6
AnalysisFrame == 2
RequiredSilence == 4
MaxTransitionRamp == 2
\* The provisional silence threshold, squared.
SilenceSquared == 10

Zeros(n) == [i \in 1 .. n |-> 0]
AtMost(a, b) == IF a <= b THEN a ELSE b
AtLeastZero(a) == IF a < 0 THEN 0 ELSE a

\* frame_rms(frame) <= threshold; an empty frame is silent.
IsSilent(frame) ==
    FoldSeq(LAMBDA s, sum : s * s + sum, 0, frame) <= SilenceSquared * Len(frame)

-----------------------------------------------------------------------------
\* leading_silent_samples: whole frames up to the first that is loud.  A remainder
\* shorter than a frame that is silent too makes the whole of it silent.
LoudFrames(samples) ==
    {k \in 1 .. Len(samples) \div AnalysisFrame :
        ~IsSilent(SubSeq(samples, (k - 1) * AnalysisFrame + 1, k * AnalysisFrame))}
SilentFrames(samples, loud) == IF loud = {} THEN Len(samples) \div AnalysisFrame ELSE Min(loud) - 1
WithRemainder(samples, silent) ==
    IF Len(samples) - silent < AnalysisFrame /\ IsSilent(SubSeq(samples, silent + 1, Len(samples)))
    THEN Len(samples) ELSE silent
LeadingSilence(samples) ==
    WithRemainder(samples, AnalysisFrame * SilentFrames(samples, LoudFrames(samples)))

\* measure_edge_silence.  trailing_silent_samples counts its frames from the end, so
\* the two can overlap.
SilenceFrom(samples, leading) ==
    [leading |-> leading,
     trailing |-> IF leading = Len(samples) THEN leading ELSE LeadingSilence(Reverse(samples))]
EdgeSilence(samples) == SilenceFrom(samples, LeadingSilence(samples))

Overlap(samples, silence) ==
    silence.leading # Len(samples) /\ silence.leading + silence.trailing > Len(samples)
SilencesMeet(samples) == Overlap(samples, EdgeSilence(samples))

\* raised_cosine_gain(offset, length), exact for the lengths of this scale.
Ramped(sample, offset, length) == (sample * offset) \div length

\* Mutant: the two ramps may meet past the middle.
RampOfTheWholeSpeech(first, last) ==
    IF last < first THEN MaxTransitionRamp ELSE AtMost(MaxTransitionRamp, last - first)

\* Half the speech at most.  Past an overlap the unsigned difference is huge.
RampLength(first, last) ==
    IF last < first THEN MaxTransitionRamp ELSE AtMost(MaxTransitionRamp, (last - first) \div 2)

\* condition_edges: both silences become zeros and are extended to the required
\* length, and the speech between them fades in and out.
Padding(silence) == AtLeastZero(RequiredSilence - silence)

PadEdges(samples, silence) ==
    Zeros(Padding(silence.leading))
    \o [i \in DOMAIN samples |->
           IF i <= silence.leading \/ i > AtLeastZero(Len(samples) - silence.trailing) THEN 0 ELSE samples[i]]
    \o Zeros(Padding(silence.trailing))

\* apply_leading_ramp and apply_trailing_ramp.
ApplyRamps(samples, first, last, ramp) ==
    [i \in DOMAIN samples |->
        IF i > first /\ i <= first + ramp THEN Ramped(samples[i], i - first - 1, ramp)
        ELSE IF i <= last /\ i > last - ramp THEN Ramped(samples[i], last - i, ramp)
        ELSE samples[i]]

Conditioning(silence, ramp) ==
    [leading_padding |-> Padding(silence.leading), trailing_padding |-> Padding(silence.trailing),
     leading_ramp |-> ramp, trailing_ramp |-> ramp]

\* wraps: the build does not check the subtraction of the two boundaries.
FadeEdges(padded, silence, wraps) ==
    LET first == silence.leading + Padding(silence.leading)
        last == Len(padded) - (silence.trailing + Padding(silence.trailing))
        ramp == RampLength(first, last)
    IN  [ends |-> first <= last \/ (wraps /\ first + ramp <= Len(padded) /\ last >= ramp),
         samples |-> ApplyRamps(padded, first, last, ramp),
         conditioning |-> Conditioning(silence, ramp)]

ConditionWithin(samples, silence, wraps) ==
    IF silence.leading = Len(samples)
    THEN [ends |-> TRUE, samples |-> PadEdges(samples, silence), conditioning |-> Conditioning(silence, 0)]
    ELSE FadeEdges(PadEdges(samples, silence), silence, wraps)
ConditionEdges(samples, wraps) == ConditionWithin(samples, EdgeSilence(samples), wraps)

-----------------------------------------------------------------------------
\* validate_wav, of a file in the canonical format.
WavFault(samples) ==
    LET bad == {i \in DOMAIN samples : samples[i] > FullScale \/ i > MaxSegment}
    IN  IF samples = <<>> THEN "Empty"
        ELSE IF bad = {} THEN "ok"
        ELSE IF samples[Min(bad)] > FullScale THEN "OutOfRangeSample" ELSE "TooLong"

\* check_exposed_endpoints and check_edge_silence.
ExposedEndpoint(samples) == samples[1] # 0 \/ samples[Len(samples)] # 0
IsShort(silence) == silence.leading < RequiredSilence \/ silence.trailing < RequiredSilence
InsufficientSilence(samples) == IsShort(EdgeSilence(samples))

\* check_declared_conditioning: what the entry says of its ramps and its padding is
\* bounded by the geometry, and by what its audio leaves room for and shows.
ConditioningFault(declared, samples) ==
    LET longest == AtMost(MaxTransitionRamp, AtLeastZero(Len(samples) - 2 * RequiredSilence) \div 2)
        sounding == {i \in DOMAIN samples : samples[i] # 0}
        shortest == IF sounding = {} \/ Min(sounding) = Max(sounding) THEN 0
                    ELSE AtMost(longest, (Max(sounding) - Min(sounding) + 3) \div 2)
        ramps == {declared.leading_ramp, declared.trailing_ramp}
    IN  IF \/ \E ramp \in ramps : ramp > MaxTransitionRamp
           \/ declared.leading_padding > RequiredSilence \/ declared.trailing_padding > RequiredSilence
        THEN "ConditioningOutsideRatifiedGeometry"
        ELSE IF \/ \E ramp \in ramps : ramp \notin shortest .. longest
                \/ declared.leading_ramp # declared.trailing_ramp
        THEN "ConditioningInconsistentWithAudio" ELSE "ok"

\* load_entry's checks of the audio, in their order.
EntryFault(e) ==
    IF WavFault(e.samples) # "ok" THEN WavFault(e.samples)
    ELSE IF ExposedEndpoint(e.samples) THEN "ExposedEndpointNotZero"
    ELSE IF InsufficientSilence(e.samples) THEN "InsufficientEdgeSilence"
    ELSE IF ConditioningFault(e.conditioning, e.samples) # "ok" THEN ConditioningFault(e.conditioning, e.samples)
    ELSE IF Len(e.samples) # e.frames THEN "FrameCountMismatch" ELSE "ok"

-----------------------------------------------------------------------------
VARIABLES
    spoken,    \* the samples of the worker's file
    entry      \* the entry published from it, one or none

audioVars == <<spoken, entry>>

AudioInit == spoken = <<>> /\ entry = <<>>

\* The worker writes a sample.
WriteSample ==
    /\ entry = <<>> /\ Len(spoken) < MaxRecorded
    /\ \E s \in Magnitudes : spoken' = Append(spoken, s)
    /\ UNCHANGED entry

\* condition_staged_audio, and the publication of what it let through.  Of its checks
\* only the ceiling and the silence can refuse.
PublishConditioned ==
    /\ entry = <<>> /\ WavFault(spoken) = "ok"
    /\ \E staged \in {ConditionEdges(spoken, wraps) : wraps \in BOOLEAN} :
          /\ staged.ends
          /\ Len(staged.samples) <= MaxSegment
          /\ ~ExposedEndpoint(staged.samples) /\ ~InsufficientSilence(staged.samples)
          /\ entry' = <<[samples |-> staged.samples, conditioning |-> staged.conditioning,
                         frames |-> Len(staged.samples)]>>
    /\ UNCHANGED spoken

AudioNext == WriteSample \/ PublishConditioned

AudioSpec == AudioInit /\ [][AudioNext]_audioVars

-----------------------------------------------------------------------------
\* cache.rs:1358-1361 says of the staged audio that conditioning satisfies the checks
\* of reuse by construction: no published entry is refused by the build that reads it.
EntryIsReadAgain == \A e \in ToSet(entry) : EntryFault(e) = "ok"

\* Where the two silences of a performance do not overlap, its entry passes every check
\* of a later build, and holds the speech sample by sample but for the two ramps:
\* the measurement, the padding, the ramps and the bounds of check_declared_conditioning
\* are computed apart and have to agree for every length and level.
ConditionedSpeechIsUsable ==
    \A e \in ToSet(entry) : ~SilencesMeet(spoken) =>
        /\ EntryFault(e) = "ok"
        /\ \A silence \in {EdgeSilence(spoken)} :
              \A i \in silence.leading + e.conditioning.leading_ramp + 1
                      .. Len(spoken) - silence.trailing - e.conditioning.leading_ramp :
                 e.samples[i + e.conditioning.leading_padding] = spoken[i]
=============================================================================
