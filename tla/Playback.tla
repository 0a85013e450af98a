-------------------------------- MODULE Playback --------------------------------
(*****************************************************************************)
(* One voice from startVoice to reset: where it reads in its sample, block   *)
(* by block, and when its envelope frees it.                                 *)
(*                                                                           *)
(* A voice renders the preloaded head of a sample until the loading thread   *)
(* has delivered the file.  The host asks for blocks of any size.  Positions *)
(* are in half frames, so that a pitch moves the voice by less than a frame  *)
(* or by a frame and a half.  Of the interpolation, the two frames loaded and *)
(* their weights are kept; what the frames hold, gains and channels are not. *)
(* Which handlers call release, and when, is the subject of Synth.           *)
(*****************************************************************************)
EXTENDS Envelope, Sequences

CONSTANTS
    Sounds,             \* the regions that the voice may be started with
    BlockSizes,         \* sizes of the blocks of the host
    Delays              \* offsets in a block, given by the caller

\* A sound: generator (sample name with a star), loops (loopMode is one of the
\* loop_ modes), sampleEnd (within the file), loopStart, loopEnd, preloaded
\* (frames of its head), offset, offsetRandom, delay, step (half frames per
\* frame rendered) and lengths (of the stages of the envelope).
TrueSampleEnd(d) == Least(d.sampleEnd, d.loopEnd)

Descriptions ==
    [generator : BOOLEAN, loops : BOOLEAN, sampleEnd : Nat, loopStart : Nat,
     loopEnd : Nat, preloaded : Nat, offset : Nat,
     offsetRandom : Nat, delay : Nat, step : Nat, lengths : [Timed -> Nat]]

\* A sound that ends within its head never uses the file.
CanUsePreloadedData(d) == TrueSampleEnd(d) < d.preloaded

\* The frames that a voice has at last: those of the head, or those that
\* enqueueLoading asks of the file, which is read up to the end of the sample.
FramesAtLast(d) == IF CanUsePreloadedData(d) THEN d.preloaded ELSE TrueSampleEnd(d)

\* A sound that has a loop mode, and a loop whose end is among these frames.  Any
\* other sound with a loop mode never turns back: a region with neither loop opcodes
\* nor loop points in its file keeps the default end of the loop, which is beyond
\* every file, and a loop that goes on after the end opcode is cut off, but where
\* the head happens to hold its end.
Loops(d) == d.loops /\ d.loopEnd <= FramesAtLast(d)

\* What loadSfzFile establishes: the head covers every offset.  What it does
\* not: an offset may be beyond the end, and a loop
\* shorter than a step, which one turn back would not be enough for; such sounds
\* are left out.
SoundsAssumption ==
    /\ BlockSizes \subseteq Nat \ {0} /\ Delays \subseteq Nat
    /\ Sounds \subseteq Descriptions
    /\ \A d \in Sounds : ~ d.generator =>
        /\ d.step > 0
        /\ d.offset + d.offsetRandom < TrueSampleEnd(d) - 1
        /\ d.offset + d.offsetRandom < d.preloaded - 1
        /\ Loops(d) => 2 * (TrueSampleEnd(d) - 1 - d.loopStart) >= d.step + 1

ASSUME SoundsAssumption

VARIABLES
    state,              \* Voice::state
    region,             \* the sound, or NoRegion
    sourcePosition,     \* the last frame read
    floatPositionOffset, \* half frames beyond it: 0, 1, or 2 once clamped
    initialDelay,       \* frames until the sample begins
    egEnvelope,
    dataReady,          \* the file has been delivered
    byValues,           \* history: the envelope, had it been taken by samples
    due,                \* history: where an endless tape would be, in half
                        \* frames; counted within the loop for a sound that
                        \* loops, and stopped with the voice at an end
    starved             \* history: the voice has come to the end of the head
                        \* while the file was missing

vars == <<state, region, sourcePosition, floatPositionOffset, initialDelay,
          egEnvelope, dataReady, byValues, due, starved>>

NoRegion == [generator |-> TRUE]

NoLengths == [stage \in Timed |-> 0]

Init ==
    /\ state = "idle"
    /\ region = NoRegion
    /\ sourcePosition = 0
    /\ floatPositionOffset = 0
    /\ initialDelay = 0
    /\ egEnvelope = [Reset(NoLengths) EXCEPT !.stage = "Done"]
    /\ byValues = egEnvelope
    /\ dataReady = FALSE
    /\ due = 0
    /\ starved = FALSE

-----------------------------------------------------------------------------

\* The half frames in a turn of the loop.
LoopLength(d) == 2 * (TrueSampleEnd(d) - 1 - d.loopStart)

\* Where the tape is, once `halves' further than `from'.
Along(d, from, halves) ==
    IF Loops(d) THEN (from + halves) % LoopLength(d) ELSE from + halves

\* Mutant: the envelope does not know the delay of the caller.
StartVoiceEarly(d, delay, offset) ==
    /\ region = NoRegion
    /\ state' = "playing"
    /\ region' = d
    /\ sourcePosition' = offset
    /\ initialDelay' = delay + d.delay
    /\ egEnvelope' = Reset([d.lengths EXCEPT !["Delay"] = @ + d.delay])
    /\ byValues' = egEnvelope'
    /\ due' = IF d.generator THEN 0 ELSE Along(d, 2 * offset, 0)
    /\ starved' = FALSE
    /\ UNCHANGED <<floatPositionOffset, dataReady>>

\* startVoice, with getOffset and getDelay, and prepareEGEnvelope.
StartVoice(d, delay, offset) ==
    /\ region = NoRegion
    /\ state' = "playing"
    /\ region' = d
    /\ sourcePosition' = offset
    /\ initialDelay' = delay + d.delay
    /\ egEnvelope' = Reset([d.lengths EXCEPT !["Delay"] = @ + delay + d.delay])
    /\ byValues' = egEnvelope'
    /\ due' = IF d.generator THEN 0 ELSE Along(d, 2 * offset, 0)
    /\ starved' = FALSE
    /\ UNCHANGED <<floatPositionOffset, dataReady>>

\* Voice::release, called by the handlers of note-offs, pedals and off groups.
Release(delay) ==
    /\ state = "playing"
    /\ state' = "release"
    /\ egEnvelope' = StartRelease(egEnvelope, delay)
    /\ byValues' = StartRelease(byValues, delay)
    /\ UNCHANGED <<region, sourcePosition, floatPositionOffset, initialDelay,
                   dataReady, due, starved>>

\* setFileData.
FileArrives ==
    /\ region # NoRegion /\ ~ region.generator
    /\ ~ dataReady
    /\ dataReady' = TRUE
    /\ UNCHANGED <<state, region, sourcePosition, floatPositionOffset,
                   initialDelay, egEnvelope, byValues, due, starved>>

\* Voice::reset.  The envelope and the delay stay until the next startVoice.
ResetFields ==
    /\ state' = "idle"
    /\ region' = NoRegion
    /\ sourcePosition' = 0
    /\ floatPositionOffset' = 0
    /\ dataReady' = FALSE

\* findFreeVoice takes a voice that canBeStolen.
Steal ==
    /\ state = "release"
    /\ ResetFields
    /\ UNCHANGED <<initialDelay, egEnvelope, byValues, due, starved>>

-----------------------------------------------------------------------------
(*****************************************************************************)
(* fillWithData, for n frames.                                               *)
(*****************************************************************************)

\* Mutant: the file is used only where the head is enough.
UsesFileSwapped(d) == CanUsePreloadedData(d) /\ dataReady

UsesFile(d) == ~ CanUsePreloadedData(d) /\ dataReady

\* The head is not enough, and there is nothing else.
Waits(d) == ~ CanUsePreloadedData(d) /\ ~ dataReady

\* getNumFrames of the source that the block is read from.
SourceFrames(d) == IF UsesFile(d) THEN FramesAtLast(d) ELSE d.preloaded

\* Mutant: the end is one frame late.
SampleEndLate(d) == Least(TrueSampleEnd(d), SourceFrames(d))

SampleEnd(d) == Least(TrueSampleEnd(d), SourceFrames(d)) - 1

\* The end of a loop may be missing from the head.
LoopsInSource(d) == d.loops /\ d.loopEnd <= SourceFrames(d)

\* Mutant: the fraction of the last position is lost between two blocks.
JumpRounded(k) == k * region.step

\* jumps, after cumsum.
Jump(k) == floatPositionOffset + k * region.step

\* indices, after sfzInterpolationCast and add.
Straight(k) == sourcePosition + Jump(k) \div 2

\* How often the loop has been subtracted from the k-th index: a turn
\* is subtracted from an index beyond the end and from all that follow it.
Turns(n) ==
    LET offset == SampleEnd(region) - region.loopStart
        turns[k \in 0 .. n] ==
            IF k = 0
              THEN 0
              ELSE LET before == turns[k - 1]
                       beyond == Straight(k) - offset * before > SampleEnd(region)
                   IN  IF beyond THEN before + 1 ELSE before
    IN  [k \in 1 .. n |-> turns[k] * offset]

Clamped(k) == ~ LoopsInSource(region) /\ Straight(k) > SampleEnd(region)

Indices(n) ==
    IF LoopsInSource(region)
      THEN LET turns == Turns(n) IN [k \in 1 .. n |-> Straight(k) - turns[k]]
      ELSE [k \in 1 .. n |-> Least(Straight(k), SampleEnd(region))]

\* The weight of the second frame, in halves: the fraction of the position, or all
\* of it once clamped.  The first frame has the rest.
RightCoeff(k) == IF Clamped(k) THEN 2 ELSE Jump(k) % 2

\* The frames loaded for an index, whatever their weights.
Loads(index) == {index, index + 1}

\* Those that have a weight.
Weighted(k, index) == {f \in Loads(index) : RightCoeff(k) # IF f = index THEN 2 ELSE 0}

\* Mutant: the end is noticed once a whole block is beyond it.
EndsInLate(indices, n) ==
    /\ state # "release" /\ ~ region.loops
    /\ indices[1] = SampleEnd(region) /\ indices[n] = SampleEnd(region)

\* Mutant: a voice whose file is missing waits for it.
EndsInWaiting(indices, n) ==
    /\ state # "release" /\ ~ region.loops
    /\ indices[n] = TrueSampleEnd(region) - 1

\* The end of the sample is reached, and nothing has released the voice yet.
EndsIn(indices, n) ==
    state # "release" /\ ~ region.loops /\ indices[n] = SampleEnd(region)

\* Mutant: the frame that reads the end is counted too.
FramesBeforeEndCounted(indices) ==
    CHOOSE k \in DOMAIN indices :
        /\ indices[k] = SampleEnd(region)
        /\ \A j \in 1 .. k - 1 : indices[j] # SampleEnd(region)

\* `last': the frames before the first one that reads the end.
FramesBeforeEnd(indices) ==
    (CHOOSE k \in DOMAIN indices :
        /\ indices[k] = SampleEnd(region)
        /\ \A j \in 1 .. k - 1 : indices[j] # SampleEnd(region)) - 1

\* fillWithData for the frames that remain after the delay, which read
\* `indices'.  A release it asks for counts from the beginning of the sample in this
\* block; the envelope counts from the beginning of the block.
FillWithData(indices) ==
    LET n == Len(indices)
        ends == EndsIn(indices, n)
        held == Waits(region) /\ (ends \/ Clamped(n))
    IN  /\ sourcePosition' = indices[n]
        /\ floatPositionOffset' = RightCoeff(n)
        /\ state' = IF ends THEN "release" ELSE state
        /\ due' = IF Clamped(n) THEN due ELSE Along(region, due, n * region.step)
        /\ starved' = (starved \/ held)

AskedToEnd(e, indices) ==
    IF indices # <<>> /\ EndsIn(indices, Len(indices))
      THEN StartRelease(e, FramesBeforeEnd(indices))
      ELSE e

\* What fillWithData reads in a block, after the delay; a generator reads nothing.
ReadInBlock(frames) ==
    IF region.generator THEN <<>> ELSE Indices(frames - Least(initialDelay, frames))

\* renderBlock: the delay, the sample, the envelope, and the end of the voice.
RenderBlock(frames) ==
    /\ state # "idle"
    /\ initialDelay' = initialDelay - Least(initialDelay, frames)
    /\ \E indices \in {ReadInBlock(frames)} :
        \E eg \in {AskedToEnd(egEnvelope, indices)},
           values \in {AskedToEnd(byValues, indices)} :
            /\ egEnvelope' = GetBlock(eg, frames)
            /\ byValues' = GetValues(values, frames)
            /\ IF ~ IsSmoothing(egEnvelope')
                 THEN ResetFields /\ UNCHANGED <<due, starved>>
                 ELSE /\ IF indices = <<>>
                           THEN UNCHANGED <<state, sourcePosition,
                                            floatPositionOffset, due, starved>>
                           ELSE FillWithData(indices)
                      /\ UNCHANGED <<region, dataReady>>

-----------------------------------------------------------------------------

Start ==
    \E d \in Sounds, delay \in Delays :
        \E offset \in IF d.generator THEN {0}
                        ELSE d.offset .. d.offset + d.offsetRandom :
            StartVoice(d, delay, offset)

Render == \E frames \in BlockSizes : RenderBlock(frames)

Next ==
    \/ Start
    \/ \E delay \in Delays : Release(delay)
    \/ FileArrives
    \/ Steal
    \/ Render

Spec == Init /\ [][Next]_vars

\* The host asks for a block again and again, of whatever size.
FairSpec == Spec /\ WF_vars(Render)

-----------------------------------------------------------------------------
(*****************************************************************************)
(* Properties.                                                               *)
(*****************************************************************************)

Reading == region # NoRegion /\ ~ region.generator

\* Whatever block the host asks for next, the two frames that fillWithData loads for
\* each frame rendered are frames of the source before the end of the sample: the loop
\* turns back in time, and the end clamps.  Only on the last of them, at an
\* end or a turn, is the second frame the one after it; no load goes further.
ReadsInSample ==
    Reading =>
        \A n \in BlockSizes :
            LET indices == Indices(n)
            IN  \A k \in 1 .. n : \A f \in Loads(indices[k]) :
                    \/ f \in 0 .. SourceFrames(region) - 1 /\ f < TrueSampleEnd(region)
                    \/ f = indices[k] + 1 /\ indices[k] = SampleEnd(region)

\* A voice that has not been released hears frames of its source only, whatever block is
\* next: the frame that reads the end, which has the frame after it as its second, is
\* silenced with all that follow it, and the frames before it need none that is not there.
\* A released voice, which nothing silences in the blocks after its end, and one with a
\* loop mode, which has no end, do go on with the frame behind the source.
HeardIsInSource ==
    Reading /\ state = "playing" /\ ~ region.loops =>
        \A n \in BlockSizes :
            LET indices == Indices(n)
                heard == IF EndsIn(indices, n) THEN FramesBeforeEnd(indices) ELSE n
            IN  \A k \in 1 .. heard :
                    \A f \in Weighted(k, indices[k]) : f < SourceFrames(region)

\* However the time is cut into blocks, and whenever the file arrives in
\* it, the voice is where an endless tape would be: nothing is skipped, repeated or
\* rounded away between two blocks.  Held at the end of the head, it lags, and a voice at
\* the end of its sample waits there.
OnTape ==
    Reading /\ ~ starved =>
        LET at == 2 * sourcePosition + floatPositionOffset
        IN  IF Loops(region)
              THEN at % LoopLength(region) = due
              ELSE sourcePosition < SampleEnd(region) => at = due

\* A voice that has come to the end of what it plays has been released: it
\* does not sit on the last frame.
EndIsNoticed ==
    Reading /\ state = "playing" /\ ~ region.loops =>
        sourcePosition < SampleEnd(region)

\* A sample and its envelope begin together: both count the same delay.
BeginTogether ==
    Reading /\ initialDelay > 0 /\ egEnvelope.stage = "Delay" =>
        egEnvelope.left["Delay"] = initialDelay + region.lengths["Delay"]

\* getBlock is getNextValue in blocks of any size, as long as nothing
\* is released.
BlocksAreValues ==
    ~ egEnvelope.shouldRelease =>
        /\ egEnvelope.stage = byValues.stage
        /\ egEnvelope.left = byValues.left

\* The unit tests expect the same samples of getBlock as of getNextValue: when
\* the blocks have come to the end of the release, so have the values.
ReleaseIsWhole ==
    egEnvelope.stage = "Done" => byValues.left["Release"] = 0

\* A voice that ends by itself is released at the first frame that reads the end, even
\* between two frames of the file and whatever the block.  The frames are counted from
\* where the sample begins in the block: in the block in which its delay ends, the
\* release is early by the rest of the delay.
ReleaseMeetsEnd ==
    [][ state = "playing" /\ state' = "release" /\ sourcePosition' # sourcePosition
        => LET last == egEnvelope'.releaseDelay
           IN  /\ Straight(last + 1) >= SampleEnd(region)
               /\ last > 0 => Straight(last) < SampleEnd(region) ]_vars

\* A voice that ends by itself has played its sample to the end, unless the
\* file had not arrived.
PlaysToTheEnd ==
    [][ state = "playing" /\ state' = "release"
            /\ sourcePosition' # sourcePosition
        => sourcePosition' = TrueSampleEnd(region) - 1 \/ ~ dataReady ]_vars

\* A released voice becomes free, and so does one whose sample has an end, also
\* when the file never arrives.
VoicesAreFreed ==
    (state = "release" \/ (state = "playing" /\ Reading /\ ~ region.loops))
        ~> state = "idle"
=============================================================================
