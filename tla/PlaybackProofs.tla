----------------------------- MODULE PlaybackProofs -----------------------------
(*****************************************************************************)
(* What holds of a voice for every sound, pitch and sequence of blocks.      *)
(*                                                                           *)
(* The first part is about sounds that end, the second about the delay that  *)
(* all sounds have.  The others go through the two recursions of Playback,   *)
(* the turns of a loop and the envelope by samples.  Each is a function on   *)
(* 0 .. n: that it exists, and what it is, is shown by induction on the set  *)
(* of the numbers up to which it is known.                                   *)
(*****************************************************************************)
EXTENDS Playback, SequenceTheorems, NaturalsInduction, WellFoundedInduction, TLAPS

\* The voice has a sample that it plays to an end.
Straightforward == Reading /\ ~ region.loops

\* The types of what decides where a voice is.
Placed ==
    /\ region \in Sounds \cup {NoRegion}
    /\ initialDelay \in Nat
    /\ dataReady \in BOOLEAN
    /\ Straightforward => sourcePosition \in Nat
    /\ Straightforward \/ region = NoRegion => floatPositionOffset \in Nat

EndInv == Placed /\ EndIsNoticed

-----------------------------------------------------------------------------
\* What a load establishes of a sound, in numbers.
LEMMA SoundNumbers ==
    ASSUME NEW d \in Sounds, ~ d.generator
    PROVE  /\ TrueSampleEnd(d) \in Nat /\ d.offset + d.offsetRandom < TrueSampleEnd(d) - 1
           /\ d.preloaded \in Nat
           /\ d.offset \in Nat /\ d.offsetRandom \in Nat
           /\ d.offset + d.offsetRandom < d.preloaded - 1
           /\ d.sampleEnd \in Nat /\ d.loopEnd \in Nat
           /\ d.step \in Nat /\ d.delay \in Nat /\ d.lengths \in [Timed -> Nat]
<1>1. d \in Descriptions
  BY SoundsAssumption DEF SoundsAssumption
<1>2. /\ d.sampleEnd \in Nat /\ d.loopEnd \in Nat
      /\ d.preloaded \in Nat /\ d.offset \in Nat /\ d.offsetRandom \in Nat
      /\ d.step \in Nat /\ d.delay \in Nat /\ d.lengths \in [Timed -> Nat]
  BY <1>1 DEF Descriptions
<1>3. TrueSampleEnd(d) \in Nat
  BY <1>2 DEF TrueSampleEnd, Least
<1> QED
  BY <1>2, <1>3, SoundsAssumption DEF SoundsAssumption

\* The voice has one of the sounds, and it is no generator.
LEMMA RegionIsSound ==
    ASSUME Placed, Reading
    PROVE  region \in Sounds /\ ~ region.generator
  BY Zenon DEF Placed, Reading

\* The source of a block: the head, or at last the file up to the end of the sample.
LEMMA SourceNumbers ==
    ASSUME NEW d \in Sounds, ~ d.generator
    PROVE  /\ SourceFrames(d) \in Nat /\ FramesAtLast(d) \in Nat
           /\ SourceFrames(d) = d.preloaded \/ SourceFrames(d) = FramesAtLast(d)
           /\ SourceFrames(d) = FramesAtLast(d) \/ Waits(d)
           /\ dataReady => SourceFrames(d) = FramesAtLast(d)
           /\ d.preloaded <= FramesAtLast(d) /\ TrueSampleEnd(d) <= FramesAtLast(d)
<1>1. TrueSampleEnd(d) \in Nat /\ d.preloaded \in Nat
  BY SoundNumbers
<1>2. CASE CanUsePreloadedData(d)
  <2>1. FramesAtLast(d) = d.preloaded /\ SourceFrames(d) = d.preloaded
    BY <1>2 DEF FramesAtLast, SourceFrames, UsesFile
  <2>2. TrueSampleEnd(d) < d.preloaded
    BY <1>2 DEF CanUsePreloadedData
  <2> QED BY <1>1, <2>1, <2>2
<1>3. CASE ~ CanUsePreloadedData(d)
  <2>1. FramesAtLast(d) = TrueSampleEnd(d) /\ d.preloaded <= TrueSampleEnd(d)
    BY <1>1, <1>3 DEF FramesAtLast, CanUsePreloadedData
  <2>2. SourceFrames(d) = IF dataReady THEN FramesAtLast(d) ELSE d.preloaded
    BY <1>3 DEF SourceFrames, UsesFile
  <2>3. dataReady \/ Waits(d)
    BY <1>3 DEF Waits
  <2> QED BY <1>1, <2>1, <2>2, <2>3
<1> QED
  BY <1>2, <1>3

\* The last frame of what a voice can read lies within the source.
LEMMA EndInSource ==
    ASSUME Placed, Reading
    PROVE  /\ SampleEnd(region) \in Nat
           /\ SampleEnd(region) < SourceFrames(region)
           /\ SampleEnd(region) < TrueSampleEnd(region)
<1>1. PICK d : d = region
  OBVIOUS
<1>2. d \in Sounds /\ ~ d.generator
  BY <1>1, RegionIsSound
<1>4. SourceFrames(d) \in Nat /\ SourceFrames(d) >= 1
  BY <1>2, SoundNumbers, SourceNumbers
<1>5. TrueSampleEnd(d) \in Nat /\ TrueSampleEnd(d) >= 1
  BY <1>2, SoundNumbers
<1>6. SampleEnd(d) = Least(TrueSampleEnd(d), SourceFrames(d)) - 1
  BY DEF SampleEnd
<1>7. /\ SampleEnd(d) \in Nat
      /\ SampleEnd(d) < SourceFrames(d) /\ SampleEnd(d) < TrueSampleEnd(d)
  BY <1>4, <1>5, <1>6 DEF Least
<1> QED
  BY <1>1, <1>7

\* Sounds without a loop read frame after frame and stop at the end.
LEMMA IndicesRise ==
    ASSUME Placed, Straightforward, NEW n \in Nat
    PROVE  /\ Len(Indices(n)) = n
           /\ Indices(n) = <<>> <=> n = 0
           /\ \A k \in 1 .. n :
                /\ Indices(n)[k] \in Nat
                /\ Indices(n)[k] <= SampleEnd(region)
           /\ \A k \in 1 .. n : Jump(k) \in Nat
<1>1. Reading /\ region \in Sounds /\ ~ region.generator
  BY RegionIsSound DEF Straightforward
<1>2. SampleEnd(region) \in Nat
  BY <1>1, EndInSource
<1>3. sourcePosition \in Nat /\ floatPositionOffset \in Nat
  BY DEF Placed
<1>4. ASSUME NEW k \in 1 .. n PROVE Jump(k) \in Nat
  <2>1. PICK step : step = region.step
    OBVIOUS
  <2>2. step \in Nat
    BY <1>1, <2>1, SoundNumbers
  <2> QED
    BY <1>3, <2>1, <2>2 DEF Jump
<1>5. \A x \in Nat : x \div 2 \in Nat
  OBVIOUS
<1>6. \A k \in 1 .. n : Straight(k) \in Nat
  BY <1>3, <1>4, <1>5 DEF Straight
<1>7. ~ LoopsInSource(region)
  BY DEF LoopsInSource, Straightforward
<1>8. Indices(n) = [k \in 1 .. n |-> Least(Straight(k), SampleEnd(region))]
  BY <1>7, Zenon DEF Indices
<1>9. \A k \in 1 .. n : /\ Least(Straight(k), SampleEnd(region)) \in Nat
                        /\ Least(Straight(k), SampleEnd(region)) <= SampleEnd(region)
  BY <1>2, <1>6 DEF Least
<1>10. PICK indices : indices = Indices(n)
  OBVIOUS
<1>11. /\ indices \in [1 .. n -> Nat]
       /\ \A k \in 1 .. n : indices[k] <= SampleEnd(region)
  BY <1>8, <1>9, <1>10
<1>12. indices \in Seq(Nat) /\ Len(indices) = n
  BY <1>11, LenProperties
<1>13. indices = <<>> <=> n = 0
  BY <1>12, EmptySeq
<1> QED
  BY <1>4, <1>10, <1>11, <1>12, <1>13

\* What a block does to a voice that still has a sample afterwards.
LEMMA BlockEffect ==
    ASSUME Placed, NEW frames \in BlockSizes, RenderBlock(frames)
    PROVE  /\ initialDelay' \in Nat
           /\ \/ ResetFields
              \/ /\ UNCHANGED <<region, dataReady>>
                 /\ UNCHANGED <<state, sourcePosition, floatPositionOffset, due, starved>>
              \/ /\ UNCHANGED <<region, dataReady>>
                 /\ ~ region.generator
                 /\ \E n \in 1 .. frames :
                       ReadInBlock(frames) = Indices(n) /\ FillWithData(Indices(n))
<1>1. frames \in Nat /\ initialDelay \in Nat
  BY SoundsAssumption DEF SoundsAssumption, Placed
<1>2. initialDelay' = initialDelay - Least(initialDelay, frames)
  BY DEF RenderBlock
<1>3. Least(initialDelay, frames) \in Nat /\ Least(initialDelay, frames) <= initialDelay
      /\ frames - Least(initialDelay, frames) \in Nat
  BY <1>1 DEF Least
<1>4. PICK indices, n : /\ indices = ReadInBlock(frames)
                        /\ n = frames - Least(initialDelay, frames)
  OBVIOUS
<1>5. \/ ResetFields
      \/ /\ UNCHANGED <<region, dataReady>>
         /\ IF indices = <<>>
              THEN UNCHANGED <<state, sourcePosition, floatPositionOffset, due, starved>>
              ELSE FillWithData(indices)
  BY <1>4 DEF RenderBlock
<1>6. indices = <<>> \/ (~ region.generator /\ indices = Indices(n))
  BY <1>4 DEF ReadInBlock
<1>7. Indices(0) = <<>>
  BY SMT DEF Indices, Turns
<1>8. CASE ResetFields
  BY <1>1, <1>2, <1>3, <1>8
<1>9. CASE /\ ~ ResetFields
           /\ indices = <<>>
  BY <1>1, <1>2, <1>3, <1>5, <1>9
<1>10. CASE ~ ResetFields /\ indices # <<>>
  <2>1. ~ region.generator /\ indices = Indices(n) /\ n # 0
    BY <1>6, <1>7, <1>10
  <2>3. n \in 1 .. frames
    BY <1>1, <1>3, <1>4, <2>1 DEF Least
  <2>2. UNCHANGED <<region, dataReady>> /\ FillWithData(indices)
    BY <1>5, <1>10
  <2> QED
    BY <1>1, <1>2, <1>3, <1>4, <2>1, <2>2, <2>3
<1> QED
  BY <1>8, <1>9, <1>10

\* The types hold, and a voice that comes to its end is released in that block.
LEMMA FillKeepsEnd ==
    ASSUME EndInv, ~ region.generator, NEW n \in Nat, n > 0, FillWithData(Indices(n)),
           UNCHANGED <<region, dataReady>>
    PROVE  /\ Straightforward' => sourcePosition' \in Nat
           /\ Straightforward' \/ region' = NoRegion => floatPositionOffset' \in Nat
           /\ EndIsNoticed'
<1>1. region # NoRegion
  BY DEF NoRegion
<1>2. SampleEnd(region)' = SampleEnd(region)
  BY DEF SampleEnd, TrueSampleEnd, SourceFrames, FramesAtLast, CanUsePreloadedData, UsesFile
<1>3. CASE ~ Straightforward
  BY <1>1, <1>3 DEF Straightforward, Reading, EndIsNoticed
<1>4. CASE Straightforward
  <2>1. PICK indices : indices = Indices(n)
    OBVIOUS
  <2>2. /\ Len(indices) = n /\ n \in 1 .. n
        /\ indices[n] \in Nat /\ indices[n] <= SampleEnd(region) /\ Jump(n) \in Nat
    BY <1>4, <2>1, IndicesRise DEF EndInv
  <2>3. /\ sourcePosition' = indices[n]
        /\ floatPositionOffset' = RightCoeff(n)
        /\ state' = IF EndsIn(indices, n) THEN "release" ELSE state
    BY <2>1, <2>2 DEF FillWithData
  <2>4. sourcePosition' \in Nat /\ floatPositionOffset' \in Nat
    BY <2>2, <2>3 DEF RightCoeff
  <2>5. ASSUME state' = "playing" PROVE sourcePosition' < SampleEnd(region)
    <3>1. state = "playing" /\ ~ EndsIn(indices, n)
      BY <2>3, <2>5
    <3>2. indices[n] # SampleEnd(region)
      BY <1>4, <3>1 DEF EndsIn, Straightforward
    <3>3. SampleEnd(region) \in Nat
      BY <1>4, EndInSource DEF EndInv, Straightforward
    <3> QED
      BY <2>2, <2>3, <3>2, <3>3
  <2> QED
    BY <1>2, <2>4, <2>5 DEF EndIsNoticed
<1> QED
  BY <1>3, <1>4

\* The file brings the end of the source no nearer.
LEMMA FileExtends ==
    ASSUME Placed, FileArrives
    PROVE  /\ Reading /\ Reading'
           /\ SampleEnd(region) \in Nat /\ SampleEnd(region)' \in Nat
           /\ SampleEnd(region) <= SampleEnd(region)'
<1>1. /\ Reading /\ Reading' /\ dataReady' = TRUE /\ ~ dataReady
      /\ UNCHANGED region
  BY DEF FileArrives, Reading
<1>2. PICK d : d = region
  OBVIOUS
<1>3. d \in Sounds /\ ~ d.generator
  BY <1>1, <1>2, RegionIsSound
<1>4. SourceFrames(d) = d.preloaded /\ SourceFrames(d)' \in {d.preloaded, FramesAtLast(d)}
  BY <1>1 DEF SourceFrames, UsesFile, FramesAtLast, CanUsePreloadedData, TrueSampleEnd
<1>5. SampleEnd(d) <= SampleEnd(d)' /\ SampleEnd(d) \in Nat /\ SampleEnd(d)' \in Nat
  <2>1. SampleEnd(d)' = Least(TrueSampleEnd(d), SourceFrames(d)') - 1
    BY DEF SampleEnd, TrueSampleEnd
  <2>2. SampleEnd(d) = Least(TrueSampleEnd(d), SourceFrames(d)) - 1
    BY DEF SampleEnd
  <2> QED
    BY <1>3, <1>4, <2>1, <2>2, SoundNumbers, SourceNumbers DEF Least
<1>6. SampleEnd(region)' = SampleEnd(d)'
  BY <1>1, <1>2 DEF SampleEnd, TrueSampleEnd, SourceFrames, FramesAtLast, UsesFile,
                CanUsePreloadedData
<1> QED
  BY <1>1, <1>2, <1>5, <1>6

LEMMA FileKeepsEnd ==
    ASSUME EndInv, FileArrives
    PROVE  EndInv'
<1>1. /\ dataReady' = TRUE
      /\ UNCHANGED <<state, region, sourcePosition, floatPositionOffset, initialDelay>>
  BY DEF FileArrives
<1>2. /\ Reading /\ Reading' /\ SampleEnd(region) \in Nat /\ SampleEnd(region)' \in Nat
      /\ SampleEnd(region) <= SampleEnd(region)'
  BY FileExtends DEF EndInv
<1>3. Placed'
  BY <1>1 DEF EndInv, Placed, Straightforward, Reading
<1>4. ASSUME state = "playing", ~ region.loops PROVE sourcePosition < SampleEnd(region)'
  <2>1. sourcePosition < SampleEnd(region) /\ sourcePosition \in Nat
    BY <1>2, <1>4 DEF EndInv, EndIsNoticed, Placed, Straightforward
  <2> QED
    BY <1>2, <2>1
<1>5. EndIsNoticed'
  BY <1>1, <1>4 DEF EndIsNoticed
<1> QED
  BY <1>3, <1>5 DEF EndInv

\* No offset is beyond the end, in the head or in the file.
LEMMA StartsBeforeEnd ==
    ASSUME NEW d \in Sounds, NEW delay \in Delays, NEW offset,
           offset \in (IF d.generator THEN {0} ELSE d.offset .. d.offset + d.offsetRandom),
           StartVoice(d, delay, offset)
    PROVE  /\ region = NoRegion /\ region' = d /\ sourcePosition' = offset
           /\ offset \in Nat /\ initialDelay' \in Nat
           /\ UNCHANGED <<floatPositionOffset, dataReady>>
           /\ ~ d.generator => SampleEnd(region)' \in Nat /\ offset < SampleEnd(region)'
<1>1. /\ region = NoRegion /\ region' = d /\ sourcePosition' = offset
      /\ initialDelay' = delay + d.delay
      /\ UNCHANGED <<floatPositionOffset, dataReady>>
  BY DEF StartVoice
<1>2. d.delay \in Nat /\ delay \in Nat
  <2>1. d \in Descriptions /\ delay \in Nat
    BY SoundsAssumption DEF SoundsAssumption
  <2> QED
    BY <2>1 DEF Descriptions
<1>3. CASE d.generator
  BY <1>1, <1>2, <1>3
<1>4. CASE ~ d.generator
  <2>1. offset \in Nat /\ offset <= d.offset + d.offsetRandom
    BY <1>4, SoundNumbers
  <2>2. SourceFrames(d)' \in {d.preloaded, FramesAtLast(d)}
    BY DEF SourceFrames, FramesAtLast, CanUsePreloadedData, TrueSampleEnd
  <2>3. SampleEnd(d)' = Least(TrueSampleEnd(d), SourceFrames(d)') - 1
    BY DEF SampleEnd, TrueSampleEnd
  <2>4. SampleEnd(d)' \in Nat /\ offset < SampleEnd(d)'
    BY <1>4, <2>1, <2>2, <2>3, SoundNumbers, SourceNumbers DEF Least
  <2>5. SampleEnd(region)' = SampleEnd(d)'
    BY <1>1 DEF SampleEnd, TrueSampleEnd, SourceFrames, FramesAtLast, UsesFile,
                CanUsePreloadedData
  <2> QED
    BY <1>1, <1>2, <2>1, <2>4, <2>5
<1> QED
  BY <1>3, <1>4

LEMMA StartKeepsEnd ==
    ASSUME EndInv, NEW d \in Sounds, NEW delay \in Delays, NEW offset,
           offset \in (IF d.generator THEN {0} ELSE d.offset .. d.offset + d.offsetRandom),
           StartVoice(d, delay, offset)
    PROVE  EndInv'
<1>1. /\ region = NoRegion /\ region' = d /\ sourcePosition' = offset
      /\ offset \in Nat /\ initialDelay' \in Nat
      /\ UNCHANGED <<floatPositionOffset, dataReady>>
      /\ ~ d.generator => SampleEnd(region)' \in Nat /\ offset < SampleEnd(region)'
  BY StartsBeforeEnd
<1> QED
  BY <1>1 DEF EndInv, Placed, EndIsNoticed, Straightforward, Reading

\* A voice that has been reset has no sample.
LEMMA ResetKeepsEnd ==
    ASSUME ResetFields, initialDelay' \in Nat
    PROVE  EndInv'
  BY DEF ResetFields, EndInv, Placed, EndIsNoticed, Straightforward, Reading

THEOREM EndInvariant == Spec => []EndInv
<1>1. Init => EndInv
  <2>1. Init => region = NoRegion /\ initialDelay = 0 /\ dataReady = FALSE
                /\ floatPositionOffset = 0
    BY DEF Init
  <2>2. Init => initialDelay \in Nat /\ floatPositionOffset \in Nat
    BY <2>1
  <2>3. Init => dataReady \in BOOLEAN
    BY <2>1, Zenon
  <2> QED
    BY <2>1, <2>2, <2>3, Zenon DEF EndInv, Placed, EndIsNoticed, Straightforward, Reading
<1>2. EndInv /\ [Next]_vars => EndInv'
  <2> SUFFICES ASSUME EndInv, [Next]_vars PROVE EndInv'
    OBVIOUS
  <2>1. CASE Start
    BY <2>1, StartKeepsEnd DEF Start
  <2>2. ASSUME NEW delay \in Delays, Release(delay) PROVE EndInv'
    BY <2>2 DEF Release, EndInv, Placed, EndIsNoticed, Straightforward, Reading
  <2>3. CASE FileArrives
    BY <2>3, FileKeepsEnd
  <2>4. CASE Steal
    BY <2>4, ResetKeepsEnd DEF Steal, EndInv, Placed
  <2>5. CASE Render
    <3>1. PICK frames \in BlockSizes : RenderBlock(frames)
      BY <2>5 DEF Render
    <3>2. initialDelay' \in Nat
      BY <3>1, BlockEffect DEF EndInv
    <3>3. CASE ResetFields
      BY <3>2, <3>3, ResetKeepsEnd
    <3>4. CASE /\ UNCHANGED <<region, dataReady>>
               /\ UNCHANGED <<state, sourcePosition, floatPositionOffset>>
      BY <3>2, <3>4 DEF EndInv, Placed, EndIsNoticed, Straightforward, Reading, SampleEnd,
                        TrueSampleEnd, SourceFrames, FramesAtLast, UsesFile,
                CanUsePreloadedData
    <3>5. ASSUME UNCHANGED <<region, dataReady>>, ~ region.generator,
                 NEW n \in Nat, n > 0, FillWithData(Indices(n))
          PROVE  EndInv'
      BY <3>2, <3>5, FillKeepsEnd DEF EndInv, Placed
    <3> QED
      BY <3>1, <3>3, <3>4, <3>5, BlockEffect DEF EndInv
  <2>6. CASE UNCHANGED vars
    BY <2>6 DEF vars, EndInv, Placed, EndIsNoticed, Straightforward, Reading, SampleEnd,
                TrueSampleEnd, SourceFrames, FramesAtLast, UsesFile,
                CanUsePreloadedData
  <2> QED
    BY <2>1, <2>2, <2>3, <2>4, <2>5, <2>6 DEF Next
<1> QED
  BY <1>1, <1>2, PTL DEF Spec

-----------------------------------------------------------------------------
\* EndIsNoticed, for every sound without a loop, pitch and sequence of blocks,
\* with the file early, late or missing.
THEOREM EndIsNoticedHolds == Spec => []EndIsNoticed
<1>1. EndInv => EndIsNoticed
  BY DEF EndInv
<1> QED
  BY <1>1, EndInvariant, PTL

\* With the file, the end of what a voice can read is the end of its sample.
LEMMA FileHasTheEnd ==
    ASSUME Placed, Reading, dataReady
    PROVE  SampleEnd(region) = TrueSampleEnd(region) - 1
<1>1. PICK d : d = region
  OBVIOUS
<1>2. d \in Sounds /\ ~ d.generator
  BY <1>1, RegionIsSound
<1>3. TrueSampleEnd(d) <= SourceFrames(d)
  BY <1>2, SourceNumbers
<1>4. SampleEnd(d) = TrueSampleEnd(d) - 1
  BY <1>3 DEF SampleEnd, Least
<1> QED
  BY <1>1, <1>4

\* PlaysToTheEnd, for every sound, pitch and sequence of blocks.
THEOREM PlaysToTheEndHolds == Spec => PlaysToTheEnd
<1> DEFINE Whole ==
      state = "playing" /\ state' = "release" /\ sourcePosition' # sourcePosition
        => sourcePosition' = TrueSampleEnd(region) - 1 \/ ~ dataReady
<1>1. EndInv /\ [Next]_vars => [Whole]_vars
  <2> SUFFICES ASSUME EndInv, [Next]_vars, state = "playing", state' = "release",
                      sourcePosition' # sourcePosition, dataReady
               PROVE  sourcePosition' = TrueSampleEnd(region) - 1
    BY DEF EndInv, Placed
  <2>1. Render
    BY DEF Next, vars, Start, StartVoice, Release, FileArrives, Steal
  <2>2. PICK frames \in BlockSizes : RenderBlock(frames)
    BY <2>1 DEF Render
  <2>3. ~ ResetFields
    BY DEF ResetFields
  <2>4. PICK n \in 1 .. frames : FillWithData(Indices(n)) /\ ~ region.generator
    BY <2>2, <2>3, BlockEffect DEF EndInv
  <2>5. PICK indices : indices = Indices(n)
    OBVIOUS
  <2>6. /\ sourcePosition' = indices[Len(indices)]
        /\ state' = IF EndsIn(indices, Len(indices)) THEN "release" ELSE state
    BY <2>4, <2>5 DEF FillWithData
  <2>7. sourcePosition' = SampleEnd(region)
    BY <2>6 DEF EndsIn
  <2>8. Reading
    BY <2>4 DEF Reading, NoRegion
  <2> QED
    BY <2>7, <2>8, FileHasTheEnd DEF EndInv
<1> QED
  BY <1>1, EndInvariant, PTL DEF Spec, PlaysToTheEnd

-----------------------------------------------------------------------------
(* The delay.                                                                *)

\* One case of the switch keeps the types and touches only its own stage.
LEMMA CaseEffect ==
    ASSUME NEW stage \in Timed, NEW b \in Blocks
    PROVE  /\ Case(stage)[b] \in Blocks
           /\ b.env.stage # stage => Case(stage)[b] = b
           /\ b.env.stage # "Delay" => Case(stage)[b].env.stage # "Delay"
           /\ Case(stage)[b].env.releaseDelay = b.env.releaseDelay
           /\ Case(stage)[b].env.shouldRelease = b.env.shouldRelease
<1>1. /\ b = [env |-> b.env, remaining |-> b.remaining]
      /\ b.env \in Envelopes /\ b.remaining \in Nat
  BY DEF Blocks
<1>2. PICK e, r : e = b.env /\ r = b.remaining
  OBVIOUS
<1>3. /\ e.stage \in Stages /\ e.left \in [Timed -> Nat] /\ e.shouldRelease \in BOOLEAN
      /\ e.releaseDelay \in Nat \cup {-1} /\ r \in Nat
  BY <1>1, <1>2 DEF Envelopes
<1>4. PICK length, next : /\ length = Least(r, e.left[stage])
                          /\ next = IF length = r THEN stage ELSE Following[stage]
  OBVIOUS
<1>5. length \in Nat /\ length <= r /\ length <= e.left[stage] /\ e.left[stage] \in Nat
  BY <1>3, <1>4 DEF Least
<1>6. next \in Stages /\ (stage # "Delay" => next # "Delay")
  BY <1>4 DEF Timed, Following, Stages, Rank
<1>7. Case(stage)[b] =
        IF e.stage = stage
          THEN [env |-> GoesOn(e, next, Spent(e.left, stage, length)),
                remaining |-> r - length]
          ELSE b
  BY <1>2, <1>4 DEF Case
<1>8. CASE e.stage = stage
  <2>1. Spent(e.left, stage, length) \in [Timed -> Nat]
    BY <1>3, <1>5 DEF Spent
  <2> QED
    BY <1>2, <1>3, <1>5, <1>6, <1>7, <1>8, <2>1 DEF Blocks, Envelopes, GoesOn
<1>9. CASE e.stage # stage
  BY <1>2, <1>7, <1>9
<1> QED
  BY <1>8, <1>9

\* The switch leaves the delay, or takes the whole block from it.
LEMMA SwitchEffect ==
    ASSUME NEW e \in Envelopes, NEW n \in Nat
    PROVE  /\ Switch(e, n) \in Envelopes
           /\ e.stage # "Delay" => Switch(e, n).stage # "Delay"
           /\ Switch(e, n).releaseDelay = e.releaseDelay
           /\ Switch(e, n).shouldRelease = e.shouldRelease
           /\ e.stage = "Delay" /\ n <= e.left["Delay"]
                => /\ Switch(e, n).stage = "Delay"
                   /\ Switch(e, n).left["Delay"] = e.left["Delay"] - n
<1> DEFINE b0 == [env |-> e, remaining |-> n]
           b1 == Case("Delay")[b0]
           b2 == Case("Attack")[b1]
           b3 == Case("Hold")[b2]
           b4 == Case("Decay")[b3]
           b5 == Case("Release")[b4]
<1>1. Switch(e, n) = b5.env
  BY DEF Switch
<1>2. {"Delay", "Attack", "Hold", "Decay", "Release"} \subseteq Timed
  BY DEF Timed
<1>3. b0 \in Blocks /\ b0.env = e /\ b0.remaining = n
  BY DEF Blocks
<1>4. CASE e.stage = "Delay" /\ n <= e.left["Delay"]
  <2>1. b1 = [env |-> GoesOn(e, "Delay", Spent(e.left, "Delay", n)),
              remaining |-> n - n]
    <3>1. e.left["Delay"] \in Nat
      BY <1>2 DEF Envelopes
    <3>2. Least(n, e.left["Delay"]) = n
      BY <1>4, <3>1 DEF Least
    <3> QED
      BY <1>2, <1>3, <1>4, <3>2 DEF Case
  <2> HIDE DEF b1
  <2>2. b1.env.stage = "Delay" /\ b1.env.left["Delay"] = e.left["Delay"] - n
       /\ b1.env.releaseDelay = e.releaseDelay /\ b1.env.shouldRelease = e.shouldRelease
    <3>1. PICK spent : spent = Spent(e.left, "Delay", n)
      OBVIOUS
    <3>2. spent["Delay"] = e.left["Delay"] - n
      BY <1>2, <3>1 DEF Envelopes, Spent
    <3> QED
      BY <2>1, <3>1, <3>2 DEF GoesOn
  <2>3. b1 \in Blocks
    BY <1>2, <1>3, CaseEffect DEF b1
  <2>4. b2 = b1 /\ b3 = b1 /\ b4 = b1 /\ b5 = b1
    <3>1. b2 = b1
      BY <1>2, <2>2, <2>3, CaseEffect
    <3>2. b3 = b1
      BY <1>2, <2>2, <2>3, <3>1, CaseEffect
    <3>3. b4 = b1
      BY <1>2, <2>2, <2>3, <3>2, CaseEffect
    <3> QED
      BY <1>2, <2>2, <2>3, <3>1, <3>2, <3>3, CaseEffect
  <2> QED
    BY <1>1, <1>4, <2>2, <2>3, <2>4 DEF Blocks
<1>5. CASE ~ (e.stage = "Delay" /\ n <= e.left["Delay"])
  <2> HIDE DEF b0
  <2>1. b1 \in Blocks /\ (e.stage # "Delay" => b1.env.stage # "Delay")
          /\ b1.env.releaseDelay = e.releaseDelay
          /\ b1.env.shouldRelease = e.shouldRelease
    BY <1>2, <1>3, CaseEffect
  <2> HIDE DEF b1
  <2>2. b2 \in Blocks /\ (e.stage # "Delay" => b2.env.stage # "Delay")
          /\ b2.env.releaseDelay = e.releaseDelay
          /\ b2.env.shouldRelease = e.shouldRelease
    BY <1>2, <2>1, CaseEffect
  <2> HIDE DEF b2
  <2>3. b3 \in Blocks /\ (e.stage # "Delay" => b3.env.stage # "Delay")
          /\ b3.env.releaseDelay = e.releaseDelay
          /\ b3.env.shouldRelease = e.shouldRelease
    BY <1>2, <2>2, CaseEffect
  <2> HIDE DEF b3
  <2>4. b4 \in Blocks /\ (e.stage # "Delay" => b4.env.stage # "Delay")
          /\ b4.env.releaseDelay = e.releaseDelay
          /\ b4.env.shouldRelease = e.shouldRelease
    BY <1>2, <2>3, CaseEffect
  <2> HIDE DEF b4
  <2>5. b5 \in Blocks /\ (e.stage # "Delay" => b5.env.stage # "Delay")
          /\ b5.env.releaseDelay = e.releaseDelay
          /\ b5.env.shouldRelease = e.shouldRelease
    BY <1>2, <2>4, CaseEffect
  <2> HIDE DEF b5
  <2> QED
    BY <1>1, <1>5, <2>5 DEF Blocks
<1> QED
  BY <1>4, <1>5

\* What a block does to an envelope; the release that begins in it ends the delay.
LEMMA GetBlockEffect ==
    ASSUME NEW e \in Envelopes, NEW n \in Nat
    PROVE  /\ GetBlock(e, n) \in Envelopes
           /\ GetBlock(e, n).shouldRelease = e.shouldRelease
           /\ e.stage # "Delay" => GetBlock(e, n).stage # "Delay"
           /\ e.stage = "Delay" /\ GetBlock(e, n).stage = "Delay"
                /\ n <= e.left["Delay"]
                => GetBlock(e, n).left["Delay"] = e.left["Delay"] - n
<1>1. PICK s : s = Switch(e, n)
  OBVIOUS
<1>2. /\ s \in Envelopes /\ s.shouldRelease = e.shouldRelease
      /\ e.stage # "Delay" => s.stage # "Delay"
      /\ e.stage = "Delay" /\ n <= e.left["Delay"]
           => s.left["Delay"] = e.left["Delay"] - n
  BY <1>1, SwitchEffect
<1>3. CASE ~ e.shouldRelease
  BY <1>1, <1>2, <1>3 DEF GetBlock
<1>4. CASE e.shouldRelease /\ e.releaseDelay > n
  <2>1. GetBlock(e, n) = [s EXCEPT !.releaseDelay = @ - n]
    BY <1>1, <1>4 DEF GetBlock
  <2>2. s.releaseDelay = e.releaseDelay
    BY <1>1, SwitchEffect
  <2>3. PICK g, r : r = s.releaseDelay - n /\ g = [s EXCEPT !.releaseDelay = r]
    OBVIOUS
  <2>4. /\ g \in Envelopes /\ g.stage = s.stage /\ g.left = s.left
        /\ g.shouldRelease = s.shouldRelease
    <3>1. r \in Nat
      <4>1. s.releaseDelay \in Nat \cup {-1}
        BY <1>2 DEF Envelopes
      <4> QED BY <1>4, <2>2, <2>3, <4>1
    <3> QED BY <1>2, <2>3, <3>1 DEF Envelopes
  <2>5. GetBlock(e, n) = g
    BY <2>1, <2>3
  <2> QED
    BY <1>2, <2>4, <2>5
<1>5. CASE e.shouldRelease /\ ~ (e.releaseDelay > n)
  <2>1. PICK length, last :
           /\ length = Least(n - s.releaseDelay, s.left["Release"])
           /\ last = IF length = s.left["Release"] THEN "Done" ELSE "Release"
    OBVIOUS
  <2>2. GetBlock(e, n) = GoesOn(s, last, Spent(s.left, "Release", length))
    BY <1>1, <1>5, <2>1 DEF GetBlock, ReleaseInBlock
  <2>3. s.releaseDelay = e.releaseDelay
    BY <1>1, SwitchEffect
  <2>4. /\ s.left \in [Timed -> Nat] /\ "Release" \in Timed
        /\ s.releaseDelay \in Nat \cup {-1} /\ s.shouldRelease \in BOOLEAN
    BY <1>2 DEF Envelopes, Timed
  <2>5. length \in Nat /\ length <= s.left["Release"]
    BY <1>5, <2>1, <2>3, <2>4 DEF Least
  <2>6. Spent(s.left, "Release", length) \in [Timed -> Nat]
    BY <2>4, <2>5 DEF Spent
  <2>7. last \in Stages /\ last # "Delay"
    BY <2>1 DEF Stages, Rank
  <2>8. PICK g : g = GoesOn(s, last, Spent(s.left, "Release", length))
    OBVIOUS
  <2>9. g \in Envelopes /\ g.stage # "Delay" /\ g.shouldRelease = s.shouldRelease
    BY <2>4, <2>6, <2>7, <2>8 DEF Envelopes, GoesOn
  <2> QED
    BY <1>2, <2>2, <2>8, <2>9
<1> QED
  BY <1>3, <1>4, <1>5

BeginInv ==
    /\ Reading /\ initialDelay > 0 => egEnvelope \in Envelopes
    /\ BeginTogether

\* startVoice gives the envelope the delay of the voice on top of its own.
LEMMA StartBeginsTogether ==
    ASSUME NEW d \in Sounds, NEW delay \in Delays, NEW offset,
           StartVoice(d, delay, offset)
    PROVE  BeginInv'
<1>1. /\ region' = d /\ initialDelay' = delay + d.delay
      /\ egEnvelope' = Reset([d.lengths EXCEPT !["Delay"] = @ + delay + d.delay])
  BY DEF StartVoice
<1>2. /\ delay \in Nat /\ d.delay \in Nat /\ d.lengths \in [Timed -> Nat]
  <2>1. d \in Descriptions /\ delay \in Nat
    BY SoundsAssumption DEF SoundsAssumption
  <2> QED
    BY <2>1 DEF Descriptions
<1>3. PICK lengths : lengths = [d.lengths EXCEPT !["Delay"] = @ + delay + d.delay]
  OBVIOUS
<1>4. /\ lengths \in [Timed -> Nat]
      /\ lengths["Delay"] = initialDelay' + d.lengths["Delay"]
  BY <1>1, <1>2, <1>3 DEF Timed
<1>5. egEnvelope' \in Envelopes /\ egEnvelope'.left["Delay"] = lengths["Delay"]
  BY <1>1, <1>3, <1>4 DEF Reset, Envelopes, Stages, Rank
<1> QED
  BY <1>1, <1>4, <1>5 DEF BeginInv, BeginTogether

\* A release asked for in the delay leaves the counters as they are.
LEMMA ReleaseKeepsBegin ==
    ASSUME BeginInv, NEW delay \in Delays, Release(delay)
    PROVE  BeginInv'
<1>1. /\ UNCHANGED <<region, initialDelay>>
      /\ egEnvelope' = [stage |-> egEnvelope.stage, left |-> egEnvelope.left,
                        releaseDelay |-> delay, shouldRelease |-> TRUE]
  BY DEF Release, StartRelease
<1>2. delay \in Nat
  BY SoundsAssumption DEF SoundsAssumption
<1>3. egEnvelope'.stage = egEnvelope.stage /\ egEnvelope'.left = egEnvelope.left
  BY <1>1
<1>4. egEnvelope \in Envelopes => egEnvelope' \in Envelopes
  BY <1>1, <1>2 DEF Envelopes
<1> QED
  BY <1>1, <1>3, <1>4 DEF BeginInv, BeginTogether, Reading

\* A block within the delay takes as much of the envelope's delay as of the
\* voice's: nothing is read in it, and so it asks for no release.
LEMMA BlockKeepsBegin ==
    ASSUME Placed, BeginInv, NEW frames \in BlockSizes, RenderBlock(frames)
    PROVE  BeginInv'
<1>1. frames \in Nat /\ initialDelay \in Nat
  BY SoundsAssumption DEF SoundsAssumption, Placed
<1>2. initialDelay' = initialDelay - Least(initialDelay, frames)
  BY DEF RenderBlock
<1> SUFFICES ASSUME Reading', initialDelay' > 0
             PROVE  /\ egEnvelope' \in Envelopes
                    /\ egEnvelope'.stage = "Delay"
                         => egEnvelope'.left["Delay"]
                              = initialDelay' + region'.lengths["Delay"]
  BY DEF BeginInv, BeginTogether
<1>3. /\ Least(initialDelay, frames) = frames /\ initialDelay > 0
      /\ frames <= initialDelay /\ initialDelay' = initialDelay - frames
  BY <1>1, <1>2 DEF Least
<1>4. UNCHANGED region /\ Reading
  <2>1. ~ ResetFields
    BY DEF ResetFields, Reading
  <2> QED
    BY <2>1, BlockEffect DEF Reading
<1>5. egEnvelope' = GetBlock(egEnvelope, frames)
  <2>1. frames - frames = 0
    BY <1>1
  <2>2. Indices(0) = <<>>
    BY SMT DEF Indices, Turns
  <2>3. ReadInBlock(frames) = <<>>
    BY <1>3, <2>1, <2>2 DEF ReadInBlock
  <2>4. AskedToEnd(egEnvelope, <<>>) = egEnvelope
    BY DEF AskedToEnd
  <2> QED
    BY <2>3, <2>4 DEF RenderBlock
<1>6. egEnvelope \in Envelopes
  BY <1>3, <1>4 DEF BeginInv
<1>7. egEnvelope' \in Envelopes
  BY <1>1, <1>5, <1>6, GetBlockEffect
<1>8. ASSUME egEnvelope'.stage = "Delay"
      PROVE  egEnvelope'.left["Delay"] = initialDelay' + region'.lengths["Delay"]
  <2>1. egEnvelope.stage = "Delay"
    BY <1>1, <1>5, <1>6, <1>8, GetBlockEffect
  <2>2. egEnvelope.left["Delay"] = initialDelay + region.lengths["Delay"]
    BY <1>3, <1>4, <2>1 DEF BeginInv, BeginTogether
  <2>3. region.lengths["Delay"] \in Nat
    <3>1. region \in Sounds /\ ~ region.generator
      BY <1>4, RegionIsSound
    <3>2. region.lengths \in [Timed -> Nat]
      BY <3>1, SoundNumbers
    <3> QED
      BY <3>2 DEF Timed
  <2>4. frames <= egEnvelope.left["Delay"]
    BY <1>1, <1>3, <2>2, <2>3
  <2>5. egEnvelope'.left["Delay"] = egEnvelope.left["Delay"] - frames
    BY <1>1, <1>5, <1>6, <1>8, <2>1, <2>4, GetBlockEffect
  <2> QED
    BY <1>1, <1>3, <1>4, <2>2, <2>3, <2>5
<1> QED
  BY <1>7, <1>8

\* BeginTogether, for every sound, looped or not, and every delay and sequence of
\* blocks.
THEOREM BeginTogetherHolds == Spec => []BeginTogether
<1>1. Init => BeginInv
  BY DEF Init, BeginInv, BeginTogether, Reading
<1>2. BeginInv /\ EndInv /\ [Next]_vars => BeginInv'
  <2> SUFFICES ASSUME BeginInv, EndInv, [Next]_vars PROVE BeginInv'
    OBVIOUS
  <2>1. CASE Start
    BY <2>1, StartBeginsTogether DEF Start
  <2>2. ASSUME NEW delay \in Delays, Release(delay) PROVE BeginInv'
    BY <2>2, ReleaseKeepsBegin
  <2>3. CASE FileArrives \/ UNCHANGED vars
    BY <2>3 DEF FileArrives, vars, BeginInv, BeginTogether, Reading
  <2>4. CASE Steal
    BY <2>4 DEF Steal, ResetFields, BeginInv, BeginTogether, Reading
  <2>5. CASE Render
    BY <2>5, BlockKeepsBegin DEF Render, EndInv
  <2> QED
    BY <2>1, <2>2, <2>3, <2>4, <2>5 DEF Next
<1>3. BeginInv => BeginTogether
  BY DEF BeginInv
<1> QED
  BY <1>1, <1>2, <1>3, EndInvariant, PTL DEF Spec

-----------------------------------------------------------------------------
(* The turns of a loop.  No induction scheme takes a formula here, but a set of    *)
(* numbers can be one: the numbers up to which a fact holds.                       *)

\* Of some numbers, one is the first.
LEMMA HasFirst ==
    ASSUME NEW T \in SUBSET Nat, T # {}
    PROVE  \E i \in T : \A j \in T : i <= j
<1> DEFINE less == {pair \in Nat \X Nat : pair[1] < pair[2]}
<1>1. OpToRel(<, Nat) = less
  BY Zenon DEF OpToRel
<1>2. IsWellFoundedOn(less, Nat)
  BY <1>1, NatLessThanWellFounded, Zenon
<1>3. \A i, j \in Nat : j < i => <<j, i>> \in less
  OBVIOUS
<1> HIDE DEF less
<1>4. PICK i \in T : \A j \in T : ~ (<<j, i>> \in less)
  BY <1>2, WFMin
<1>5. \A j \in T : ~ (j < i)
  BY <1>3, <1>4
<1> QED BY <1>5

\* Induction up to n, for the set of the numbers of which something is known.
LEMMA UpTo ==
    ASSUME NEW n \in Nat, NEW T, 0 \in T, \A k \in 1 .. n : k - 1 \in T => k \in T
    PROVE  0 .. n \subseteq T
<1> DEFINE Missed == (0 .. n) \ T
<1>1. SUFFICES ASSUME Missed # {} PROVE FALSE
  OBVIOUS
<1>2. Missed \in SUBSET Nat
  OBVIOUS
<1> HIDE DEF Missed
<1>3. PICK k \in Missed : \A j \in Missed : k <= j
  BY <1>1, <1>2, HasFirst
<1> USE DEF Missed
<1>4. k \in 1 .. n /\ k - 1 \in 0 .. n /\ ~ (k <= k - 1)
  BY <1>3
<1>5. k - 1 \notin Missed
  BY <1>3, <1>4
<1> QED BY <1>3, <1>4, <1>5

\* f is what the steps g make of a, one after the other.
Follows(f, a, g, n) == f[0] = a /\ \A k \in 1 .. n : f[k] = g[k][f[k - 1]]

\* There is such a function.
LEMMA RecursionExists ==
    ASSUME NEW S, NEW a \in S, NEW n \in Nat, NEW g \in [1 .. n -> [S -> S]]
    PROVE  \E f \in [0 .. n -> S] : Follows(f, a, g, n)
<1> DEFINE Reached == {m \in 0 .. n : \E f \in [0 .. m -> S] : Follows(f, a, g, m)}
<1>1. 0 \in Reached
  <2> DEFINE f == [k \in 0 .. 0 |-> a]
  <2>1. f \in [0 .. 0 -> S] /\ Follows(f, a, g, 0) /\ 0 \in 0 .. n
    BY DEF Follows
  <2> HIDE DEF f
  <2> QED BY <2>1, Zenon
<1>2. ASSUME NEW m \in 1 .. n, m - 1 \in Reached PROVE m \in Reached
  <2>1. PICK h \in [0 .. m - 1 -> S] : Follows(h, a, g, m - 1)
    BY <1>2
  <2> DEFINE f == [k \in 0 .. m |-> IF k = m THEN g[m][h[m - 1]] ELSE h[k]]
  <2>2. h[m - 1] \in S /\ g[m][h[m - 1]] \in S
    OBVIOUS
  <2>3. \A k \in 0 .. m : k # m => k \in 0 .. m - 1 /\ h[k] \in S /\ f[k] = h[k]
    OBVIOUS
  <2>4. f[m] = g[m][h[m - 1]]
    OBVIOUS
  <2>5. f \in [0 .. m -> S]
    BY <2>2, <2>3
  <2> HIDE DEF f
  <2>6. f[0] = a
    BY <2>1, <2>3 DEF Follows
  <2>7. \A k \in 1 .. m : f[k] = g[k][f[k - 1]]
    <3> TAKE k \in 1 .. m
    <3>1. f[k - 1] = h[k - 1]
      BY <2>3
    <3>2. CASE k = m
      BY <2>4, <3>1, <3>2
    <3>3. CASE k # m
      <4>1. k \in 1 .. m - 1 /\ f[k] = h[k]
        BY <2>3, <3>3
      <4> QED BY <2>1, <3>1, <4>1 DEF Follows
    <3> QED BY <3>2, <3>3
  <2>8. Follows(f, a, g, m)
    BY <2>6, <2>7 DEF Follows
  <2>9. m \in 0 .. n
    OBVIOUS
  <2> QED BY <2>5, <2>8, <2>9, Zenon
<1> HIDE DEF Reached
<1>3. 0 .. n \subseteq Reached
  BY <1>1, <1>2, UpTo
<1>4. n \in Reached
  BY <1>3
<1> QED BY <1>4 DEF Reached

\* The recursion of the turns has a solution, and so Turns is one.
LEMMA TurnsExist ==
    ASSUME NEW n \in Nat
    PROVE  \E turns :
              LET offset == SampleEnd(region) - region.loopStart
              IN  /\ turns[0] = 0
                  /\ \A k \in 1 .. n :
                        /\ turns[k - 1] \in Nat
                        /\ turns[k] = IF Straight(k) - offset * turns[k - 1]
                                            > SampleEnd(region)
                                        THEN turns[k - 1] + 1 ELSE turns[k - 1]
                  /\ Turns(n) = [k \in 1 .. n |-> turns[k] * offset]
<1> DEFINE offset == SampleEnd(region) - region.loopStart
           Step(k, before) ==
              IF Straight(k) - offset * before > SampleEnd(region)
                THEN before + 1 ELSE before
           body(f) == [k \in 0 .. n |-> IF k = 0 THEN 0 ELSE Step(k, f[k - 1])]
           turns == CHOOSE f : f = body(f)
<1>1. Turns(n) = [k \in 1 .. n |-> turns[k] * offset]
  BY DEF Turns
<1> HIDE DEF offset
<1>2. turns = body(turns)
  <2> DEFINE g == [k \in 1 .. n |-> [before \in Nat |-> Step(k, before)]]
  <2>1. g \in [1 .. n -> [Nat -> Nat]]
    OBVIOUS
  <2>2. \A k \in 1 .. n, before \in Nat : g[k][before] = Step(k, before)
    OBVIOUS
  <2> HIDE DEF g
  <2>3. PICK f \in [0 .. n -> Nat] : Follows(f, 0, g, n)
    <3>1. 0 \in Nat
      OBVIOUS
    <3> QED BY <2>1, <3>1, RecursionExists, Zenon
  <2> HIDE DEF Step
  <2>4. \A k \in 1 .. n : f[k - 1] \in Nat /\ f[k] = Step(k, f[k - 1])
    BY <2>2, <2>3 DEF Follows
  <2>5. f = body(f)
    BY <2>3, <2>4 DEF Follows
  <2> HIDE DEF body
  <2> QED BY <2>5
<1> HIDE DEF turns
<1>3. turns[0] = 0 /\ \A k \in 1 .. n : turns[k] = Step(k, turns[k - 1])
  BY <1>2
<1>4. \A k \in 0 .. n : turns[k] \in Nat
  <2> DEFINE T == {k \in 0 .. n : turns[k] \in Nat}
  <2>1. 0 \in T /\ \A k \in 1 .. n : k - 1 \in T => k \in T
    BY <1>3
  <2> HIDE DEF T
  <2>2. 0 .. n \subseteq T
    BY <2>1, UpTo
  <2> QED BY <2>2 DEF T
<1> QED BY <1>1, <1>3, <1>4 DEF offset

-----------------------------------------------------------------------------
(* Where a voice reads.                                                      *)

PlaceInv ==
    /\ Placed
    /\ floatPositionOffset \in 0 .. 2
    /\ Reading => sourcePosition \in Nat /\ sourcePosition <= SampleEnd(region)

\* A loop in the source ends where the sample does, and a turn is longer than a step.
LEMMA LoopNumbers ==
    ASSUME Placed, Reading, LoopsInSource(region)
    PROVE  /\ Loops(region) /\ TrueSampleEnd(region) \in Nat /\ region.loopStart \in Nat
           /\ SampleEnd(region) = TrueSampleEnd(region) - 1
           /\ SampleEnd(region) - region.loopStart \in Nat
           /\ region.step + 1 <= 2 * (SampleEnd(region) - region.loopStart)
<1>1. PICK d : d = region
  OBVIOUS
<1>2. d \in Sounds /\ ~ d.generator /\ d \in Descriptions
  BY <1>1, RegionIsSound, SoundsAssumption DEF SoundsAssumption
<1>3. /\ d.sampleEnd \in Nat /\ d.loopEnd \in Nat /\ d.loopStart \in Nat /\ d.step \in Nat
      /\ TrueSampleEnd(d) \in Nat
  BY <1>2, SoundNumbers DEF Descriptions
<1>4. /\ d.loops /\ d.loopEnd <= SourceFrames(d)
      /\ SourceFrames(d) \in Nat /\ FramesAtLast(d) \in Nat
      /\ SourceFrames(d) <= FramesAtLast(d)
  BY <1>1, <1>2, SoundNumbers, SourceNumbers DEF LoopsInSource
<1>5. Loops(d)
  BY <1>3, <1>4 DEF Loops
<1>6. 2 * (TrueSampleEnd(d) - 1 - d.loopStart) >= d.step + 1
  BY <1>2, <1>5, SoundsAssumption DEF SoundsAssumption
<1>7. TrueSampleEnd(d) <= d.loopEnd
  BY <1>3 DEF TrueSampleEnd, Least
<1>8. SampleEnd(d) = TrueSampleEnd(d) - 1
  BY <1>3, <1>4, <1>7 DEF SampleEnd, Least
<1> QED BY <1>1, <1>3, <1>5, <1>6, <1>8

\* One step of the pitch, in half frames, from at most a frame beyond the end e; x is
\* what the turns so far have taken, and o is what one more takes.
LEMMA StepTurns ==
    ASSUME NEW p \in Nat, NEW j \in Nat, NEW s \in Nat, NEW o \in Nat, NEW e \in Nat,
           NEW x \in Nat, o <= e, s + 1 <= 2 * o,
           0 <= 2 * p + j - 2 * x, 2 * p + j - 2 * x <= 2 * e + 2
    PROVE  /\ (p + (j + s) \div 2) - x > e =>
                 /\ 0 <= 2 * p + (j + s) - 2 * (x + o)
                 /\ 2 * p + (j + s) - 2 * (x + o) <= 2 * e + 1
                 /\ (p + (j + s) \div 2) - (x + o) \in 0 .. e
           /\ ~ ((p + (j + s) \div 2) - x > e) =>
                 /\ 0 <= 2 * p + (j + s) - 2 * x
                 /\ 2 * p + (j + s) - 2 * x <= 2 * e + 1
                 /\ (p + (j + s) \div 2) - x \in 0 .. e
<1>1. PICK h \in Nat : h = (j + s) \div 2 /\ 2 * h <= j + s /\ j + s <= 2 * h + 1
  OBVIOUS
<1> QED BY <1>1

\* What a step adds to a jump.
LEMMA JumpsByStep ==
    ASSUME region.step \in Nat, floatPositionOffset \in Nat, NEW k \in Nat \ {0}
    PROVE  /\ Jump(k) \in Nat /\ Jump(k - 1) \in Nat /\ Jump(k) = Jump(k - 1) + region.step
<1>1. \A s, f \in Nat : f + k * s \in Nat /\ f + (k - 1) * s \in Nat
                        /\ f + k * s = (f + (k - 1) * s) + s
  OBVIOUS
<1> QED BY <1>1 DEF Jump

\* Every index is a frame of the source before the end of the sample, and a turn takes
\* the same number of frames whenever it comes.
LEMMA IndicesInSample ==
    ASSUME PlaceInv, Reading, NEW n \in Nat
    PROVE  /\ Len(Indices(n)) = n
           /\ \A k \in 1 .. n :
                 /\ Indices(n)[k] \in 0 .. SampleEnd(region)
                 /\ LoopsInSource(region) =>
                       \E turned \in Nat :
                          Indices(n)[k] = Straight(k)
                                  - turned * (SampleEnd(region) - region.loopStart)
                 /\ ~ LoopsInSource(region) =>
                       Indices(n)[k] = Least(Straight(k), SampleEnd(region))
<1> DEFINE p == sourcePosition
           s == region.step
           e == SampleEnd(region)
           o == SampleEnd(region) - region.loopStart
<1>1. region \in Sounds /\ ~ region.generator
  BY RegionIsSound DEF PlaceInv
<1>2. e \in Nat /\ p \in Nat /\ p <= e /\ floatPositionOffset \in 0 .. 2
  BY EndInSource DEF PlaceInv
<1>3. s \in Nat
  <2>1. PICK d : d = region
    OBVIOUS
  <2> QED BY <1>1, <2>1, SoundNumbers
<1>4. \A k \in 1 .. n : /\ Jump(k) \in Nat /\ Jump(k - 1) \in Nat
                        /\ Jump(k) = Jump(k - 1) + s
  BY <1>2, <1>3, JumpsByStep
<1>5. CASE ~ LoopsInSource(region)
  <2>1. Indices(n) = [k \in 1 .. n |-> Least(Straight(k), e)]
    BY <1>5, Zenon DEF Indices
  <2> HIDE DEF e
  <2>2. \A k \in 1 .. n : Straight(k) \in Nat
    BY <1>2, <1>4 DEF Straight
  <2>3. \A k \in 1 .. n : Least(Straight(k), e) \in 0 .. e
    BY <1>2, <2>2 DEF Least
  <2>4. PICK indices : indices = Indices(n)
    OBVIOUS
  <2>5. indices \in [1 .. n -> Nat]
    BY <2>1, <2>3, <2>4
  <2>6. indices \in Seq(Nat) /\ Len(indices) = n
    BY <2>5, LenProperties
  <2> QED BY <1>5, <2>1, <2>3, <2>4, <2>6 DEF e
<1>6. CASE LoopsInSource(region)
  <2>1. o \in Nat /\ o <= e /\ s + 1 <= 2 * o
    BY <1>2, <1>6, LoopNumbers DEF PlaceInv
  <2>2. PICK turns :
           /\ turns[0] = 0
           /\ \A k \in 1 .. n :
                 /\ turns[k - 1] \in Nat
                 /\ turns[k] = IF Straight(k) - o * turns[k - 1] > e
                                 THEN turns[k - 1] + 1 ELSE turns[k - 1]
           /\ Turns(n) = [k \in 1 .. n |-> turns[k] * o]
    BY TurnsExist
  <2>3. Indices(n) = [k \in 1 .. n |-> Straight(k) - Turns(n)[k]]
    BY <1>6, Zenon DEF Indices
  <2>4. \A k \in 1 .. n : Straight(k) = p + Jump(k) \div 2
    BY DEF Straight
  <2> HIDE DEF p, s, e, o
  <2> DEFINE T == {k \in 0 .. n :
                     /\ turns[k] \in Nat
                     /\ 0 <= 2 * p + Jump(k) - 2 * (o * turns[k])
                     /\ 2 * p + Jump(k) - 2 * (o * turns[k]) <= 2 * e + 2
                     /\ k # 0 => (p + Jump(k) \div 2) - o * turns[k] \in 0 .. e}
  <2>5. 0 \in T
    <3>1. Jump(0) = floatPositionOffset
      BY <1>2, <1>3 DEF Jump, s
    <3>2. o * 0 = 0
      BY <2>1
    <3> QED BY <1>2, <2>2, <3>1, <3>2
  <2>6. ASSUME NEW k \in 1 .. n, k - 1 \in T PROVE k \in T
    <3>1. PICK b \in Nat, j \in Nat : b = turns[k - 1] /\ j = Jump(k - 1)
      BY <1>4, <2>2
    <3>2. PICK x \in Nat : x = o * b
      BY <2>1
    <3>3. o * (b + 1) = x + o
      BY <2>1, <3>2
    <3>4. 0 <= 2 * p + j - 2 * x /\ 2 * p + j - 2 * x <= 2 * e + 2
      BY <2>6, <3>1, <3>2
    <3>5. Jump(k) = j + s
      BY <1>4, <3>1
    <3>6. turns[k] = IF (p + (j + s) \div 2) - x > e THEN b + 1 ELSE b
      <4>1. Straight(k) = p + (j + s) \div 2 /\ o * turns[k - 1] = x
        BY <2>4, <3>1, <3>2, <3>5
      <4>2. PICK y : y = Straight(k) - o * turns[k - 1]
        OBVIOUS
      <4>3. turns[k] = IF y > e THEN turns[k - 1] + 1 ELSE turns[k - 1]
        BY <2>2, <4>2
      <4>4. y = (p + (j + s) \div 2) - x
        BY <4>1, <4>2
      <4> QED BY <3>1, <4>3, <4>4
    <3>7. CASE (p + (j + s) \div 2) - x > e
      <4>1. turns[k] = b + 1 /\ o * turns[k] = x + o
        BY <3>3, <3>6, <3>7
      <4>2. /\ 0 <= 2 * p + (j + s) - 2 * (x + o)
            /\ 2 * p + (j + s) - 2 * (x + o) <= 2 * e + 1
            /\ (p + (j + s) \div 2) - (x + o) \in 0 .. e
        BY <1>2, <1>3, <2>1, <3>4, <3>7, StepTurns DEF p, s, e
      <4>3. 2 * p + (j + s) - 2 * (x + o) <= 2 * e + 2
        BY <1>2, <1>3, <2>1, <4>2 DEF p, s, e
      <4>4. turns[k] \in Nat
        BY <4>1
      <4> QED BY <3>5, <4>1, <4>2, <4>3, <4>4
    <3>8. CASE ~ ((p + (j + s) \div 2) - x > e)
      <4>1. turns[k] = b /\ o * turns[k] = x
        BY <3>2, <3>6, <3>8
      <4>2. /\ 0 <= 2 * p + (j + s) - 2 * x
            /\ 2 * p + (j + s) - 2 * x <= 2 * e + 1
            /\ (p + (j + s) \div 2) - x \in 0 .. e
        BY <1>2, <1>3, <2>1, <3>4, <3>8, StepTurns DEF p, s, e
      <4> QED BY <1>2, <1>3, <3>1, <3>2, <3>5, <4>1, <4>2 DEF p, s, e
    <3> QED BY <3>7, <3>8
  <2> HIDE DEF T
  <2>7. 0 .. n \subseteq T
    BY <2>5, <2>6, UpTo
  <2>8. \A k \in 1 .. n : /\ turns[k] \in Nat /\ Turns(n)[k] = turns[k] * o
                          /\ (p + Jump(k) \div 2) - o * turns[k] \in 0 .. e
    <3> TAKE k \in 1 .. n
    <3>1. k \in T /\ k # 0
      BY <2>7
    <3> QED BY <2>2, <3>1 DEF T
  <2>9. \A k \in 1 .. n : /\ Indices(n)[k] = Straight(k) - turns[k] * o
                          /\ Straight(k) - turns[k] * o \in 0 .. e
    <3> TAKE k \in 1 .. n
    <3>1. o * turns[k] = turns[k] * o
      BY <2>1, <2>8
    <3>2. Indices(n)[k] = Straight(k) - turns[k] * o
      BY <2>3, <2>8
    <3>3. Straight(k) - turns[k] * o = (p + Jump(k) \div 2) - o * turns[k]
      BY <2>4, <3>1
    <3>4. Straight(k) - turns[k] * o \in 0 .. e
      BY <2>8, <3>3
    <3> QED BY <3>2, <3>4
  <2>10. PICK indices : indices = Indices(n)
    OBVIOUS
  <2>11. indices \in [1 .. n -> Nat]
    BY <2>3, <2>9, <2>10
  <2>12. indices \in Seq(Nat) /\ Len(indices) = n
    BY <2>11, LenProperties
  <2> QED BY <1>6, <2>8, <2>9, <2>10, <2>12 DEF e, o
<1> QED BY <1>5, <1>6

\* No block moves a voice past the end of what it can read.
LEMMA FillKeepsPlace ==
    ASSUME PlaceInv, Reading, NEW n \in Nat, n > 0, FillWithData(Indices(n)),
           UNCHANGED <<region, dataReady>>
    PROVE  /\ sourcePosition' \in Nat /\ sourcePosition' <= SampleEnd(region)'
           /\ floatPositionOffset' \in 0 .. 2
<1>1. SampleEnd(region)' = SampleEnd(region)
  BY DEF SampleEnd, TrueSampleEnd, SourceFrames, FramesAtLast, CanUsePreloadedData, UsesFile
<1>2. SampleEnd(region) \in Nat
  BY EndInSource DEF PlaceInv
<1>3. region.step \in Nat
  <2>1. PICK d : d = region
    OBVIOUS
  <2> QED BY <2>1, RegionIsSound, SoundNumbers DEF PlaceInv
<1>4. n \in 1 .. n /\ n \in Nat \ {0}
  OBVIOUS
<1>5. Jump(n) \in Nat
  <2>1. floatPositionOffset \in Nat
    BY DEF PlaceInv
  <2> QED BY <1>3, <1>4, <2>1, JumpsByStep
<1>6. PICK indices : indices = Indices(n)
  OBVIOUS
<1>7. Len(indices) = n /\ indices[n] \in 0 .. SampleEnd(region)
  BY <1>4, <1>6, IndicesInSample
<1>8. /\ sourcePosition' = indices[n]
      /\ floatPositionOffset' = RightCoeff(n)
  BY <1>6, <1>7 DEF FillWithData
<1>9. Jump(n) % 2 \in 0 .. 2
  BY <1>5
<1> QED BY <1>1, <1>2, <1>7, <1>8, <1>9 DEF RightCoeff

THEOREM PlaceInvariant == Spec => []PlaceInv
<1>1. Init => PlaceInv
  <2>1. Init => region = NoRegion /\ initialDelay = 0 /\ dataReady = FALSE
                /\ floatPositionOffset = 0
    BY DEF Init
  <2>2. Init => initialDelay \in Nat /\ floatPositionOffset \in Nat
                /\ floatPositionOffset \in 0 .. 2
    BY <2>1
  <2>3. Init => dataReady \in BOOLEAN
    BY <2>1, Zenon
  <2> QED
    BY <2>1, <2>2, <2>3, Zenon DEF PlaceInv, Placed, Straightforward, Reading
<1>2. PlaceInv /\ EndInv' /\ [Next]_vars => PlaceInv'
  <2> SUFFICES ASSUME PlaceInv, Placed', [Next]_vars PROVE PlaceInv'
    BY DEF EndInv
  <2>1. CASE Start
    <3>1. PICK d \in Sounds, delay \in Delays :
             \E offset \in IF d.generator THEN {0}
                             ELSE d.offset .. d.offset + d.offsetRandom :
                StartVoice(d, delay, offset)
      BY <2>1 DEF Start
    <3>2. PICK offset \in IF d.generator THEN {0}
                            ELSE d.offset .. d.offset + d.offsetRandom :
                StartVoice(d, delay, offset)
      BY <3>1
    <3>3. /\ region' = d /\ sourcePosition' = offset /\ offset \in Nat
          /\ UNCHANGED floatPositionOffset
          /\ ~ d.generator => SampleEnd(region)' \in Nat /\ offset < SampleEnd(region)'
      BY <3>2, StartsBeforeEnd
    <3> QED BY <3>3 DEF PlaceInv, Reading
  <2>2. CASE /\ UNCHANGED <<region, sourcePosition, floatPositionOffset, dataReady>>
    BY <2>2 DEF PlaceInv, Reading, SampleEnd, TrueSampleEnd, SourceFrames, UsesFile,
                CanUsePreloadedData
  <2>3. CASE FileArrives
    <3>1. UNCHANGED <<sourcePosition, floatPositionOffset>>
      BY <2>3 DEF FileArrives
    <3>2. /\ Reading /\ SampleEnd(region) \in Nat /\ SampleEnd(region)' \in Nat
          /\ SampleEnd(region) <= SampleEnd(region)'
      BY <2>3, FileExtends DEF PlaceInv
    <3> QED BY <3>1, <3>2 DEF PlaceInv
  <2>4. CASE ResetFields
    BY <2>4 DEF ResetFields, PlaceInv, Reading
  <2>5. CASE Render
    <3>1. PICK frames \in BlockSizes : RenderBlock(frames)
      BY <2>5 DEF Render
    <3>2. ASSUME UNCHANGED <<region, dataReady>>, ~ region.generator,
                 NEW n \in Nat, n > 0, FillWithData(Indices(n))
          PROVE  PlaceInv'
      <4>1. CASE Reading
        BY <3>2, <4>1, FillKeepsPlace DEF PlaceInv
      <4>2. CASE ~ Reading
        BY <3>2, <4>2 DEF Reading, NoRegion
      <4> QED BY <4>1, <4>2
    <3> QED BY <2>2, <2>4, <3>1, <3>2, BlockEffect DEF PlaceInv
  <2> QED
    BY <2>1, <2>2, <2>3, <2>4, <2>5 DEF Next, Release, Steal, vars
<1> QED
  BY <1>1, <1>2, EndInvariant, PTL DEF Spec

\* ReadsInSample, both loads of every frame rendered, for every sound that
\* SoundsAssumption admits, looped or not, every pitch and sequence of blocks, with the
\* file early, late or missing.
THEOREM ReadsInSampleHolds == Spec => []ReadsInSample
<1>1. PlaceInv => ReadsInSample
  <2> SUFFICES ASSUME PlaceInv, Reading, NEW n \in BlockSizes, NEW k \in 1 .. n,
                      NEW f \in Loads(Indices(n)[k])
               PROVE  \/ f \in 0 .. SourceFrames(region) - 1 /\ f < TrueSampleEnd(region)
                      \/ f = Indices(n)[k] + 1 /\ Indices(n)[k] = SampleEnd(region)
    BY Zenon DEF ReadsInSample
  <2>1. n \in Nat
    BY SoundsAssumption DEF SoundsAssumption
  <2>2. PICK index \in Nat : index = Indices(n)[k] /\ index <= SampleEnd(region)
    <3>1. Indices(n)[k] \in 0 .. SampleEnd(region)
      BY <2>1, IndicesInSample
    <3>2. SampleEnd(region) \in Nat
      BY EndInSource DEF PlaceInv
    <3> QED BY <3>1, <3>2
  <2>3. /\ SampleEnd(region) \in Nat
        /\ SampleEnd(region) < SourceFrames(region)
        /\ SampleEnd(region) < TrueSampleEnd(region)
    BY EndInSource DEF PlaceInv
  <2>4. SourceFrames(region) \in Nat /\ TrueSampleEnd(region) \in Nat
    <3>1. PICK d : d = region
      OBVIOUS
    <3>2. d \in Sounds /\ ~ d.generator
      BY <3>1, RegionIsSound DEF PlaceInv
    <3> QED BY <3>1, <3>2, SoundNumbers, SourceNumbers
  <2>5. CASE f = index
    BY <2>2, <2>3, <2>4, <2>5
  <2>6. CASE f = index + 1 /\ index < SampleEnd(region)
    BY <2>2, <2>3, <2>4, <2>6
  <2>7. CASE f = index + 1 /\ index = SampleEnd(region)
    BY <2>2, <2>7
  <2>8. f = index \/ f = index + 1
    BY <2>2 DEF Loads
  <2> QED BY <2>2, <2>3, <2>5, <2>6, <2>7, <2>8
<1> QED BY <1>1, PlaceInvariant, PTL

-----------------------------------------------------------------------------
(* The release at the end.                                                   *)

\* The first frame that reads the end.
LEMMA EndFrame ==
    ASSUME PlaceInv, Reading, ~ region.loops, NEW n \in Nat, n > 0,
           Indices(n)[n] = SampleEnd(region)
    PROVE  /\ FramesBeforeEnd(Indices(n)) \in 0 .. n - 1
           /\ Straight(FramesBeforeEnd(Indices(n)) + 1) >= SampleEnd(region)
           /\ FramesBeforeEnd(Indices(n)) > 0 =>
                 Straight(FramesBeforeEnd(Indices(n))) < SampleEnd(region)
           /\ \A k \in 1 .. FramesBeforeEnd(Indices(n)) : Indices(n)[k] # SampleEnd(region)
<1>1. ~ LoopsInSource(region)
  BY DEF LoopsInSource
<1>2. PICK indices : indices = Indices(n)
  OBVIOUS
<1>3. /\ indices = [k \in 1 .. n |-> Least(Straight(k), SampleEnd(region))]
      /\ Len(indices) = n
  BY <1>1, <1>2, IndicesInSample DEF Indices
<1>4. PICK e \in Nat : e = SampleEnd(region)
  BY EndInSource DEF PlaceInv
<1>5. \A k \in 1 .. n : Straight(k) \in Nat
  <2> TAKE k \in 1 .. n
  <2>1. region.step \in Nat
    <3>1. PICK d : d = region
      OBVIOUS
    <3> QED BY <3>1, RegionIsSound, SoundNumbers DEF PlaceInv
  <2>2. Jump(k) \in Nat
    BY <2>1, JumpsByStep DEF PlaceInv
  <2> QED BY <2>2 DEF Straight, PlaceInv
<1> DEFINE ends == {k \in 1 .. n : indices[k] = e}
<1>6. PICK k \in ends : \A j \in ends : k <= j
  <2>1. ends \subseteq Nat /\ n \in ends
    BY <1>2, <1>4
  <2> HIDE DEF ends
  <2> QED BY <2>1, HasFirst
<1>7. /\ k \in DOMAIN indices /\ indices[k] = e
      /\ \A j \in 1 .. k - 1 : indices[j] # e
  BY <1>3, <1>6
<1> DEFINE First(i) == /\ indices[i] = e
                       /\ \A j \in 1 .. i - 1 : indices[j] # e
           first == CHOOSE i \in DOMAIN indices : First(i)
<1>8. FramesBeforeEnd(indices) = first - 1
  BY <1>4 DEF FramesBeforeEnd
<1>9. first \in DOMAIN indices /\ First(first)
  <2>1. First(k)
    BY <1>7
  <2> HIDE DEF First
  <2> QED BY <1>7, <2>1
<1>10. first \in 1 .. n
  BY <1>3, <1>9
<1>11. first > 1 => first - 1 \in 1 .. n /\ indices[first - 1] # e
  BY <1>9, <1>10
<1> HIDE DEF first
<1>12. Straight(first) >= e
  BY <1>3, <1>4, <1>5, <1>9, <1>10 DEF Least
<1>13. first > 1 => Straight(first - 1) < e
  BY <1>3, <1>4, <1>5, <1>11 DEF Least
<1>14. PICK f : f = first - 1
  OBVIOUS
<1>15. f \in 0 .. n - 1 /\ f + 1 = first /\ (f > 0 => first > 1)
  BY <1>10, <1>14
<1>16. \A j \in 1 .. f : indices[j] # e
  BY <1>9, <1>14
<1> QED BY <1>2, <1>4, <1>8, <1>12, <1>13, <1>14, <1>15, <1>16

\* A voice does not go back.
LEMMA StraightGoesOn ==
    ASSUME PlaceInv, Reading, NEW n \in Nat, NEW k \in 1 .. n
    PROVE  Straight(k) \in Nat /\ Straight(n) \in Nat /\ Straight(k) <= Straight(n)
<1>1. region.step \in Nat
  <2>1. PICK d : d = region
    OBVIOUS
  <2> QED BY <2>1, RegionIsSound, SoundNumbers DEF PlaceInv
<1>2. floatPositionOffset \in Nat /\ sourcePosition \in Nat
  BY DEF PlaceInv
<1>3. Jump(k) \in Nat /\ Jump(n) \in Nat
  BY <1>1, <1>2, JumpsByStep
<1>4. \A s \in Nat : k * s <= n * s
  <2> TAKE s \in Nat
  <2>1. n * s = k * s + (n - k) * s
    OBVIOUS
  <2>2. n - k \in Nat
    OBVIOUS
  <2>3. (n - k) * s \in Nat
    BY <2>2
  <2> QED BY <2>1, <2>3
<1>5. Jump(k) <= Jump(n)
  BY <1>1, <1>2, <1>4 DEF Jump
<1> QED BY <1>2, <1>3, <1>5 DEF Straight

\* HeardIsInSource, for every sound without a loop mode that SoundsAssumption admits,
\* every pitch and sequence of blocks, with the file early, late or missing.
THEOREM HeardIsInSourceHolds == Spec => []HeardIsInSource
<1>1. PlaceInv => HeardIsInSource
  <2> DEFINE Heard(n) ==
        IF EndsIn(Indices(n), n) THEN FramesBeforeEnd(Indices(n)) ELSE n
  <2> SUFFICES ASSUME PlaceInv, Reading, state = "playing", ~ region.loops,
                      NEW n \in BlockSizes, NEW k \in 1 .. Heard(n),
                      NEW f \in Weighted(k, Indices(n)[k])
               PROVE  f < SourceFrames(region)
    BY Zenon DEF HeardIsInSource
  <2>1. n \in Nat /\ n > 0
    BY SoundsAssumption DEF SoundsAssumption
  <2>2. ~ LoopsInSource(region)
    BY DEF LoopsInSource
  <2>3. PICK e \in Nat : e = SampleEnd(region) /\ e < SourceFrames(region)
    BY EndInSource DEF PlaceInv
  <2>4. SourceFrames(region) \in Nat
    <3>1. PICK d : d = region
      OBVIOUS
    <3>2. d \in Sounds /\ ~ d.generator
      BY <3>1, RegionIsSound DEF PlaceInv
    <3> QED BY <3>1, <3>2, SourceNumbers
  <2>5. PICK indices : indices = Indices(n)
    OBVIOUS
  <2>6. \A j \in 1 .. n : indices[j] \in 0 .. e /\ indices[j] = Least(Straight(j), e)
    BY <2>1, <2>2, <2>3, <2>5, IndicesInSample
  <2>7. k \in 1 .. n /\ indices[k] # e
    <3>1. CASE EndsIn(indices, n)
      <4>1. /\ FramesBeforeEnd(indices) \in 0 .. n - 1
            /\ \A j \in 1 .. FramesBeforeEnd(indices) : indices[j] # e
        BY <2>1, <2>3, <2>5, <3>1, EndFrame DEF EndsIn
      <4>2. k \in 1 .. FramesBeforeEnd(indices)
        BY <2>5, <3>1
      <4> QED BY <2>1, <4>1, <4>2
    <3>2. CASE ~ EndsIn(indices, n)
      <4>1. k \in 1 .. n
        BY <2>5, <3>2
      <4>2. indices[n] # e
        BY <2>3, <3>2 DEF EndsIn
      <4>3. Straight(k) \in Nat /\ Straight(n) \in Nat /\ Straight(k) <= Straight(n)
        BY <2>1, <4>1, StraightGoesOn
      <4> QED BY <2>1, <2>3, <2>6, <4>1, <4>2, <4>3 DEF Least
    <3> QED BY <3>1, <3>2
  <2>8. PICK index \in Nat : index = indices[k] /\ index < e
    BY <2>3, <2>6, <2>7
  <2>9. f = index \/ f = index + 1
    BY <2>5, <2>8 DEF Weighted, Loads
  <2> QED BY <2>3, <2>4, <2>8, <2>9
<1> QED BY <1>1, PlaceInvariant, PTL

\* A release that begins in the block keeps the frame that it was asked for.
LEMMA ReleaseInThisBlock ==
    ASSUME NEW e \in Envelopes, NEW n \in Nat, e.shouldRelease, e.releaseDelay <= n,
           e.releaseDelay \in Nat
    PROVE  GetBlock(e, n).releaseDelay = e.releaseDelay
<1>1. PICK s : s = Switch(e, n)
  OBVIOUS
<1>2. s.releaseDelay = e.releaseDelay
  BY <1>1, SwitchEffect
<1>3. GetBlock(e, n) = ReleaseInBlock(s, n)
  BY <1>1 DEF GetBlock
<1> QED BY <1>2, <1>3 DEF ReleaseInBlock, GoesOn

\* An envelope that is asked to release.
LEMMA AskedIsEnvelope ==
    ASSUME NEW e \in Envelopes, NEW delay \in Nat
    PROVE  /\ StartRelease(e, delay) \in Envelopes
           /\ StartRelease(e, delay).releaseDelay = delay
           /\ StartRelease(e, delay).shouldRelease
           /\ StartRelease(e, delay).stage = e.stage
           /\ StartRelease(e, delay).left = e.left
  BY DEF StartRelease, Envelopes

\* What fillWithData asks of the envelope leaves an envelope.
LEMMA AskedToEndIsEnvelope ==
    ASSUME PlaceInv, NEW e \in Envelopes, NEW frames \in BlockSizes, RenderBlock(frames)
    PROVE  AskedToEnd(e, ReadInBlock(frames)) \in Envelopes
<1>1. PICK indices : indices = ReadInBlock(frames)
  OBVIOUS
<1>2. CASE ~ (indices # <<>> /\ EndsIn(indices, Len(indices)))
  BY <1>1, <1>2 DEF AskedToEnd
<1>3. CASE indices # <<>> /\ EndsIn(indices, Len(indices))
  <2>1. ~ region.generator
    BY <1>1, <1>3 DEF ReadInBlock
  <2>2. PICK n \in Nat : indices = Indices(n)
    <3>1. frames \in Nat /\ initialDelay \in Nat
      BY SoundsAssumption DEF SoundsAssumption, PlaceInv, Placed
    <3>2. frames - Least(initialDelay, frames) \in Nat
      BY <3>1 DEF Least
    <3> QED BY <1>1, <2>1, <3>2 DEF ReadInBlock
  <2>3. n > 0
    <3>1. Indices(0) = <<>>
      BY SMT DEF Indices, Turns
    <3> QED BY <1>3, <2>2, <3>1
  <2>4. Reading
    BY <2>1 DEF Reading, NoRegion
  <2>5. Len(indices) = n
    BY <2>2, <2>4, IndicesInSample
  <2>6. ~ region.loops /\ Indices(n)[n] = SampleEnd(region)
    BY <1>3, <2>2, <2>5 DEF EndsIn
  <2>7. FramesBeforeEnd(indices) \in Nat
    BY <2>2, <2>3, <2>4, <2>6, EndFrame
  <2> QED BY <1>1, <1>3, <2>7, AskedIsEnvelope DEF AskedToEnd
<1> QED BY <1>2, <1>3

EnvelopeInv == egEnvelope \in Envelopes

THEOREM EnvelopeInvariant == Spec => []EnvelopeInv
<1>1. Init => EnvelopeInv
  <2>1. NoLengths \in [Timed -> Nat]
    BY DEF NoLengths
  <2>2. PICK e : e = Reset(NoLengths)
    OBVIOUS
  <2>3. e \in Envelopes /\ "Done" \in Stages
    BY <2>1, <2>2 DEF Reset, Envelopes, Stages, Rank
  <2>4. [e EXCEPT !.stage = "Done"] \in Envelopes
    BY <2>3 DEF Envelopes
  <2> QED BY <2>2, <2>4 DEF Init, EnvelopeInv
<1>2. EnvelopeInv /\ PlaceInv /\ [Next]_vars => EnvelopeInv'
  <2> SUFFICES ASSUME EnvelopeInv, PlaceInv, [Next]_vars PROVE EnvelopeInv'
    OBVIOUS
  <2>1. CASE Start
    <3>1. PICK d \in Sounds, delay \in Delays :
             egEnvelope' = Reset([d.lengths EXCEPT !["Delay"] = @ + delay + d.delay])
      BY <2>1 DEF Start, StartVoice
    <3>2. delay \in Nat /\ d.delay \in Nat /\ d.lengths \in [Timed -> Nat]
      <4>1. d \in Descriptions /\ delay \in Nat
        BY SoundsAssumption DEF SoundsAssumption
      <4> QED BY <4>1 DEF Descriptions
    <3>3. PICK lengths : lengths = [d.lengths EXCEPT !["Delay"] = @ + delay + d.delay]
      OBVIOUS
    <3>4. lengths \in [Timed -> Nat]
      BY <3>2, <3>3 DEF Timed
    <3> QED BY <3>1, <3>3, <3>4 DEF EnvelopeInv, Reset, Envelopes, Stages, Rank
  <2>2. ASSUME NEW delay \in Delays, Release(delay) PROVE EnvelopeInv'
    <3>1. delay \in Nat
      BY SoundsAssumption DEF SoundsAssumption
    <3> QED BY <2>2, <3>1, AskedIsEnvelope DEF Release, EnvelopeInv
  <2>3. CASE UNCHANGED egEnvelope
    BY <2>3 DEF EnvelopeInv
  <2>4. CASE Render
    <3>1. PICK frames \in BlockSizes : RenderBlock(frames)
      BY <2>4 DEF Render
    <3>2. egEnvelope' = GetBlock(AskedToEnd(egEnvelope, ReadInBlock(frames)), frames)
      BY <3>1 DEF RenderBlock
    <3>3. frames \in Nat
      BY SoundsAssumption DEF SoundsAssumption
    <3> QED BY <3>1, <3>2, <3>3, AskedToEndIsEnvelope, GetBlockEffect DEF EnvelopeInv
  <2> QED
    BY <2>1, <2>2, <2>3, <2>4 DEF Next, Steal, FileArrives, vars
<1> QED BY <1>1, <1>2, PlaceInvariant, PTL DEF Spec

\* ReleaseMeetsEnd, for every sound, pitch and sequence of blocks.
THEOREM ReleaseMeetsEndHolds == Spec => ReleaseMeetsEnd
<1> DEFINE Meets ==
      state = "playing" /\ state' = "release" /\ sourcePosition' # sourcePosition
        => LET last == egEnvelope'.releaseDelay
           IN  /\ Straight(last + 1) >= SampleEnd(region)
               /\ last > 0 => Straight(last) < SampleEnd(region)
<1>1. PlaceInv /\ EnvelopeInv /\ [Next]_vars => [Meets]_vars
  <2> SUFFICES ASSUME PlaceInv, EnvelopeInv, [Next]_vars, state = "playing",
                      state' = "release", sourcePosition' # sourcePosition
               PROVE  /\ Straight(egEnvelope'.releaseDelay + 1) >= SampleEnd(region)
                      /\ egEnvelope'.releaseDelay > 0 =>
                            Straight(egEnvelope'.releaseDelay) < SampleEnd(region)
    OBVIOUS
  <2>1. Render
    BY DEF Next, vars, Start, StartVoice, Release, FileArrives, Steal
  <2>2. PICK frames \in BlockSizes : RenderBlock(frames)
    BY <2>1 DEF Render
  <2>3. ~ ResetFields /\ frames \in Nat
    BY SoundsAssumption DEF ResetFields, SoundsAssumption
  <2>4. PICK n \in 1 .. frames : /\ FillWithData(Indices(n)) /\ ~ region.generator
                                 /\ ReadInBlock(frames) = Indices(n)
    BY <2>2, <2>3, BlockEffect DEF PlaceInv
  <2>5. Reading /\ n \in Nat /\ n > 0
    BY <2>4 DEF Reading, NoRegion
  <2>6. PICK indices : indices = Indices(n)
    OBVIOUS
  <2>7. Len(indices) = n /\ indices # <<>>
    BY <2>5, <2>6, IndicesInSample
  <2>8. EndsIn(indices, n)
    BY <2>4, <2>6, <2>7 DEF FillWithData
  <2>9. PICK f : f = FramesBeforeEnd(indices)
    OBVIOUS
  <2>10. /\ f \in 0 .. n - 1
         /\ Straight(f + 1) >= SampleEnd(region)
         /\ f > 0 => Straight(f) < SampleEnd(region)
    BY <2>5, <2>6, <2>8, <2>9, EndFrame DEF EndsIn
  <2>11. egEnvelope' = GetBlock(StartRelease(egEnvelope, f), frames)
    <3>1. egEnvelope' = GetBlock(AskedToEnd(egEnvelope, indices), frames)
      BY <2>2, <2>4, <2>6 DEF RenderBlock
    <3>2. AskedToEnd(egEnvelope, indices) = StartRelease(egEnvelope, f)
      BY <2>7, <2>8, <2>9 DEF AskedToEnd
    <3> QED BY <3>1, <3>2
  <2>12. f \in Nat /\ f <= frames
    BY <2>3, <2>10
  <2>13. egEnvelope'.releaseDelay = f
    <3>1. PICK e : e = StartRelease(egEnvelope, f)
      OBVIOUS
    <3>2. e \in Envelopes /\ e.releaseDelay = f /\ e.shouldRelease
      BY <2>12, <3>1, AskedIsEnvelope DEF EnvelopeInv
    <3>3. GetBlock(e, frames).releaseDelay = f
      BY <2>3, <2>12, <3>2, ReleaseInThisBlock
    <3> QED BY <2>11, <3>1, <3>3
  <2> QED BY <2>10, <2>13
<1> QED BY <1>1, PlaceInvariant, EnvelopeInvariant, PTL DEF Spec, ReleaseMeetsEnd

-----------------------------------------------------------------------------
(* The tape.                                                                 *)

\* What a modulus is, for one that is not a number.
LEMMA ModulusNumbers ==
    ASSUME NEW m \in Nat \ {0}, NEW a \in Int
    PROVE  /\ a % m \in Nat /\ a % m < m /\ a \div m \in Int
           /\ a = (m * (a \div m)) + (a % m)
  OBVIOUS

LEMMA TurnIsLong ==
    ASSUME NEW m \in Nat \ {0}, NEW d \in Int, d >= 1
    PROVE  m * d >= m
  OBVIOUS

LEMMA RemaindersDiffer ==
    ASSUME NEW m \in Nat \ {0}, NEW p \in Int, NEW q \in Int, NEW r \in Nat, NEW s \in Nat,
           r < m, s < m, (m * p) + r = (m * q) + s, p > q
    PROVE  FALSE
<1>1. PICK d \in Int : d = p - q /\ d >= 1
  OBVIOUS
<1>2. m * d >= m
  BY <1>1, TurnIsLong
<1>3. m * d = (m * p) - (m * q)
  BY <1>1
<1>4. PICK x \in Int, y \in Int : x = m * p /\ y = m * q
  OBVIOUS
<1> QED BY <1>2, <1>3, <1>4

LEMMA RemainderIsUnique ==
    ASSUME NEW m \in Nat \ {0}, NEW p \in Int, NEW q \in Int, NEW r \in Nat, NEW s \in Nat,
           r < m, s < m, (m * p) + r = (m * q) + s
    PROVE  r = s
<1>1. ~ (p > q) /\ ~ (q > p)
  BY RemaindersDiffer
<1>2. p = q
  BY <1>1
<1>3. PICK x \in Int : x = m * p
  OBVIOUS
<1> QED BY <1>2, <1>3

\* k half frames on from a, t turns of m half frames do not show.
Unseen(t, m, a, k) == ((a + k) - (t * m)) % m = ((a % m) + k) % m

\* A loop is where it would be had no turn been taken.
LEMMA TurnsDoNotShow ==
    ASSUME NEW m \in Nat \ {0}, NEW a \in Nat, NEW k \in Nat, NEW t \in Nat
    PROVE  Unseen(t, m, a, k)
<1>1. PICK q \in Int, r \in Nat : q = a \div m /\ r = a % m /\ a = (m * q) + r
  BY ModulusNumbers
<1>2. PICK u \in Int, v \in Nat : v = (r + k) % m /\ v < m /\ r + k = (m * u) + v
  <2>1. r + k \in Int
    OBVIOUS
  <2> QED BY <2>1, ModulusNumbers
<1>3. PICK b \in Int : b = (a + k) - (t * m)
  OBVIOUS
<1>4. PICK w \in Int, x \in Nat : x = b % m /\ x < m /\ b = (m * w) + x
  BY ModulusNumbers
<1>5. m * ((q + u) - t) = ((m * q) + (m * u)) - (t * m)
  OBVIOUS
<1>6. (q + u) - t \in Int /\ (m * ((q + u) - t)) + v = (m * w) + x
  <2>1. PICK mq \in Int, mu \in Int, mw \in Int, tm \in Int :
           mq = m * q /\ mu = m * u /\ mw = m * w /\ tm = t * m
    OBVIOUS
  <2>2. a = mq + r /\ r + k = mu + v /\ b = (a + k) - tm /\ b = mw + x
    BY <1>1, <1>2, <1>3, <1>4, <2>1
  <2>3. ((mq + mu) - tm) + v = mw + x
    BY <2>2
  <2>4. (q + u) - t \in Int
    OBVIOUS
  <2> QED BY <1>5, <2>1, <2>3, <2>4, Zenon
<1>7. v = x
  BY <1>2, <1>4, <1>6, RemainderIsUnique
<1> QED BY <1>1, <1>2, <1>3, <1>4, <1>7, Zenon DEF Unseen

\* Where the voice is, in half frames.
At == 2 * sourcePosition + floatPositionOffset

\* A voice clamped at an end that no file will move waits there.
AtTheEnd ==
    /\ sourcePosition = SampleEnd(region) /\ floatPositionOffset = 2
    /\ ~ Waits(region)

OnItsTape ==
    /\ due \in Nat
    /\ IF Loops(region) THEN At % LoopLength(region) = due ELSE At = due \/ AtTheEnd

TapeInv ==
    /\ ~ Reading => floatPositionOffset = 0
    /\ Reading /\ ~ starved => OnItsTape

\* The half frames of a block, with the turns of its last index.
LEMMA HalvesAdd ==
    ASSUME NEW p \in Nat, NEW f \in Nat, NEW k \in Nat, NEW o \in Nat, NEW t \in Nat
    PROVE  2 * ((p + (f + k) \div 2) - (t * o)) + ((f + k) % 2)
             = ((2 * p + f) + k) - (t * (2 * o))
<1>1. PICK j \in Nat : j = f + k
  OBVIOUS
<1>2. 2 * (j \div 2) + (j % 2) = j /\ j \div 2 \in Nat /\ j % 2 \in Nat
  BY <1>1
<1>3. t * (2 * o) = 2 * (t * o)
  OBVIOUS
<1>4. PICK to \in Int : to = t * o
  OBVIOUS
<1> QED BY <1>1, <1>2, <1>3, <1>4

\* A sound that loops and whose loop is not in the source waits for its file.
LEMMA LoopWaits ==
    ASSUME Placed, Reading, Loops(region), ~ LoopsInSource(region)
    PROVE  Waits(region)
<1>1. PICK d : d = region
  OBVIOUS
<1>2. d \in Sounds /\ ~ d.generator
  BY <1>1, RegionIsSound
<1>3. d.loops /\ d.loopEnd <= FramesAtLast(d) /\ ~ (d.loopEnd <= SourceFrames(d))
  BY <1>1 DEF Loops, LoopsInSource
<1>4. SourceFrames(d) # FramesAtLast(d)
  BY <1>3
<1> QED BY <1>1, <1>2, <1>4, SourceNumbers

\* The turns of a loop are whole.
LEMMA LoopIsWhole ==
    ASSUME Placed, Reading, Loops(region)
    PROVE  LoopLength(region) \in Nat \ {0}
<1>1. PICK d : d = region
  OBVIOUS
<1>2. d \in Sounds /\ ~ d.generator /\ d \in Descriptions /\ Loops(d)
  BY <1>1, RegionIsSound, SoundsAssumption DEF SoundsAssumption
<1>3. /\ d.loopStart \in Nat /\ d.step \in Nat /\ TrueSampleEnd(d) \in Nat
      /\ 2 * (TrueSampleEnd(d) - 1 - d.loopStart) >= d.step + 1
  BY <1>2, SoundNumbers, SoundsAssumption DEF SoundsAssumption, Descriptions
<1>4. LoopLength(d) \in Nat \ {0}
  BY <1>3 DEF LoopLength
<1> QED BY <1>1, <1>4

\* A block moves the voice and the tape by as much.
LEMMA FillKeepsTape ==
    ASSUME PlaceInv, TapeInv, Reading, NEW n \in Nat, n > 0, FillWithData(Indices(n)),
           UNCHANGED <<region, dataReady>>
    PROVE  TapeInv'
<1> SUFFICES ASSUME ~ starved' PROVE OnItsTape'
  BY DEF TapeInv, Reading
<1>1. region.step \in Nat /\ sourcePosition \in Nat /\ floatPositionOffset \in Nat
      /\ SampleEnd(region) \in Nat
  <2>1. PICK d : d = region
    OBVIOUS
  <2>2. region.step \in Nat
    BY <2>1, RegionIsSound, SoundNumbers DEF PlaceInv
  <2> QED BY <2>2, EndInSource DEF PlaceInv
<1>2. PICK k \in Nat : k = n * region.step
  BY <1>1
<1>3. Jump(n) = floatPositionOffset + k /\ Straight(n) = sourcePosition + Jump(n) \div 2
  BY <1>2 DEF Jump, Straight
<1>4. PICK indices : indices = Indices(n)
  OBVIOUS
<1>5. n \in 1 .. n /\ Len(indices) = n
  BY <1>4, IndicesInSample
<1>6. /\ sourcePosition' = indices[n]
      /\ floatPositionOffset' = RightCoeff(n)
      /\ due' = IF Clamped(n) THEN due ELSE Along(region, due, k)
      /\ ~ starved /\ ~ (Waits(region) /\ Clamped(n))
  BY <1>2, <1>4, <1>5 DEF FillWithData
<1>7. OnItsTape
  BY <1>6 DEF TapeInv
<1>8. At \in Nat
  BY <1>1 DEF At
<1>9. /\ Loops(region)' = Loops(region) /\ LoopLength(region)' = LoopLength(region)
      /\ SampleEnd(region)' = SampleEnd(region) /\ Waits(region)' = Waits(region)
  BY DEF Loops, LoopLength, TrueSampleEnd, SampleEnd, SourceFrames, FramesAtLast, UsesFile,
         Waits, CanUsePreloadedData
<1>10. CASE LoopsInSource(region)
  <2>1. PICK o \in Nat : /\ o = SampleEnd(region) - region.loopStart
                         /\ Loops(region) /\ LoopLength(region) = 2 * o
    BY <1>10, LoopNumbers DEF PlaceInv, LoopLength
  <2>2. ~ Clamped(n)
    BY <1>10 DEF Clamped
  <2>3. PICK t \in Nat : indices[n] = Straight(n) - t * o
    BY <1>4, <1>5, <1>10, <2>1, IndicesInSample
  <2>4. At' = (At + k) - (t * LoopLength(region))
    <3>1. sourcePosition' = (sourcePosition + (floatPositionOffset + k) \div 2) - (t * o)
      BY <1>3, <1>6, <2>3
    <3>2. floatPositionOffset' = (floatPositionOffset + k) % 2
      BY <1>3, <1>6, <2>2 DEF RightCoeff
    <3>3. At' = 2 * ((sourcePosition + (floatPositionOffset + k) \div 2) - (t * o))
                   + ((floatPositionOffset + k) % 2)
      BY <3>1, <3>2 DEF At
    <3>4. At' = ((2 * sourcePosition + floatPositionOffset) + k) - (t * (2 * o))
      <4>1. PICK p \in Nat, f \in Nat : p = sourcePosition /\ f = floatPositionOffset
        BY <1>1
      <4>2. 2 * ((p + (f + k) \div 2) - (t * o)) + ((f + k) % 2)
              = ((2 * p + f) + k) - (t * (2 * o))
        BY HalvesAdd
      <4> QED BY <3>3, <4>1, <4>2, Zenon
    <3> QED BY <2>1, <3>4, Zenon DEF At
  <2>5. due' = (due + k) % LoopLength(region)
    BY <1>6, <2>1, <2>2 DEF Along
  <2>6. LoopLength(region) \in Nat \ {0}
    BY <2>1, LoopIsWhole DEF PlaceInv
  <2>7. At % LoopLength(region) = due /\ due \in Nat
    BY <1>7, <2>1 DEF OnItsTape
  <2>8. At' % LoopLength(region) = due'
    <3>1. PICK m \in Nat \ {0}, at \in Nat : m = LoopLength(region) /\ at = At
      BY <1>8, <2>6
    <3>2. m \in Nat \ {0} /\ at \in Nat /\ k \in Nat /\ t \in Nat
      OBVIOUS
    <3>3. Unseen(t, m, at, k)
      BY <3>2, TurnsDoNotShow, Zenon
    <3> QED BY <2>4, <2>5, <2>7, <3>1, <3>3, Zenon DEF Unseen
  <2>9. due' \in Nat
    BY <2>5, <2>6, <2>7, ModulusNumbers
  <2> QED BY <1>9, <2>1, <2>8, <2>9 DEF OnItsTape
<1>11. CASE ~ LoopsInSource(region)
  <2>1. sourcePosition' = Least(Straight(n), SampleEnd(region))
    BY <1>4, <1>5, <1>6, <1>11, IndicesInSample
  <2>2. Clamped(n) <=> Straight(n) > SampleEnd(region)
    BY <1>11 DEF Clamped
  <2>3. ~ Clamped(n) => At' = At + k
    <3>1. SUFFICES ASSUME ~ Clamped(n) PROVE At' = At + k
      OBVIOUS
    <3>2. sourcePosition' = sourcePosition + (floatPositionOffset + k) \div 2
      BY <1>1, <1>3, <2>1, <2>2, <3>1 DEF Least
    <3>3. floatPositionOffset' = (floatPositionOffset + k) % 2
      BY <1>3, <1>6, <3>1 DEF RightCoeff
    <3> QED BY <1>1, <3>2, <3>3 DEF At
  <2>4. CASE Loops(region)
    <3>1. Waits(region) /\ ~ Clamped(n)
      BY <1>6, <1>11, <2>4, LoopWaits DEF PlaceInv
    <3>2. due' = (due + k) % LoopLength(region)
      BY <1>6, <2>4, <3>1 DEF Along
    <3>3. LoopLength(region) \in Nat \ {0}
      BY <2>4, LoopIsWhole DEF PlaceInv
    <3>4. At % LoopLength(region) = due /\ due \in Nat
      BY <1>7, <2>4 DEF OnItsTape
    <3>5. At' = (At + k) - (0 * LoopLength(region))
      <4>1. 0 * LoopLength(region) = 0
        BY <3>3
      <4>2. At + k = (At + k) - 0
        BY <1>8
      <4> QED BY <2>3, <3>1, <4>1, <4>2
    <3>6. At' % LoopLength(region) = due'
      <4>1. PICK m \in Nat \ {0}, at \in Nat : m = LoopLength(region) /\ at = At
        BY <1>8, <3>3
      <4>2. 0 \in Nat
        OBVIOUS
      <4>3. Unseen(0, m, at, k)
        BY <4>2, TurnsDoNotShow, Zenon
      <4> QED BY <3>2, <3>4, <3>5, <4>1, <4>3, Zenon DEF Unseen
    <3>7. due' \in Nat
      BY <3>2, <3>3, <3>4, ModulusNumbers
    <3> QED BY <1>9, <2>4, <3>6, <3>7 DEF OnItsTape
  <2>5. CASE ~ Loops(region) /\ Clamped(n)
    <3>1. sourcePosition' = SampleEnd(region)
      BY <1>1, <2>1, <2>2, <2>5 DEF Least, Straight, Jump
    <3> QED BY <1>6, <1>7, <1>9, <2>5, <3>1 DEF OnItsTape, AtTheEnd, RightCoeff
  <2>6. CASE ~ Loops(region) /\ ~ Clamped(n)
    <3>1. due' = due + k
      BY <1>6, <2>6 DEF Along
    <3>2. ~ AtTheEnd
      BY <1>1, <1>3, <2>2, <2>6 DEF AtTheEnd
    <3>3. At = due /\ due \in Nat
      BY <1>7, <2>6, <3>2 DEF OnItsTape
    <3> QED BY <1>9, <2>3, <2>6, <3>1, <3>3 DEF OnItsTape
  <2> QED BY <2>4, <2>5, <2>6
<1> QED BY <1>10, <1>11

\* The tape starts where the voice does.
LEMMA StartKeepsTape ==
    ASSUME TapeInv, NEW d \in Sounds, NEW delay \in Delays, NEW offset,
           offset \in (IF d.generator THEN {0} ELSE d.offset .. d.offset + d.offsetRandom),
           StartVoice(d, delay, offset), Placed'
    PROVE  TapeInv'
<1>1. /\ region = NoRegion /\ region' = d /\ sourcePosition' = offset /\ offset \in Nat
      /\ UNCHANGED floatPositionOffset
  BY StartsBeforeEnd
<1>2. floatPositionOffset' = 0
  BY <1>1 DEF TapeInv, Reading
<1>3. SUFFICES ASSUME Reading' PROVE OnItsTape'
  BY <1>2 DEF TapeInv
<1>4. ~ d.generator /\ due' = Along(d, 2 * offset, 0)
  BY <1>1, <1>3 DEF Reading, StartVoice
<1>5. At' = 2 * offset /\ 2 * offset \in Nat /\ 2 * offset + 0 = 2 * offset
  BY <1>1, <1>2 DEF At
<1>6. CASE Loops(d)
  <2>1. due' = (2 * offset) % LoopLength(d)
    BY <1>4, <1>5, <1>6 DEF Along
  <2>2. LoopLength(d) \in Nat \ {0}
    <3>1. /\ d.loopStart \in Nat /\ d.step \in Nat /\ TrueSampleEnd(d) \in Nat
          /\ 2 * (TrueSampleEnd(d) - 1 - d.loopStart) >= d.step + 1
      BY <1>4, <1>6, SoundNumbers, SoundsAssumption DEF SoundsAssumption, Descriptions
    <3> QED BY <3>1 DEF LoopLength
  <2>3. due' \in Nat
    BY <1>5, <2>1, <2>2, ModulusNumbers
  <2>4. Loops(region)' /\ LoopLength(region)' = LoopLength(d)
    BY <1>1, <1>6 DEF Loops, LoopLength, TrueSampleEnd, FramesAtLast, CanUsePreloadedData
  <2> QED BY <1>5, <2>1, <2>3, <2>4 DEF OnItsTape
<1>7. CASE ~ Loops(d)
  <2>1. due' = 2 * offset
    BY <1>4, <1>5, <1>7 DEF Along
  <2>2. ~ Loops(region)'
    BY <1>1, <1>7 DEF Loops, FramesAtLast, CanUsePreloadedData, TrueSampleEnd
  <2> QED BY <1>5, <2>1, <2>2 DEF OnItsTape
<1> QED BY <1>6, <1>7

\* No file moves an end that nothing waits for.
LEMMA FileKeepsTape ==
    ASSUME PlaceInv, TapeInv, FileArrives
    PROVE  TapeInv'
<1>1. /\ dataReady' = TRUE /\ ~ dataReady
      /\ UNCHANGED <<region, sourcePosition, floatPositionOffset, due, starved>>
  BY DEF FileArrives
<1>2. /\ Loops(region)' = Loops(region) /\ LoopLength(region)' = LoopLength(region)
      /\ At' = At /\ Reading' = Reading
  BY <1>1 DEF Loops, LoopLength, TrueSampleEnd, FramesAtLast, CanUsePreloadedData, At,
              Reading
<1>3. AtTheEnd => AtTheEnd'
  BY <1>1 DEF AtTheEnd, Waits, SampleEnd, TrueSampleEnd, SourceFrames, FramesAtLast,
              UsesFile, CanUsePreloadedData
<1>4. OnItsTape => OnItsTape'
  BY <1>1, <1>2, <1>3 DEF OnItsTape
<1> QED BY <1>1, <1>2, <1>4 DEF TapeInv

THEOREM TapeInvariant == Spec => []TapeInv
<1>1. Init => TapeInv
  BY DEF Init, TapeInv, Reading
<1>2. PlaceInv /\ PlaceInv' /\ TapeInv /\ [Next]_vars => TapeInv'
  <2> SUFFICES ASSUME PlaceInv, Placed', TapeInv, [Next]_vars PROVE TapeInv'
    BY DEF PlaceInv
  <2>1. CASE Start
    <3>1. PICK d \in Sounds, delay \in Delays :
             \E offset \in IF d.generator THEN {0}
                             ELSE d.offset .. d.offset + d.offsetRandom :
                StartVoice(d, delay, offset)
      BY <2>1 DEF Start
    <3> QED BY <3>1, StartKeepsTape
  <2>2. CASE UNCHANGED <<region, sourcePosition, floatPositionOffset, dataReady, due,
                         starved>>
    BY <2>2 DEF TapeInv, OnItsTape, AtTheEnd, At, Loops, LoopLength, FramesAtLast,
                Reading, SampleEnd, TrueSampleEnd, SourceFrames, UsesFile, Waits,
                CanUsePreloadedData
  <2>3. CASE FileArrives
    BY <2>3, FileKeepsTape
  <2>4. CASE ResetFields
    BY <2>4 DEF ResetFields, TapeInv, Reading
  <2>5. CASE Render
    <3>1. PICK frames \in BlockSizes : RenderBlock(frames)
      BY <2>5 DEF Render
    <3>2. \/ ResetFields
          \/ UNCHANGED <<region, sourcePosition, floatPositionOffset, dataReady, due,
                         starved>>
          \/ /\ UNCHANGED <<region, dataReady>> /\ ~ region.generator
             /\ \E n \in 1 .. frames : FillWithData(Indices(n))
      BY <3>1, BlockEffect DEF PlaceInv
    <3>3. ASSUME UNCHANGED <<region, dataReady>>, ~ region.generator,
                 NEW n \in 1 .. frames, FillWithData(Indices(n))
          PROVE  TapeInv'
      BY <3>3, FillKeepsTape DEF Reading, NoRegion
    <3> QED BY <2>2, <2>4, <3>2, <3>3
  <2> QED
    BY <2>1, <2>2, <2>3, <2>4, <2>5 DEF Next, Release, Steal, vars
<1> QED BY <1>1, <1>2, PlaceInvariant, PTL DEF Spec

\* OnTape, for every sound, looped or not, every pitch and sequence of blocks, with the
\* file early, late or missing.
THEOREM OnTapeHolds == Spec => []OnTape
<1>1. PlaceInv /\ TapeInv => OnTape
  <2> SUFFICES ASSUME PlaceInv, TapeInv, Reading, ~ starved
               PROVE  IF Loops(region) THEN At % LoopLength(region) = due
                      ELSE sourcePosition < SampleEnd(region) => At = due
    BY DEF OnTape, At
  <2>1. OnItsTape
    BY DEF TapeInv
  <2>2. AtTheEnd => ~ (sourcePosition < SampleEnd(region))
    BY EndInSource DEF AtTheEnd, PlaceInv
  <2> QED BY <2>1, <2>2 DEF OnItsTape
<1> QED BY <1>1, PlaceInvariant, TapeInvariant, PTL

-----------------------------------------------------------------------------
(* Blocks and values.                                                        *)

\* Within a stage, and on to the following one.
Took(e, n) == GoesOn(e, e.stage, Spent(e.left, e.stage, n))

Left(e) == GoesOn(e, Following[e.stage], Spent(e.left, e.stage, e.left[e.stage]))

\* The stages follow one another in the order of the switch.
LEMMA StagesInOrder ==
    /\ \A s \in Stages : Rank[s] \in 1 .. 7
    /\ \A s, r \in Stages : Rank[s] <= Rank[r] /\ Rank[r] <= Rank[s] => s = r
    /\ \A s \in Timed : s \in Stages /\ Following[s] \in Stages
                        /\ Rank[Following[s]] = Rank[s] + 1
<1>1. Stages = {"Delay", "Attack", "Hold", "Decay", "Sustain", "Release", "Done"}
  BY DEF Stages, Rank
<1>2. /\ Rank["Delay"] = 1 /\ Rank["Attack"] = 2 /\ Rank["Hold"] = 3 /\ Rank["Decay"] = 4
      /\ Rank["Sustain"] = 5 /\ Rank["Release"] = 6 /\ Rank["Done"] = 7
  BY DEF Rank
<1>3. /\ Following["Delay"] = "Attack" /\ Following["Attack"] = "Hold"
      /\ Following["Hold"] = "Decay" /\ Following["Decay"] = "Sustain"
      /\ Following["Release"] = "Done"
  BY DEF Following
<1> QED BY <1>1, <1>2, <1>3 DEF Timed

\* An envelope is its fields.
LEMMA EnvelopeFields ==
    ASSUME NEW e \in Envelopes
    PROVE  /\ e.stage \in Stages /\ e.left \in [Timed -> Nat]
           /\ e.releaseDelay \in Nat \cup {-1} /\ e.shouldRelease \in BOOLEAN
           /\ e = GoesOn(e, e.stage, e.left)
  BY DEF Envelopes, GoesOn

LEMMA GoesOnFields ==
    ASSUME NEW e \in Envelopes, NEW stage \in Stages, NEW left \in [Timed -> Nat]
    PROVE  /\ GoesOn(e, stage, left) \in Envelopes
           /\ GoesOn(e, stage, left).stage = stage
           /\ GoesOn(e, stage, left).left = left
           /\ GoesOn(e, stage, left).shouldRelease = e.shouldRelease
           /\ GoesOn(e, stage, left).releaseDelay = e.releaseDelay
           /\ \A next, rest :
                 GoesOn(GoesOn(e, stage, left), next, rest) = GoesOn(e, next, rest)
  BY EnvelopeFields DEF GoesOn, Envelopes

LEMMA SpentFields ==
    ASSUME NEW left \in [Timed -> Nat], NEW stage \in Timed, NEW n \in 0 .. left[stage]
    PROVE  /\ Spent(left, stage, n) \in [Timed -> Nat]
           /\ Spent(left, stage, n)[stage] = left[stage] - n
           /\ \A m \in 0 .. left[stage] - n :
                 Spent(Spent(left, stage, n), stage, m) = Spent(left, stage, n + m)
           /\ Spent(left, stage, 0) = left
<1>1. left[stage] \in Nat /\ left[stage] - n \in Nat
  OBVIOUS
<1>2. /\ Spent(left, stage, n) \in [Timed -> Nat]
      /\ Spent(left, stage, n)[stage] = left[stage] - n
  BY <1>1 DEF Spent
<1>3. ASSUME NEW m \in 0 .. left[stage] - n
      PROVE  Spent(Spent(left, stage, n), stage, m) = Spent(left, stage, n + m)
  <2>1. (left[stage] - n) - m = left[stage] - (n + m)
    BY <1>1
  <2> QED BY <1>2, <2>1 DEF Spent
<1>4. Spent(left, stage, 0) = left
  BY <1>1 DEF Spent
<1> QED BY <1>2, <1>3, <1>4

LEMMA TookFields ==
    ASSUME NEW e \in Envelopes, e.stage \in Timed, NEW n \in 0 .. e.left[e.stage]
    PROVE  /\ Took(e, n) \in Envelopes /\ Took(e, n).stage = e.stage
           /\ Took(e, n).left[e.stage] = e.left[e.stage] - n
           /\ Took(e, n).shouldRelease = e.shouldRelease
           /\ \A m \in 0 .. e.left[e.stage] - n : Took(Took(e, n), m) = Took(e, n + m)
           /\ Took(e, 0) = e
<1>1. PICK stage \in Timed, left \in [Timed -> Nat] : stage = e.stage /\ left = e.left
  BY EnvelopeFields
<1>2. PICK spent : spent = Spent(left, stage, n)
  OBVIOUS
<1>3. /\ spent \in [Timed -> Nat] /\ spent[stage] = left[stage] - n
      /\ \A m \in 0 .. left[stage] - n : Spent(spent, stage, m) = Spent(left, stage, n + m)
      /\ Spent(left, stage, 0) = left
  BY <1>1, <1>2, SpentFields
<1>4. Took(e, n) = GoesOn(e, stage, spent)
  BY <1>1, <1>2 DEF Took
<1>5. PICK t : t = GoesOn(e, stage, spent)
  OBVIOUS
<1>6. /\ t \in Envelopes /\ t.stage = stage /\ t.left = spent
      /\ t.shouldRelease = e.shouldRelease
      /\ \A next, rest : GoesOn(t, next, rest) = GoesOn(e, next, rest)
  BY <1>1, <1>3, <1>5, EnvelopeFields, GoesOnFields
<1>7. \A m \in 0 .. left[stage] - n : Took(t, m) = Took(e, n + m)
  BY <1>1, <1>3, <1>6 DEF Took
<1>8. Took(e, 0) = e
  BY <1>1, <1>3, EnvelopeFields DEF Took
<1> QED BY <1>1, <1>3, <1>4, <1>5, <1>6, <1>7, <1>8

LEMMA LeftFields ==
    ASSUME NEW e \in Envelopes, e.stage \in Timed
    PROVE  /\ Left(e) \in Envelopes /\ Left(e).stage = Following[e.stage]
           /\ Left(e).shouldRelease = e.shouldRelease
           /\ Left(Took(e, e.left[e.stage])) = Left(e)
           /\ e.left[e.stage] = 0 => Left(e).left = e.left
<1>1. PICK stage \in Timed, left \in [Timed -> Nat] : stage = e.stage /\ left = e.left
  BY EnvelopeFields
<1>2. PICK n \in Nat : n = left[stage] /\ n \in 0 .. left[stage] /\ left[stage] - n = 0
  OBVIOUS
<1>3. PICK spent : spent = Spent(left, stage, n)
  OBVIOUS
<1>4. /\ spent \in [Timed -> Nat] /\ spent[stage] = 0
      /\ Spent(spent, stage, 0) = spent
      /\ n = 0 => spent = left
  <2>1. spent \in [Timed -> Nat] /\ spent[stage] = 0 /\ Spent(left, stage, 0) = left
    BY <1>2, <1>3, SpentFields
  <2>2. 0 \in 0 .. spent[stage]
    BY <2>1
  <2>3. Spent(spent, stage, 0) = spent
    BY <2>1, <2>2, SpentFields
  <2> QED BY <1>3, <2>1, <2>3
<1>5. Following[stage] \in Stages /\ stage \in Stages
  BY StagesInOrder
<1>6. Left(e) = GoesOn(e, Following[stage], spent) /\ Took(e, n) = GoesOn(e, stage, spent)
  BY <1>1, <1>2, <1>3 DEF Left, Took
<1>7. PICK t, l : t = GoesOn(e, stage, spent) /\ l = GoesOn(e, Following[stage], spent)
  OBVIOUS
<1>8. /\ t.stage = stage /\ t.left = spent
      /\ \A next, rest : GoesOn(t, next, rest) = GoesOn(e, next, rest)
  BY <1>4, <1>5, <1>7, GoesOnFields
<1>9. /\ l \in Envelopes /\ l.stage = Following[stage] /\ l.left = spent
      /\ l.shouldRelease = e.shouldRelease
  BY <1>4, <1>5, <1>7, GoesOnFields
<1>10. Left(t) = l
  BY <1>4, <1>7, <1>8 DEF Left
<1> QED BY <1>1, <1>2, <1>4, <1>6, <1>7, <1>9, <1>10

\* A case of the switch, in these terms.
LEMMA CaseIs ==
    ASSUME NEW e \in Envelopes, NEW n \in Nat, e.stage \in Timed
    PROVE  /\ n <= e.left[e.stage] =>
                 Case(e.stage)[[env |-> e, remaining |-> n]] =
                     [env |-> Took(e, n), remaining |-> 0]
           /\ n > e.left[e.stage] =>
                 Case(e.stage)[[env |-> e, remaining |-> n]] =
                     [env |-> Left(e), remaining |-> n - e.left[e.stage]]
<1>1. PICK b, stage, left : /\ b = [env |-> e, remaining |-> n] /\ stage = e.stage
                            /\ left = e.left[e.stage]
  OBVIOUS
<1>2. b \in Blocks /\ b.env = e /\ b.remaining = n /\ left \in Nat
  BY <1>1, EnvelopeFields DEF Blocks
<1>3. PICK length, next : /\ length = Least(n, left)
                          /\ next = IF length = n THEN stage ELSE Following[stage]
  OBVIOUS
<1>4. Case(stage)[b] =
        [env |-> GoesOn(e, next, Spent(e.left, stage, length)), remaining |-> n - length]
  BY <1>1, <1>2, <1>3 DEF Case
<1>5. CASE n <= left
  <2>1. length = n /\ next = stage /\ n - length = 0
    BY <1>3, <1>5 DEF Least
  <2> QED BY <1>1, <1>2, <1>4, <1>5, <2>1 DEF Took
<1>6. CASE n > left
  <2>1. length = left /\ next = Following[stage]
    BY <1>2, <1>3, <1>6 DEF Least
  <2> QED BY <1>1, <1>2, <1>4, <1>6, <2>1 DEF Left
<1> QED BY <1>2, <1>5, <1>6, <1>1

\* The cases of other stages.
LEMMA CaseMisses ==
    ASSUME NEW e \in Envelopes, NEW n \in Nat, NEW stage \in Timed, e.stage # stage
    PROVE  Case(stage)[[env |-> e, remaining |-> n]] = [env |-> e, remaining |-> n]
<1>1. PICK b : b = [env |-> e, remaining |-> n]
  OBVIOUS
<1>2. b \in Blocks /\ b.env.stage # stage
  BY <1>1 DEF Blocks
<1>3. Case(stage)[b] = b
  BY <1>2, CaseEffect
<1> QED BY <1>1, <1>3

\* The switch, one stage at a time.
LEMMA SwitchUnfolds ==
    ASSUME NEW e \in Envelopes, NEW n \in Nat
    PROVE  /\ e.stage \notin Timed => Switch(e, n) = e
           /\ e.stage \in Timed /\ n <= e.left[e.stage] => Switch(e, n) = Took(e, n)
           /\ e.stage \in Timed /\ n > e.left[e.stage] =>
                 Switch(e, n) = Switch(Left(e), n - e.left[e.stage])
<1> DEFINE B(f, m) == [env |-> f, remaining |-> m]
           Passes(f, m, S) == \A stage \in S : Case(stage)[B(f, m)] = B(f, m)
<1>1. Timed = {"Delay", "Attack", "Hold", "Decay", "Release"}
  BY DEF Timed
<1>2. \A f \in Envelopes, m \in Nat : Passes(f, m, Timed \ {f.stage})
  BY CaseMisses
<1>3. \A f, m : B(f, m).env = f
  OBVIOUS
<1>4. CASE e.stage \notin Timed
  <2>1. Passes(e, n, Timed)
    BY <1>2, <1>4
  <2>2. PICK b : b = B(e, n)
    OBVIOUS
  <2>3. /\ Case("Delay")[b] = b /\ Case("Attack")[b] = b /\ Case("Hold")[b] = b
        /\ Case("Decay")[b] = b /\ Case("Release")[b] = b
    BY <1>1, <2>1, <2>2
  <2>4. Switch(e, n) = b.env
    BY <2>2, <2>3, Zenon DEF Switch
  <2> QED BY <1>4, <2>2, <2>4
<1>5. CASE e.stage \in Timed /\ n <= e.left[e.stage]
  <2>1. PICK t, m : t = Took(e, n) /\ m = 0
    OBVIOUS
  <2>2. t \in Envelopes /\ t.stage = e.stage /\ m \in Nat
    <3>1. n \in 0 .. e.left[e.stage]
      BY <1>5, EnvelopeFields
    <3> QED BY <1>5, <2>1, <3>1, TookFields
  <2>3. Case(e.stage)[B(e, n)] = B(t, m)
    BY <1>5, <2>1, CaseIs
  <2>4. Passes(e, n, Timed \ {e.stage}) /\ Passes(t, m, Timed \ {e.stage})
    BY <1>2, <2>2
  <2>5. Switch(e, n) = t
    BY <1>1, <1>3, <1>5, <2>3, <2>4 DEF Switch
  <2> QED BY <1>5, <2>1, <2>5, EnvelopeFields
<1>6. CASE e.stage \in Timed /\ n > e.left[e.stage]
  <2>1. PICK l, m : l = Left(e) /\ m = n - e.left[e.stage]
    OBVIOUS
  <2>2. l \in Envelopes /\ l.stage = Following[e.stage] /\ m \in Nat
    BY <1>6, <2>1, LeftFields, EnvelopeFields
  <2>3. Case(e.stage)[B(e, n)] = B(l, m)
    BY <1>6, <2>1, CaseIs
  <2>4. Passes(e, n, Timed \ {e.stage}) /\ Passes(l, m, Timed \ {l.stage})
    BY <1>2, <2>2
  <2>5. Switch(e, n) = Switch(l, m)
    BY <1>1, <1>3, <1>6, <2>2, <2>3, <2>4 DEF Switch, Following
  <2> QED BY <1>6, <2>1, <2>5, EnvelopeFields
<1> QED BY <1>4, <1>5, <1>6

\* The stages that have a sample to give.
Offering(e) == {s \in Stages : Rank[s] >= Rank[e.stage] /\ (s \notin Timed \/ e.left[s] > 0)}

\* The stage that serves a sample, one stage at a time.
LEMMA ServingUnfolds ==
    ASSUME NEW e \in Envelopes
    PROVE  /\ e.stage \notin Timed => ServingStage(e) = e.stage
           /\ e.stage \in Timed /\ e.left[e.stage] > 0 => ServingStage(e) = e.stage
           /\ e.stage \in Timed /\ e.left[e.stage] = 0 =>
                 ServingStage(e) = ServingStage(Left(e))
<1> DEFINE First(S) == CHOOSE s \in S : \A r \in S : Rank[s] <= Rank[r]
<1>1. \A f : ServingStage(f) = First(Offering(f))
  BY DEF ServingStage, Offering
<1>2. e.stage \in Stages /\ e.left \in [Timed -> Nat]
  BY EnvelopeFields
<1>3. ASSUME e.stage \in Offering(e) PROVE ServingStage(e) = e.stage
  <2>1. \A r \in Offering(e) : r \in Stages /\ Rank[e.stage] <= Rank[r]
    BY <1>2, StagesInOrder DEF Offering
  <2>2. \A s \in Offering(e) : Rank[s] <= Rank[e.stage] => s = e.stage
    BY <1>2, <2>1, StagesInOrder
  <2> QED BY <1>1, <1>3, <2>1, <2>2
<1>4. CASE e.stage \notin Timed \/ e.left[e.stage] > 0
  <2>1. e.stage \in Offering(e)
    BY <1>2, <1>4, StagesInOrder DEF Offering
  <2> QED BY <1>3, <1>4, <2>1, <1>2
<1>5. CASE e.stage \in Timed /\ e.left[e.stage] = 0
  <2>1. PICK l \in Envelopes : l = Left(e) /\ l.stage = Following[e.stage] /\ l.left = e.left
    BY <1>5, LeftFields
  <2>2. Rank[l.stage] = Rank[e.stage] + 1 /\ l.stage \in Stages
    BY <1>5, <2>1, StagesInOrder
  <2>3. \A s \in Stages : Rank[s] >= Rank[e.stage] <=> s = e.stage \/ Rank[s] >= Rank[l.stage]
    BY <1>2, <2>2, StagesInOrder
  <2>4. e.stage \notin Offering(e) /\ e.stage \notin Offering(l)
    BY <1>5, <2>1 DEF Offering
  <2>5. Offering(e) = Offering(l)
    BY <2>1, <2>3, <2>4 DEF Offering
  <2>6. ServingStage(e) = ServingStage(l)
    <3> HIDE DEF First
    <3> QED BY <1>1, <2>5
  <2> QED BY <1>5, <2>1, <2>6
<1> QED BY <1>2, <1>4, <1>5

\* A sample of an envelope that nothing releases.
LEMMA ValueIs ==
    ASSUME NEW e \in Envelopes, ~ e.shouldRelease
    PROVE  GetNextValue[e] =
              GoesOn(e, ServingStage(e),
                     IF ServingStage(e) \in Timed THEN Spent(e.left, ServingStage(e), 1)
                       ELSE e.left)
  BY DEF GetNextValue, Counted

\* One more sample, by whatever function the samples are taken; a stage takes it or leaves
\* it to those that follow.
TakesOneMore(e) ==
    /\ GetNextValue[e] = Switch(e, 1)
    /\ \A k \in Nat : Switch(Switch(e, k), 1) = Switch(e, k + 1)

LEMMA StageTakesOneMore ==
    ASSUME NEW e \in Envelopes, ~ e.shouldRelease, e.stage \in Timed,
           TakesOneMore(Left(e))
    PROVE  TakesOneMore(e)
<1>1. PICK left \in Nat : left = e.left[e.stage]
  BY EnvelopeFields
<1>2. PICK l \in Envelopes : /\ l = Left(e) /\ l.shouldRelease = e.shouldRelease
                             /\ left = 0 => l.left = e.left
  BY <1>1, LeftFields
<1>3. /\ GetNextValue[l] = Switch(l, 1)
      /\ \A k \in Nat : Switch(Switch(l, k), 1) = Switch(l, k + 1)
  BY <1>2 DEF TakesOneMore
<1>4. \A k \in Nat : k <= left => Switch(e, k) = Took(e, k)
  BY <1>1, SwitchUnfolds
<1>5. \A k \in Nat : k > left => Switch(e, k) = Switch(l, k - left)
  BY <1>1, <1>2, SwitchUnfolds
<1>6. GetNextValue[e] = Switch(e, 1)
  <2>1. CASE left > 0
    <3>1. ServingStage(e) = e.stage
      BY <1>1, <2>1, ServingUnfolds
    <3>2. GetNextValue[e] = Took(e, 1)
      BY <3>1, ValueIs DEF Took
    <3> QED BY <1>4, <2>1, <3>2
  <2>2. CASE left = 0
    <3>1. ServingStage(e) = ServingStage(l)
      BY <1>1, <1>2, <2>2, ServingUnfolds
    <3>2. \A next, rest : GoesOn(l, next, rest) = GoesOn(e, next, rest)
      BY <1>2 DEF Left, GoesOn
    <3>3. GetNextValue[e] = GetNextValue[l]
      BY <1>2, <2>2, <3>1, <3>2, ValueIs
    <3>4. Switch(e, 1) = Switch(l, 1 - left)
      BY <1>5, <2>2
    <3>5. 1 - left = 1
      BY <2>2
    <3> QED BY <1>3, <3>3, <3>4, <3>5
  <2> QED BY <2>1, <2>2
<1>7. ASSUME NEW k \in Nat PROVE Switch(Switch(e, k), 1) = Switch(e, k + 1)
  <2>1. CASE k < left
    <3>1. Switch(e, k) = Took(e, k) /\ Switch(e, k + 1) = Took(e, k + 1)
      BY <1>4, <2>1
    <3>2. k \in 0 .. left /\ 1 \in 0 .. left - k
      BY <2>1
    <3>3. PICK t \in Envelopes : /\ t = Took(e, k) /\ t.stage = e.stage
                                 /\ t.left[e.stage] = left - k
                                 /\ Took(t, 1) = Took(e, k + 1)
      BY <1>1, <3>2, TookFields
    <3>4. Switch(t, 1) = Took(t, 1)
      BY <3>2, <3>3, SwitchUnfolds
    <3> QED BY <3>1, <3>3, <3>4
  <2>2. CASE k = left
    <3>1. k \in 0 .. left /\ left - k = 0 /\ (k + 1) - left = 1 /\ k + 1 > left
      BY <2>2
    <3>2. PICK t \in Envelopes : t = Took(e, k) /\ t.stage = e.stage /\ t.left[e.stage] = 0
      BY <1>1, <3>1, TookFields
    <3>3. Left(t) = l
      BY <1>1, <1>2, <2>2, <3>2, LeftFields
    <3>4. Switch(t, 1) = Switch(l, 1 - 0)
      BY <3>2, <3>3, SwitchUnfolds
    <3>5. Switch(e, k) = t /\ Switch(e, k + 1) = Switch(l, 1)
      BY <1>4, <1>5, <2>2, <3>1, <3>2
    <3> QED BY <3>4, <3>5
  <2>3. CASE k > left
    <3>1. PICK m \in Nat : m = k - left /\ (k + 1) - left = m + 1 /\ k + 1 > left
      BY <2>3
    <3>2. Switch(e, k) = Switch(l, m) /\ Switch(e, k + 1) = Switch(l, m + 1)
      BY <1>5, <2>3, <3>1
    <3> QED BY <1>3, <3>2
  <2> QED BY <2>1, <2>2, <2>3
<1> QED BY <1>6, <1>7 DEF TakesOneMore

\* From the last stage to the first.
LEMMA EachTakesOneMore ==
    ASSUME NEW e \in Envelopes, ~ e.shouldRelease
    PROVE  TakesOneMore(e)
<1> DEFINE Quiet == {f \in Envelopes : ~ f.shouldRelease}
           T == {m \in 0 .. 7 : \A f \in Quiet : Rank[f.stage] >= 7 - m => TakesOneMore(f)}
<1>1. \A f \in Quiet : f.stage \in Stages /\ Rank[f.stage] \in 1 .. 7
  BY EnvelopeFields, StagesInOrder
<1>2. ASSUME NEW f \in Quiet, f.stage \notin Timed PROVE TakesOneMore(f)
  <2>1. \A n \in Nat : Switch(f, n) = f
    BY <1>2, SwitchUnfolds
  <2>2. ServingStage(f) = f.stage
    BY <1>2, ServingUnfolds
  <2>3. GetNextValue[f] = f
    BY <1>2, <2>2, ValueIs, EnvelopeFields
  <2> QED BY <2>1, <2>3 DEF TakesOneMore
<1>3. 0 \in T
  <2>1. ASSUME NEW f \in Quiet, Rank[f.stage] >= 7 - 0 PROVE TakesOneMore(f)
    <3>1. f.stage \notin Timed
      <4>1. SUFFICES ASSUME f.stage \in Timed PROVE FALSE
        OBVIOUS
      <4>2. Rank[Following[f.stage]] = Rank[f.stage] + 1 /\ Rank[Following[f.stage]] \in 1 .. 7
        BY <4>1, StagesInOrder
      <4> QED BY <1>1, <2>1, <4>2
    <3> QED BY <1>2, <3>1
  <2> QED BY <2>1
<1>4. ASSUME NEW m \in 1 .. 7, m - 1 \in T PROVE m \in T
  <2>1. ASSUME NEW f \in Quiet, Rank[f.stage] >= 7 - m PROVE TakesOneMore(f)
    <3>1. CASE f.stage \in Timed
      <4>1. PICK l \in Envelopes : /\ l = Left(f) /\ l.shouldRelease = f.shouldRelease
                                   /\ l.stage = Following[f.stage]
        BY <3>1, LeftFields
      <4>2. Rank[l.stage] = Rank[f.stage] + 1
        BY <3>1, <4>1, StagesInOrder
      <4>3. l \in Quiet /\ Rank[l.stage] >= 7 - (m - 1)
        BY <1>1, <2>1, <4>1, <4>2
      <4>4. TakesOneMore(l)
        BY <1>4, <4>3
      <4> QED BY <3>1, <4>1, <4>4, StageTakesOneMore
    <3> QED BY <1>2, <3>1
  <2> QED BY <2>1
<1> HIDE DEF T
<1>5. 0 .. 7 \subseteq T
  <2>1. 7 \in Nat
    OBVIOUS
  <2> QED BY <1>3, <1>4, <2>1, UpTo
<1>6. 7 \in T /\ Rank[e.stage] >= 7 - 7 /\ e \in Quiet
  BY <1>1, <1>5
<1> QED BY <1>6 DEF T

\* n samples, one by one, are what a block of them is.
LEMMA ValuesAreBlock ==
    ASSUME NEW e \in Envelopes, ~ e.shouldRelease, NEW n \in Nat
    PROVE  GetValues(e, n) = Switch(e, n)
<1> DEFINE body(f) == [k \in 0 .. n |-> IF k = 0 THEN e ELSE GetNextValue[f[k - 1]]]
           after == CHOOSE f : f = body(f)
<1>1. GetValues(e, n) = after[n]
  BY DEF GetValues
<1>2. Switch(e, 0) = e
  <2>1. CASE e.stage \in Timed
    <3>1. e.left[e.stage] \in Nat /\ 0 \in 0 .. e.left[e.stage]
      BY <2>1, EnvelopeFields
    <3>2. 0 \in Nat /\ 0 <= e.left[e.stage]
      BY <3>1
    <3>3. Switch(e, 0) = Took(e, 0)
      BY <2>1, <3>2, SwitchUnfolds
    <3> QED BY <2>1, <3>1, <3>3, TookFields
  <2>2. CASE e.stage \notin Timed
    <3>1. 0 \in Nat
      OBVIOUS
    <3> QED BY <2>2, <3>1, SwitchUnfolds
  <2> QED BY <2>1, <2>2
<1>3. ASSUME NEW k \in 1 .. n PROVE GetNextValue[Switch(e, k - 1)] = Switch(e, k)
  <2>1. PICK s \in Envelopes : s = Switch(e, k - 1) /\ ~ s.shouldRelease
    <3>1. k - 1 \in Nat
      OBVIOUS
    <3> QED BY <3>1, SwitchEffect
  <2>2. GetNextValue[s] = Switch(s, 1)
    BY <2>1, EachTakesOneMore DEF TakesOneMore
  <2>3. Switch(Switch(e, k - 1), 1) = Switch(e, (k - 1) + 1)
    <3>1. k - 1 \in Nat
      OBVIOUS
    <3> QED BY <3>1, EachTakesOneMore DEF TakesOneMore
  <2>4. (k - 1) + 1 = k
    OBVIOUS
  <2> QED BY <2>1, <2>2, <2>3, <2>4
<1>4. after = body(after)
  <2> DEFINE f == [k \in 0 .. n |-> Switch(e, k)]
  <2>1. \A k \in 1 .. n : f[k - 1] = Switch(e, k - 1) /\ f[k] = Switch(e, k)
    OBVIOUS
  <2>2. f = body(f)
    BY <1>2, <1>3, <2>1
  <2> HIDE DEF body, f
  <2> QED BY <2>2
<1> HIDE DEF after
<1>5. after[0] = e /\ \A k \in 1 .. n : after[k] = GetNextValue[after[k - 1]]
  BY <1>4
<1> DEFINE T == {k \in 0 .. n : after[k] = Switch(e, k)}
<1>6. 0 \in T
  BY <1>2, <1>5
<1>7. \A k \in 1 .. n : k - 1 \in T => k \in T
  BY <1>3, <1>5
<1> HIDE DEF T
<1>8. 0 .. n \subseteq T
  BY <1>6, <1>7, UpTo
<1>9. n \in T
  BY <1>8
<1> QED BY <1>1, <1>9 DEF T

-----------------------------------------------------------------------------
\* Until a release, both envelopes are the same.
TogetherInv == ~ egEnvelope.shouldRelease => byValues = egEnvelope

\* BlocksAreValues, for every shape of envelope and sequence of blocks.
THEOREM BlocksAreValuesHolds == Spec => []BlocksAreValues
<1>1. Init => TogetherInv
  BY DEF Init, TogetherInv
<1>2. EnvelopeInv /\ PlaceInv /\ TogetherInv /\ [Next]_vars => TogetherInv'
  <2> SUFFICES ASSUME EnvelopeInv, PlaceInv, TogetherInv, [Next]_vars,
                      ~ egEnvelope'.shouldRelease
               PROVE  byValues' = egEnvelope'
    BY DEF TogetherInv
  <2>1. CASE Start
    BY <2>1 DEF Start, StartVoice
  <2>2. ASSUME NEW delay \in Delays, Release(delay) PROVE FALSE
    BY <2>2 DEF Release, StartRelease
  <2>3. CASE UNCHANGED <<egEnvelope, byValues>>
    BY <2>3 DEF TogetherInv
  <2>4. CASE Render
    <3>1. PICK frames \in BlockSizes : RenderBlock(frames)
      BY <2>4 DEF Render
    <3>2. frames \in Nat
      BY SoundsAssumption DEF SoundsAssumption
    <3>3. PICK indices : indices = ReadInBlock(frames)
      OBVIOUS
    <3>4. PICK e : e = AskedToEnd(egEnvelope, indices)
      OBVIOUS
    <3>5. /\ egEnvelope' = GetBlock(e, frames)
          /\ byValues' = GetValues(AskedToEnd(byValues, indices), frames)
      BY <3>1, <3>3, <3>4 DEF RenderBlock
    <3>6. e \in Envelopes
      BY <3>1, <3>3, <3>4, AskedToEndIsEnvelope DEF EnvelopeInv
    <3>7. ~ e.shouldRelease
      BY <3>2, <3>5, <3>6, GetBlockEffect
    <3>8. ~ (indices # <<>> /\ EndsIn(indices, Len(indices)))
      BY <3>4, <3>7 DEF AskedToEnd, StartRelease
    <3>9. e = egEnvelope /\ AskedToEnd(byValues, indices) = byValues
      BY <3>4, <3>8 DEF AskedToEnd
    <3>10. byValues = e
      BY <3>7, <3>9 DEF TogetherInv
    <3>11. GetBlock(e, frames) = Switch(e, frames)
      BY <3>7 DEF GetBlock
    <3> QED BY <3>2, <3>5, <3>6, <3>7, <3>9, <3>10, <3>11, ValuesAreBlock
  <2> QED
    BY <2>1, <2>2, <2>3, <2>4 DEF Next, Steal, FileArrives, vars
<1>3. TogetherInv => BlocksAreValues
  BY DEF TogetherInv, BlocksAreValues
<1> QED BY <1>1, <1>2, <1>3, PlaceInvariant, EnvelopeInvariant, PTL DEF Spec

=============================================================================
