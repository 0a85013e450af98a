--------------------------------- MODULE Mixing ---------------------------------
(*****************************************************************************)
(* What a voice does to its sound: the levels that controllers move, which   *)
(* are ramps between their events, and the gains, the width and the pan of a *)
(* block.  A block is a program of kernel calls on the voice's temporary     *)
(* buffers and the two channels, which Kernels executes.  The frames of the  *)
(* sound and the gains of the ADSR come from outside.                        *)
(*****************************************************************************)
EXTENDS Kernels, SequencesExt

CONSTANTS
    Sounds,                 \* regions: generator, stereo, the controller of each level,
                            \* and what makes the gain of a note
    Strikes,                \* what starts a voice: type, number, value
    Durations,              \* how long a note that is let go has lasted
    Top,                    \* bound: the largest velocity and value of a controller
    CCs, CCValues,          \* controllers and their values
    Delays,                 \* times of events in a block
    StartDelays,            \* times at which a voice begins
    Frames,                 \* numbers of frames in a block
    SamplesPerBlock,        \* samplesPerBlock, the most of them
    MaxCapacity,            \* maxCapacity, of the events of a level
    MaxEvents,              \* bound: events for a block
    MaxBlocks               \* bound: blocks

\* A block is no longer than the buffers; and 0 is no controller, so that `on' says that
\* none moves a level.
ASSUME VoiceAssumption ==
    /\ SamplesPerBlock \in Nat /\ Frames \subseteq 0 .. SamplesPerBlock
    /\ Delays \subseteq Nat /\ StartDelays \subseteq Nat
    /\ MaxCapacity \in Nat
    /\ 0 \notin CCs

Levels == {"amplitude", "volume", "pan", "position", "width"}

VARIABLES
    sound,                  \* the region of the voice, or nothing
    cc,                     \* midiState.cc
    base,                   \* baseGain and baseVolumedB
    levels,                 \* currentValue of each envelope
    events,                 \* its events
    sinePhase,              \* phase of the generator
    initialDelay,
    program,                \* the calls that are left of a block
    buffers,                \* what is in the buffers, while a program runs
    lastDelay, received, blocks,    \* the time of the last event, the number of events for
                                    \* this block, the number of blocks
    lost,                   \* history: levels whose last event found no room, or may
                            \* be sorted before another of its time
    block                   \* history: what the block began with

voiceVars == <<sound, cc, base, levels, events, sinePhase, initialDelay>>
counters == <<lastDelay, received, blocks, lost>>
vars == <<kernelVars, voiceVars, program, buffers, counters, block>>

Nothing == [generator |-> FALSE, stereo |-> FALSE, on |-> [l \in Levels |-> 0]]
NoCall == [kernel |-> "none", lanes |-> FALSE]
NoBlock == [frames |-> 0]

-----------------------------------------------------------------------------
(* LinearEnvelope.  Values are multiples of 12, so that steps are whole.     *)

\* c_sort is the library's sort, which puts events behind their equals while it only
\* inserts; in longer lists events of one time come in an order of its own.
StableUpTo == 16
Sorted(s) ==
    LET Before(a, b) == \/ s[a].time < s[b].time
                        \/ s[a].time = s[b].time /\ (Len(s) <= StableUpTo => a < b)
        order == CHOOSE p \in [DOMAIN s -> DOMAIN s] :
                    IsInjective(p) /\ \A i, j \in DOMAIN s : i < j => Before(p[i], p[j])
    IN  [i \in DOMAIN s |-> s[order[i]]]

\* registerEvent, for each event that comes: those that find no room are lost.
RegisterEvents(s, new) == SubSeq(s \o new, 1, Min({Len(s) + Len(new), MaxCapacity}))

\* clear
Cleared == [l \in Levels |-> <<>>]

-----------------------------------------------------------------------------
(* Calls on buffers.  A buffer's data are aligned, a span begins anywhere.   *)

SIMDConfig ==
    {"writeInterleaved", "readInterleaved", "fill", "loopingSFZIndex", "saturatingSFZIndex",
     "multiplicativeRamp", "pan", "cumsum", "sfzInterpolationCast"}

Span(b, n) == [buffer |-> b, from |-> 0, length |-> n]
Subspan(s, from, n) == [buffer |-> s.buffer, from |-> s.from + from, length |-> n]

Do(k, x, first, spans) == <<[kernel |-> k, value |-> x, start |-> first, spans |-> spans]>>

Fill(x, s) == Do("fill", x, 0, [out |-> s])
LinearRamp(s, first, step) == Do("linearRamp", step, first, [out |-> s])
Copy(s, t) == Do("copy", 0, 0, [in |-> s, out |-> t])
Add(s, t) == Do("add", 0, 0, [in |-> s, out |-> t])
Subtract(s, t) == Do("subtract", 0, 0, [in |-> s, out |-> t])
ApplyGain(x, s) == Do("applyGain", x, 0, [in |-> s, out |-> s])
ApplyGainSpan(g, s) == Do("applyGainSpan", 0, 0, [gain |-> g, in |-> s, out |-> s])
MultiplyAdd(g, s, t) == Do("multiplyAdd", 0, 0, [gain |-> g, in |-> s, out |-> t])
Cos(s, t) == Do("cos", 0, 0, [in |-> s, out |-> t])
Sin(s, t) == Do("sin", 0, 0, [in |-> s, out |-> t])

\* Frames from a file, and the gains of the ADSR.
Outside(k, s) == Do(k, 0, 0, [out |-> s])

\* LinearEnvelope::getBlock: from event to event, up to the end of the block, and on.
GetBlock(l, s) ==
    LET sorted == Sorted(events[l])
        ToEvent(r, event) ==
            LET length == Min({event.time, s.length}) - r.index
            IN  [index |-> r.index + length, value |-> event.value,
                 calls |-> IF length = 0 THEN r.calls
                           ELSE r.calls \o LinearRamp(Subspan(s, r.index, length), r.value,
                                                      (event.value - r.value) \div length)]
        after[k \in 0 .. Len(sorted)] ==
            IF k = 0 THEN [index |-> 0, value |-> levels[l], calls |-> <<>>]
            ELSE ToEvent(after[k - 1], sorted[k])
        r == after[Len(sorted)]
    IN  IF r.index < s.length
        THEN r.calls \o Fill(r.value, Subspan(s, r.index, s.length - r.index)) ELSE r.calls

\* currentValue after that.
Standing(l) == IF events[l] = <<>> THEN levels[l] ELSE Last(Sorted(events[l])).value

SqrtTwoInv == 2

\* Mutant: the sine is taken first, and the cosine of it.
GainsOfSine(l, span1, span2) ==
    GetBlock(l, span1) \o Fill(1, span2) \o Add(span1, span2) \o ApplyGain(PiFour, span2)
    \o Sin(span2, span2) \o Cos(span2, span1)

\* Two gains for a level from -1 to 1: one plus it, in eighths of a turn, and the
\* sine and cosine of that.
Gains(l, span1, span2) ==
    GetBlock(l, span1) \o Fill(1, span2) \o Add(span1, span2) \o ApplyGain(PiFour, span2)
    \o Cos(span2, span1) \o Sin(span2, span2)

ProcessMono(left, right, span1, span2) ==
    GetBlock("amplitude", span1) \o ApplyGainSpan(span1, left)
    \o Outside("egEnvelope", span1) \o ApplyGainSpan(span1, left)
    \o GetBlock("volume", span1) \o ApplyGainSpan(span1, left)
    \o Copy(left, right)
    \o Gains("pan", span1, span2)
    \o ApplyGainSpan(span1, left) \o ApplyGainSpan(span2, right)

ProcessStereo(left, right, span1, span2, span3) ==
    LET Both(x) == ApplyGainSpan(x, left) \o ApplyGainSpan(x, right)
        Normalise == ApplyGain(SqrtTwoInv, left) \o ApplyGain(SqrtTwoInv, right)
    IN  GetBlock("amplitude", span1) \o Both(span1)
        \o Outside("egEnvelope", span1) \o Both(span1)
        \o GetBlock("volume", span1) \o Both(span1)
        \o Copy(right, span1) \o Add(left, right) \o Subtract(span1, left) \o Normalise
        \o Gains("width", span1, span2)
        \o ApplyGainSpan(span1, left) \o ApplyGainSpan(span2, right)
        \o Gains("position", span1, span2)
        \o Copy(left, span3) \o Copy(right, left)
        \o MultiplyAdd(span1, span3, left) \o MultiplyAdd(span2, span3, right) \o Normalise

\* The ramp of the phase is as long as the temporary buffer, whatever the block.
SineStep == 3
FillWithGenerator(left, right) ==
    IF left.length = 0 THEN <<>>
    ELSE LinearRamp(Span("temp1", SamplesPerBlock), sinePhase, SineStep)
         \o Sin(Span("temp1", left.length), left) \o Copy(left, right)

FillWithData(left, right) ==
    IF sound.stereo THEN Outside("left", left) \o Outside("right", right)
    ELSE Outside("left", left)

Delayed(n) == Min({initialDelay, n})

IsStereo == sound.generator \/ sound.stereo

\* Voice::renderBlock.
Program(n) ==
    LET left == Span("left", n)
        right == Span("right", n)
        t == [k \in 1 .. 3 |-> Span(<<"temp1", "temp2", "temp3">>[k], n)]
        rest == n - Delayed(n)
        l == Subspan(left, Delayed(n), rest)
        r == Subspan(right, Delayed(n), rest)
    IN  Fill(0, left) \o Fill(0, right)
        \o (IF sound.generator THEN FillWithGenerator(l, r) ELSE FillWithData(l, r))
        \o (IF IsStereo THEN ProcessStereo(left, right, t[1], t[2], t[3])
            ELSE ProcessMono(left, right, t[1], t[2]))

LevelsRead ==
    {"amplitude", "volume"} \cup
    (IF IsStereo THEN {"width", "position"} ELSE {"pan"})

-----------------------------------------------------------------------------
(* The gain of a note (Region).  Gains are in parts of Unity; decibels become *)
(* a gain that grows with them.                                              *)

Unity == 48
Db2mag(x) == Unity * (x + 1)
Root(x) == CHOOSE y \in 0 .. Unity : y * y = x * Unity
Product(gains) == FoldLeft(LAMBDA g, h : (g * h) \div Unity, Unity, gains)

Curved(curve, x) == IF curve = "power" THEN Root(x) ELSE x
Place(range, x) == (Unity * (x - range[1])) \div Max({range[2] - range[1], 1})

CrossfadeIn(range, x, curve) ==
    IF x < range[1] THEN 0
    ELSE IF x < range[2] THEN Curved(curve, Place(range, x)) ELSE Unity

CrossfadeOut(range, x, curve) ==
    IF x > range[2] THEN 0
    ELSE IF x > range[1] THEN Curved(curve, Unity - Place(range, x)) ELSE Unity

\* The product of the crossfades of every controller.
CrossfadeGain(region, state) ==
    LET f == region.fades
    IN  Product([k \in DOMAIN f.ccIn |->
                    CrossfadeIn(f.ccIn[k].range, state[f.ccIn[k].cc], f.ccCurve)]
                \o [k \in DOMAIN f.ccOut |->
                    CrossfadeOut(f.ccOut[k].range, state[f.ccOut[k].cc], f.ccCurve)])

\* Of the points of a curve, the share of the segment that a velocity has come, of
\* its height alone: what is below the segment is left out.
CustomCurve(points, velocity) ==
    LET after == Min({k \in DOMAIN points : points[k].velocity >= velocity})
        before == Max({after - 1, 1})
        share == (Unity * (velocity - points[before].velocity))
                     \div (points[after].velocity - points[before].velocity)
    IN  Product(<<share, points[after].gain - points[before].gain>>)

\* 40 log10(x) dB, of which veltrack takes some per cent: a power of x up to its square.
StandardCurve(veltrack, velocity) ==
    LET x == (Unity * velocity) \div Top
        track == Max({veltrack, -veltrack})
    IN  Product([k \in 1 .. track \div 50 |-> IF veltrack >= 0 THEN x ELSE Unity - x])

VelocityCurve(region, velocity) ==
    IF region.velocityPoints # <<>> THEN CustomCurve(region.velocityPoints, velocity)
    ELSE StandardCurve(region.ampVeltrack, velocity)

NoteGain(region, number, velocity) ==
    LET f == region.fades
    IN  Product(<<Db2mag(region.ampKeytrack * (number - region.ampKeycenter)),
                  CrossfadeIn(f.keyIn, number, f.keyCurve),
                  CrossfadeOut(f.keyOut, number, f.keyCurve),
                  VelocityCurve(region, velocity),
                  CrossfadeIn(f.velIn, velocity, f.velCurve),
                  CrossfadeOut(f.velOut, velocity, f.velCurve)>>)

BaseGain(region, state, strike) ==
    Product(<<region.amplitude, CrossfadeGain(region, state)>>
            \o IF strike.type = "CC" THEN <<>>
               ELSE <<NoteGain(region, strike.number, strike.value)>>)

BaseVolume(region, duration) ==
    region.volume - (IF region.trigger \in {"release", "release_key"}
                     THEN region.rtDecay * duration ELSE 0)

\* The level that a region has with a controller: as a voice starts, and as it moves.
LevelFor(l, x, b) ==
    CASE l = "volume" -> Db2mag(b.volume + x)
      [] l = "amplitude" -> b.gain * x
      [] OTHER -> 12 * x
BaseLevel(l, b) ==
    CASE l = "volume" -> Db2mag(b.volume)
      [] l = "amplitude" -> b.gain * Top
      [] OTHER -> 0
StartLevel(l, region, b) ==
    IF region.on[l] \in CCs THEN LevelFor(l, cc[region.on[l]], b) ELSE BaseLevel(l, b)

\* The gains and the volume of a note are numbers, whatever moves a region.
ASSUME GainsAssumption ==
    /\ Top \in Int /\ CCValues \subseteq Int
    /\ \A region \in Sounds, state \in [CCs -> CCValues \cup {0}], strike \in Strikes :
          (strike.type = "CC" => region.ccTriggered) => BaseGain(region, state, strike) \in Int
    /\ \A region \in Sounds, duration \in Durations : BaseVolume(region, duration) \in Int

Idle ==
    /\ phase = "none"
    /\ call = NoCall
    /\ at = <<>> /\ memory = <<>> /\ carry = 0 /\ byLanes = {}

VoiceInit ==
    /\ sound = Nothing
    /\ cc = [n \in CCs |-> 0]
    /\ base = [gain |-> 0, volume |-> 0]
    /\ levels = [l \in Levels |-> 0]
    /\ events = Cleared
    /\ sinePhase = 0
    /\ initialDelay = 0
    /\ program = <<>>
    /\ buffers = <<>>
    /\ lastDelay = 0 /\ received = 0 /\ blocks = 0
    /\ lost = {}
    /\ block = NoBlock

\* Either a kernel is called for itself, or a voice plays.
Init == VoiceInit /\ (TestCall \/ Idle)

BetweenBlocks == phase = "none" /\ program = <<>> /\ block = NoBlock

\* The handlers are called in the order of their times.
Accepts(delay) ==
    /\ blocks < MaxBlocks /\ received < MaxEvents
    /\ delay >= lastDelay
    /\ lastDelay' = delay
    /\ received' = received + 1

\* Mutant: the envelopes are not cleared.
StartVoiceKeeping(region, strike, duration, delay) ==
    /\ BetweenBlocks
    /\ Accepts(delay)
    /\ sound' = region
    /\ base' = [gain |-> BaseGain(region, cc, strike), volume |-> BaseVolume(region, duration)]
    /\ levels' = [l \in Levels |-> StartLevel(l, region, base')]
    /\ initialDelay' = delay
    /\ lost' = {}
    /\ UNCHANGED <<kernelVars, cc, events, sinePhase, program, buffers, blocks, block>>

StartVoice(region, strike, duration, delay) ==
    /\ BetweenBlocks
    /\ Accepts(delay)
    /\ sound' = region
    /\ base' = [gain |-> BaseGain(region, cc, strike), volume |-> BaseVolume(region, duration)]
    /\ levels' = [l \in Levels |-> StartLevel(l, region, base')]
    /\ events' = Cleared
    /\ initialDelay' = delay
    /\ lost' = {}
    /\ UNCHANGED <<kernelVars, cc, sinePhase, program, buffers, blocks, block>>

\* Voice::registerCC: a new volume goes to the envelope of the amplitude.
EventsFor(e, n, x, delay) ==
    LET EventOf(l) == IF sound.on[l] = n
                      THEN <<[time |-> delay, value |-> LevelFor(l, x, base)]>> ELSE <<>>
    IN  CASE e = "amplitude" -> EventOf("amplitude") \o EventOf("volume")
          [] e = "volume" -> <<>>
          [] OTHER -> EventOf(e)

\* Synth::cc, for one voice.
CC(n, x, delay) ==
    /\ BetweenBlocks
    /\ Accepts(delay)
    /\ events' = [e \in Levels |-> RegisterEvents(events[e], EventsFor(e, n, x, delay))]
    /\ cc' = [cc EXCEPT ![n] = x]
    /\ lost' = {e \in Levels : IF EventsFor(e, n, x, delay) = <<>> THEN e \in lost
                               ELSE \/ Len(events'[e]) = Len(events[e])
                                    \/ Len(events'[e]) > StableUpTo}
    /\ UNCHANGED <<kernelVars, sound, base, levels, sinePhase, initialDelay, program,
                   buffers, blocks, block>>

Unwritten == -7
Names == {"left", "right", "temp1", "temp2", "temp3"}

RenderBlock(n) ==
    /\ BetweenBlocks
    /\ blocks < MaxBlocks
    /\ sound # Nothing
    /\ program' = Program(n)
    /\ buffers' = [b \in Names |-> [i \in 0 .. SamplesPerBlock - 1 |-> Unwritten]]
    /\ levels' = [l \in Levels |-> IF l \in LevelsRead THEN Standing(l) ELSE levels[l]]
    /\ events' = [l \in Levels |-> IF l \in LevelsRead THEN <<>> ELSE events[l]]
    /\ sinePhase' = IF sound.generator /\ Delayed(n) < n
                    THEN (sinePhase + SineStep * SamplesPerBlock) % TwoPi ELSE sinePhase
    /\ initialDelay' = initialDelay - Delayed(n)
    /\ block' = [frames |-> n, delay |-> Delayed(n), phase |-> sinePhase,
                 levels |-> levels, events |-> events]
    /\ lastDelay' = 0 /\ received' = 0 /\ blocks' = blocks + 1
    /\ UNCHANGED <<kernelVars, sound, cc, base, lost>>

\* The frames of the file and the gains of the ADSR.
FromOutside(k, i) ==
    CASE k = "left" -> 1 + i [] k = "right" -> 3 - i [] k = "egEnvelope" -> 2 - (i % 2)

Bring ==
    LET c == Head(program)
        s == c.spans["out"]
    IN  /\ phase = "none" /\ program # <<>>
        /\ c.kernel \in {"left", "right", "egEnvelope"}
        /\ buffers' = [buffers EXCEPT ![s.buffer] =
              [i \in DOMAIN @ |-> IF i \in s.from .. s.from + s.length - 1
                                  THEN FromOutside(c.kernel, i - s.from) ELSE @[i]]]
        /\ program' = Tail(program)
        /\ UNCHANGED <<kernelVars, voiceVars, counters, block>>

\* The call that c is, with what is in the buffers.
CallOf(c) ==
    LET s == c.spans
    IN  [kernel |-> c.kernel, lanes |-> c.kernel \in SIMDConfig,
         inPlace |-> "in" \in DOMAIN s /\ s["in"] = s["out"],
         value |-> c.value, start |-> c.start,
         size |-> [o \in DOMAIN s |-> s[o].length],
         offset |-> [o \in DOMAIN s |-> s[o].from % TypeAlignment],
         given |-> [o \in DOMAIN s |-> [i \in 0 .. s[o].length - 1 |->
                       buffers[s[o].buffer][s[o].from + i]]]]

CallNext ==
    LET c == CallOf(Head(program))
    IN  /\ phase = "none" /\ program # <<>>
        /\ c.kernel \in Kernels
        /\ call' = c
        /\ at' = Pointers(c)
        /\ memory' = Contents(c)
        /\ carry' = c.start
        /\ byLanes' = {}
        /\ phase' = Entry(c)
        /\ UNCHANGED <<voiceVars, program, buffers, counters, block>>

TakeBack ==
    LET s == Head(program).spans["out"]
    IN  /\ phase = "returned" /\ program # <<>>
        /\ buffers' = [buffers EXCEPT ![s.buffer] =
              [i \in DOMAIN @ |-> IF i \in s.from .. s.from + s.length - 1
                                  THEN memory["out"][i - s.from] ELSE @[i]]]
        /\ program' = Tail(program)
        /\ phase' = "none" /\ call' = NoCall
        /\ at' = <<>> /\ memory' = <<>> /\ carry' = 0 /\ byLanes' = {}
        /\ UNCHANGED <<voiceVars, counters, block>>

\* The block is mixed into the output.
Heard ==
    /\ phase = "none" /\ program = <<>> /\ block # NoBlock
    /\ block' = NoBlock
    /\ buffers' = <<>>
    /\ UNCHANGED <<kernelVars, voiceVars, program, counters>>

RunKernel ==
    /\ KernelStep
    /\ UNCHANGED <<voiceVars, program, buffers, counters, block>>

Next ==
    \/ \E region \in Sounds, strike \in Strikes, duration \in Durations, delay \in StartDelays :
           /\ strike.type = "CC" => region.ccTriggered
           /\ StartVoice(region, strike, duration, delay)
    \/ \E n \in CCs, x \in CCValues, delay \in Delays : CC(n, x, delay)
    \/ \E n \in Frames : RenderBlock(n)
    \/ Bring \/ CallNext \/ RunKernel \/ TakeBack \/ Heard

Spec == Init /\ [][Next]_vars

-----------------------------------------------------------------------------
(* Properties.                                                               *)

\* A level at a frame: on the line from the last event before it to the first one not
\* before it, or as the last one left it.
LineAt(l, i) ==
    LET s == Sorted(block.events[l])
        Time(k) == Min({s[k].time, block.frames})
        past == {k \in DOMAIN s : Time(k) <= i}
        from == IF past = {} THEN 0 ELSE Time(Max(past))
        x == IF past = {} THEN block.levels[l] ELSE s[Max(past)].value
        next == Min(DOMAIN s \ past)
    IN  IF past = DOMAIN s THEN x
        ELSE x + (i + 1 - from) * ((s[next].value - x) \div (Time(next) - from))

Sound(channel, i) ==
    IF i < block.delay THEN 0
    ELSE IF sound.generator THEN Math("sin", block.phase + SineStep * (i - block.delay + 1))
    ELSE FromOutside(channel, i - block.delay)

Loud(channel, i) ==
    Sound(channel, i) * LineAt("amplitude", i) * FromOutside("egEnvelope", i) * LineAt("volume", i)

CosAt(l, i) == Math("cos", PiFour * (1 + LineAt(l, i)))
SinAt(l, i) == Math("sin", PiFour * (1 + LineAt(l, i)))

\* The difference and the sum of the channels, with the gains of the width.
SideAt(i) == SqrtTwoInv * (Loud("left", i) - Loud("right", i)) * CosAt("width", i)
MidAt(i) == SqrtTwoInv * (Loud("left", i) + Loud("right", i)) * SinAt("width", i)

\* A frame of a block is what its sound and its levels at that frame make of it,
\* wherever in the block the voice begins and the events are: no call reads what another
\* has left in a temporary buffer, and the ramps and what is behind the last of them
\* join.  The lines are between the events in the order that the sort gives them.
BlockIsMixed ==
    block # NoBlock /\ program = <<>> =>
        \A i \in 0 .. block.frames - 1 :
            IF IsStereo
            THEN /\ buffers["left"][i] =
                        SqrtTwoInv * (MidAt(i) + CosAt("position", i) * SideAt(i))
                 /\ buffers["right"][i] =
                        SqrtTwoInv * (MidAt(i) + SinAt("position", i) * SideAt(i))
            ELSE /\ buffers["left"][i] = Loud("left", i) * CosAt("pan", i)
                 /\ buffers["right"][i] = Loud("left", i) * SinAt("pan", i)

\* After the events of a block, a level is where the present value of its controller
\* would put it in a voice that starts: events are neither out of order nor left over
\* from an earlier note or block.  Two levels are left out: one whose last event found
\* its list full or longer than the sort keeps in order (lost), and, because a controller
\* of the volume moves the amplitude instead, both of a sound that has one.
LevelsFollowControllers ==
    BetweenBlocks /\ sound # Nothing =>
        \A l \in LevelsRead \ lost :
            \/ Standing(l) = StartLevel(l, sound, base)
            \/ sound.on["volume"] # 0 /\ l \in {"amplitude", "volume"}

=================================================================================
