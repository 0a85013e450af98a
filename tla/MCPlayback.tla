------------------------------- MODULE MCPlayback -------------------------------
\* Nine sounds for the model checker.
EXTENDS Playback

Shape(delay, attack, hold, decay, release) ==
    [stage \in Timed |-> CASE stage = "Delay" -> delay
                           [] stage = "Attack" -> attack
                           [] stage = "Hold" -> hold
                           [] stage = "Decay" -> decay
                           [] stage = "Release" -> release]

\* A plain sample: half of it is in the head, and its offset is random.
Plain == [generator |-> FALSE, loops |-> FALSE, sampleEnd |-> 9,
          loopStart |-> 0, loopEnd |-> 9, preloaded |-> 5,
          offset |-> 0, offsetRandom |-> 1, delay |-> 0, step |-> 1,
          lengths |-> Shape(1, 1, 0, 2, 3)]

\* The same a fifth up: it comes to the end between two frames.
Quick == [Plain EXCEPT !.step = 3]

\* A sample that ends within the head, played after a delay, a fifth up.
Short == [Plain EXCEPT !.sampleEnd = 5, !.preloaded = 6, !.step = 3,
          !.offsetRandom = 0, !.delay = 3, !.lengths = Shape(1, 0, 1, 0, 2)]

\* A loop that is entered in the head and goes beyond it.
Loop == [Plain EXCEPT !.loops = TRUE, !.loopStart = 1, !.loopEnd = 8,
         !.step = 3, !.lengths = Shape(0, 2, 1, 1, 6)]

\* A loop with an end opcode within the head, which does not hold the loop's end.
CutLoop == [Loop EXCEPT !.sampleEnd = 4, !.preloaded = 5,
            !.lengths = Shape(0, 0, 0, 0, 0)]

\* A loop with an end opcode at the end of the head: the file is read, up to there.
EdgeLoop == [CutLoop EXCEPT !.sampleEnd = 5]

\* A loop with an end opcode, all of it in the head: it turns back at the opcode.
HeadLoop == [CutLoop EXCEPT !.loopEnd = 5]

\* A loop mode, and no loop.
Held == [Plain EXCEPT !.loops = TRUE, !.loopEnd = 100, !.sampleEnd = 7]

Sine == [Plain EXCEPT !.generator = TRUE, !.delay = 1]

MCSounds == {Plain, Quick, Short, Loop, CutLoop, EdgeLoop, HeadLoop, Held, Sine}
=============================================================================
