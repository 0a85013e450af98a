--------------------------------- MODULE Kernels ---------------------------------
(*****************************************************************************)
(* The kernels that the voices run on spans of floats, each a scalar loop    *)
(* and a loop over the four lanes of an SSE register.  The latter goes       *)
(* through the elements one by one until all its pointers are aligned, which *)
(* may be never, then in fours, then through the rest one by one.            *)
(*                                                                           *)
(* A step is an element, or four.  Floats are integers, positions in a       *)
(* sample are in quarters of a frame, and the result of a mathematical       *)
(* function is a term.                                                       *)
(*****************************************************************************)
EXTENDS Integers, Sequences, FiniteSets, FiniteSetsExt

CONSTANTS
    Elements,               \* numbers of elements of the shortest span
    Spares                  \* numbers of elements an output is longer by

ASSUME SpansAssumption == Elements \subseteq Nat /\ Spares \subseteq Nat

VARIABLES
    call,                   \* the kernel and its arguments
    at,                     \* operand -> the index its pointer is at
    phase,                  \* the loop that runs
    memory,                 \* operand -> its elements
    carry,                  \* what goes from an element to the next
    byLanes                 \* history: the numbers of the elements done in fours

kernelVars == <<call, at, phase, memory, carry, byLanes>>

\* Of a call: whether it goes to the SSE loop, whether the input is the output, the
\* number and the first value that are passed, and of each operand the number of
\* elements, where it begins in 16 bytes, in elements, and what is in it.
kernel == call.kernel
lanes == call.lanes
inPlace == call.inPlace
value == call.value
start == call.start
size == call.size
offset == call.offset
given == call.given

TypeAlignment == 4
Lanes == 0 .. TypeAlignment - 1

MathFunctions == {"exp", "cos", "log", "sin"}
Scans == {"cumsum", "diff"}
Means == {"mean", "meanSquared"}
Ramps == {"linearRamp", "multiplicativeRamp"}
Indexings == {"loopingSFZIndex", "saturatingSFZIndex"}
Kernels ==
    MathFunctions \cup Scans \cup Means \cup Ramps \cup Indexings \cup
    {"readInterleaved", "writeInterleaved", "fill", "applyGain", "applyGainSpan",
     "multiplyAdd", "add", "addValue", "subtract", "subtractValue", "copy", "pan",
     "sfzInterpolationCast"}

Inputs(k) ==
    CASE k \in Ramps \cup {"fill", "addValue", "subtractValue"} -> {}
      [] k \in {"applyGainSpan", "multiplyAdd"} -> {"gain", "in"}
      [] k = "writeInterleaved" -> {"left", "right"}
      [] OTHER -> {"in"}

Outputs(k) ==
    CASE k \in Means -> {}
      [] k \in {"readInterleaved", "pan"} -> {"left", "right"}
      [] k \in Indexings \cup {"sfzInterpolationCast"} -> {"index", "left", "right"}
      [] OTHER -> {"out"}

Operands(k) == Inputs(k) \cup Outputs(k)

\* The kernels that a voice, or a gain on one span, calls with one span as both.
CalledInPlace == {"applyGain", "applyGainSpan", "sin", "cumsum", "sfzInterpolationCast"}
InPlaceOutput(k) == IF k = "sfzInterpolationCast" THEN "left" ELSE "out"

\* An interleaved span has two elements for each of a channel.
Stride(k, o) ==
    IF <<k, o>> \in {<<"readInterleaved", "in">>, <<"writeInterleaved", "out">>} THEN 2 ELSE 1

LoopStart == 4
LoopEnd == 24

\* A turn has eight parts, sin and cos have a few values, and exp and log are told
\* from each other and from them.
TwoPi == 8
PiFour == 1
Sine == <<0, 5, 7, 5, 0, -5, -7, -5>>
Math(f, x) ==
    CASE f = "sin" -> Sine[1 + (x % TwoPi)]
      [] f = "cos" -> Sine[1 + ((x + 2 * PiFour) % TwoPi)]
      [] f = "exp" -> x + 100
      [] f = "log" -> -x - 100

-----------------------------------------------------------------------------
(* SIMDHelpers.h.  The element j after the one that a pointer is at, and what *)
(* lies next to the span.                                                    *)

Beyond == -1000
Cell(o) == IF inPlace /\ o = "in" THEN InPlaceOutput(kernel) ELSE o

V(o, j) ==
    LET i == at[o] + j
    IN  IF i \in DOMAIN memory[Cell(o)] THEN memory[Cell(o)][i] ELSE Beyond

\* What a scalar loop writes to each output for that element.
Interleaving(j) ==
    IF kernel = "readInterleaved"
    THEN [left |-> <<V("in", 2 * j)>>, right |-> <<V("in", 2 * j + 1)>>]
    ELSE [out |-> <<V("left", j), V("right", j)>>]

MathFunction(f, j) == [out |-> <<Math(f, V("in", j))>>]

Gain(j) ==
    CASE kernel = "applyGain" -> [out |-> <<value * V("in", j)>>]
      [] kernel = "applyGainSpan" -> [out |-> <<V("gain", j) * V("in", j)>>]
      [] kernel = "multiplyAdd" -> [out |-> <<V("out", j) + V("gain", j) * V("in", j)>>]

Arithmetic(j) ==
    CASE kernel = "add" -> [out |-> <<V("out", j) + V("in", j)>>]
      [] kernel = "addValue" -> [out |-> <<V("out", j) + value>>]
      [] kernel = "subtract" -> [out |-> <<V("out", j) - V("in", j)>>]
      [] kernel = "subtractValue" -> [out |-> <<V("out", j) - value>>]
      [] kernel = "copy" -> [out |-> <<V("in", j)>>]

Panned(pan, j) ==
    LET circlePan == PiFour * (1 + pan)
    IN  [left |-> <<V("left", j) * Math("cos", circlePan)>>,
         right |-> <<V("right", j) * Math("sin", circlePan)>>]

\* A position: an index and the weights of its frame and the next.
Weighed(index, right) ==
    [index |-> <<index>>, left |-> <<4 - right>>, right |-> <<right>>]
Truncated(x) == Weighed(x \div 4, x % 4)

\* The state of a kernel that hands one over: a position, a value, a sum.  A position
\* turns back once at most, also after the four jumps of a register.  That is enough
\* as long as four jumps are no longer than the loop, as the jumps of Arbitrary are.
Saturated(x) == IF x >= LoopEnd THEN LoopEnd ELSE x
Looped(x) == IF x >= LoopEnd THEN x - (LoopEnd - LoopStart) ELSE x
Indexed ==
    IF kernel = "loopingSFZIndex" THEN Looped(carry + V("in", 0))
    ELSE Saturated(carry + V("in", 0))
Ramped == IF kernel = "linearRamp" THEN carry + value ELSE carry * value
Square(x) == IF kernel = "meanSquared" THEN x * x ELSE x

Indexing ==
    IF kernel = "saturatingSFZIndex" /\ Indexed = LoopEnd
    THEN Weighed(LoopEnd \div 4 - 1, 4) ELSE Truncated(Indexed)

\* The first element of both is a copy.
Scan ==
    CASE at["in"] = 0 -> [out |-> <<V("in", 0)>>]
      [] kernel = "cumsum" /\ at["in"] > 0 -> [out |-> <<V("out", -1) + V("in", 0)>>]
      [] kernel = "diff" /\ at["in"] > 0 -> [out |-> <<V("in", 0) - V("in", -1)>>]

Snippet ==
    CASE kernel \in {"readInterleaved", "writeInterleaved"} -> Interleaving(0)
      [] kernel = "fill" -> [out |-> <<value>>]
      [] kernel \in MathFunctions -> MathFunction(kernel, 0)
      [] kernel \in {"applyGain", "applyGainSpan", "multiplyAdd"} -> Gain(0)
      [] kernel \in {"add", "addValue", "subtract", "subtractValue", "copy"} -> Arithmetic(0)
      [] kernel = "pan" -> Panned(V("in", 0), 0)
      [] kernel = "sfzInterpolationCast" -> Truncated(V("in", 0))
      [] kernel \in Indexings -> Indexing
      [] kernel \in Ramps -> [out |-> <<Ramped>>]
      [] kernel \in Scans -> Scan
      [] kernel \in Means -> <<>>

SnippetCarry ==
    CASE kernel \in Indexings -> Indexed
      [] kernel \in Ramps -> Ramped
      [] kernel \in Means -> carry + Square(V("in", 0))
      [] OTHER -> carry

-----------------------------------------------------------------------------
(* SIMDSSE.cpp.  For each kernel: the pointer that its loops compare, how far *)
(* fours may go, where the rest ends, what is written for an element of the  *)
(* rest and for the lane j of four, and what is handed over after four.      *)

Room(o) == size[o] \div Stride(kernel, o)
Common == Min({Room(o) : o \in Operands(kernel)})

Loops(bound, extent, end, single, four, after) ==
    [bound |-> bound, extent |-> extent, end |-> end, single |-> single,
     four |-> [j \in Lanes |-> four[j]], after |-> after]

\* readInterleaved and writeInterleaved load or store two registers.
InterleavingSSE ==
    LET o == IF kernel = "readInterleaved" THEN "in" ELSE "out"
        length == Min({(2 * size[p]) \div Stride(kernel, p) : p \in Operands(kernel)})
    IN  Loops(o, length - TypeAlignment, size[o] - 1, Snippet,
              [j \in Lanes |-> Interleaving(j)], carry)

FillSSE ==
    Loops("out", size["out"], size["out"], Snippet, [j \in Lanes |-> [out |-> <<value>>]], carry)

\* The head and the rest of all four functions call std::exp.
MathSSE ==
    Loops("in", Common, Common, MathFunction("exp", 0),
          [j \in Lanes |-> MathFunction(kernel, j)], carry)

\* applyGain and multiplyAdd go on to the end of the output.
GainSSE ==
    Loops("out", Common, size["out"], Snippet, [j \in Lanes |-> Gain(j)], carry)

\* The sums of the elements up to each lane, by two shifts of the register.
Shifted(f, n) == [j \in Lanes |-> IF j < n THEN 0 ELSE f[j - n]]
Plus(f, g) == [j \in Lanes |-> f[j] + g[j]]
Loaded(o) == [j \in Lanes |-> V(o, j)]

\* Mutant: the second shift is missing.
PrefixSumsOfTwo(f) == Plus(f, Shifted(f, 1))

PrefixSums(f) == LET pairs == Plus(f, Shifted(f, 1)) IN Plus(pairs, Shifted(pairs, 2))

\* Less a half and to the nearest: a whole odd position from 3 on is given as the
\* frame before, with the whole weight on the next.
Converted(x) ==
    IF x % 8 = 4 /\ x > 4 THEN Weighed(x \div 4 - 1, 4) ELSE Truncated(x)

\* The end less 0.000001 is a position in the frame before, as long as a float can
\* tell the two.
IndexingSSE ==
    LET sums == PrefixSums(Loaded("in"))
        x == [j \in Lanes |-> IF kernel = "loopingSFZIndex" THEN Looped(carry + sums[j])
                              ELSE Saturated(carry + sums[j])]
    IN  Loops("in", Common, Common, Snippet,
              [j \in Lanes |-> IF kernel = "saturatingSFZIndex" /\ x[j] = LoopEnd
                               THEN Weighed(LoopEnd \div 4 - 1, 4) ELSE Converted(x[j])],
              x[3])

RampSSE ==
    LET powers == <<value, value * value, value * value * value, value * value * value * value>>
        x == [j \in Lanes |-> IF kernel = "linearRamp" THEN carry + value * (j + 1)
                              ELSE carry * powers[j + 1]]
    IN  Loops("out", size["out"], size["out"], Snippet, [j \in Lanes |-> [out |-> <<x[j]>>]],
              x[3])

ArithmeticSSE ==
    Loops("out", Common, Common, Snippet, [j \in Lanes |-> Arithmetic(j)], carry)

\* The envelope is loaded and not used, and the left channel goes to both.
PanSSE ==
    Loops("in", Common, Common, Snippet,
          [j \in Lanes |-> [o \in {"left", "right"} |-> <<V("left", j) * Math("cos", PiFour)>>]],
          carry)

MeanSSE ==
    Loops("in", size["in"], size["in"], Snippet, [j \in Lanes |-> <<>>],
          carry + Square(V("in", 0)) + Square(V("in", 1)) + Square(V("in", 2))
                + Square(V("in", 3)))

CumsumSSE ==
    LET sums == PrefixSums(Loaded("in"))
    IN  Loops("in", Common, Common, Snippet,
              [j \in Lanes |-> [out |-> <<V("out", -1) + sums[j]>>]], carry)

CastSSE ==
    Loops("in", Common, Common, Snippet, [j \in Lanes |-> Converted(V("in", j))], carry)

\* The differences from the element before the four, less those of the lanes before.
DiffSSE ==
    LET from == [j \in Lanes |-> V("in", j) - V("in", -1)]
    IN  Loops("in", Common, Common, Snippet,
              [j \in Lanes |-> [out |-> <<from[j] - Shifted(from, 1)[j]>>]], carry)

SSE ==
    CASE kernel \in {"readInterleaved", "writeInterleaved"} -> InterleavingSSE
      [] kernel = "fill" -> FillSSE
      [] kernel \in MathFunctions -> MathSSE
      [] kernel \in {"applyGain", "applyGainSpan", "multiplyAdd"} -> GainSSE
      [] kernel \in {"add", "addValue", "subtract", "subtractValue", "copy"} -> ArithmeticSSE
      [] kernel = "pan" -> PanSSE
      [] kernel = "sfzInterpolationCast" -> CastSSE
      [] kernel \in Indexings -> IndexingSSE
      [] kernel \in Ramps -> RampSSE
      [] kernel = "cumsum" -> CumsumSSE
      [] kernel = "diff" -> DiffSSE
      [] kernel \in Means -> MeanSSE

Unaligned(o, i) == (offset[o] + i) % TypeAlignment # 0
PrevAligned(o, i) == i - ((offset[o] + i) % TypeAlignment)

LastAligned == PrevAligned(SSE.bound, SSE.extent)

-----------------------------------------------------------------------------
(* A call.                                                                   *)

\* What a call begins with.
Pointers(c) == [o \in DOMAIN c.size |-> 0]
Contents(c) ==
    [o \in DOMAIN c.size |->
        c.given[IF c.inPlace /\ o = InPlaceOutput(c.kernel) THEN "in" ELSE o]]
Entry(c) ==
    IF ~c.lanes THEN "loop"
    ELSE IF c.kernel \in Scans /\ c.size["in"] > 0 THEN "first" ELSE "head"

Called(c) ==
    /\ call = c
    /\ at = Pointers(c)
    /\ memory = Contents(c)
    /\ carry = c.start
    /\ byLanes = {}
    /\ phase = Entry(c)

\* The results of n elements are written, and the pointers go on.
Advance(n, written) ==
    /\ memory' = [o \in DOMAIN memory |-> [i \in DOMAIN memory[o] |->
          LET s == Stride(kernel, o)
              j == (i - at[o]) \div s
          IN  IF o \in Outputs(kernel) /\ i >= at[o] /\ j < n
              THEN written[j][o][1 + ((i - at[o]) % s)]
              ELSE memory[o][i]]]
    /\ at' = [o \in DOMAIN at |-> at[o] + n * Stride(kernel, o)]

One(written) == Advance(1, [j \in {0} |-> written])

\* The scalar loop of SIMDHelpers.h, which SIMDDummy.cpp calls too.
Loop ==
    /\ phase = "loop"
    /\ \A o \in Operands(kernel) : at[o] + Stride(kernel, o) <= size[o]
    /\ One(Snippet)
    /\ carry' = SnippetCarry
    /\ UNCHANGED <<call, phase, byLanes>>

First ==
    /\ phase = "first"
    /\ One(Snippet)
    /\ phase' = "head"
    /\ UNCHANGED <<call, carry, byLanes>>

\* Mutant: only the pointer that the loops compare is brought to an aligned address.
InHeadForOne ==
    /\ phase = "head"
    /\ Unaligned(SSE.bound, at[SSE.bound])
    /\ at[SSE.bound] < LastAligned

InHead ==
    /\ phase = "head"
    /\ \E o \in Operands(kernel) : Unaligned(o, at[o])
    /\ at[SSE.bound] < LastAligned

InFours == phase = "head" /\ ~InHead /\ at[SSE.bound] < LastAligned

InRest ==
    /\ phase = "head" /\ at[SSE.bound] >= LastAligned
    /\ at[SSE.bound] < SSE.end

Single ==
    /\ InHead \/ InRest
    /\ One(SSE.single)
    /\ carry' = SnippetCarry
    /\ UNCHANGED <<call, phase, byLanes>>

Four ==
    /\ InFours
    /\ Advance(TypeAlignment, SSE.four)
    /\ carry' = SSE.after
    /\ byLanes' = byLanes \cup {at[SSE.bound] \div Stride(kernel, SSE.bound) + j : j \in Lanes}
    /\ UNCHANGED <<call, phase>>

Return ==
    /\ \/ phase = "loop" /\ ~\A o \in Operands(kernel) : at[o] + Stride(kernel, o) <= size[o]
       \/ phase = "head" /\ at[SSE.bound] >= LastAligned /\ at[SSE.bound] >= SSE.end
    /\ phase' = "returned"
    /\ UNCHANGED <<call, at, memory, carry, byLanes>>

KernelStep == Loop \/ First \/ Single \/ Four \/ Return

\* Calls of every kernel, with what the kernels assert of their spans.  A span begins
\* anywhere: the envelope of a voice goes through a block in pieces.  Four jumps of three
\* to five quarters of a frame fit the loop of five frames, which no assertion demands.
Arbitrary(k, o, i) ==
    CASE k \in Indexings /\ o = "in" -> 3 + (i % 3)
      [] k = "sfzInterpolationCast" /\ o = "in" -> 4 + 3 * i
      [] o = "gain" -> i + 2
      [] o = "right" -> -i - 1
      [] o = "out" -> 100 * i + 7
      [] OTHER -> 2 ^ i

Length(k, o, n, spare, odd) ==
    n * Stride(k, o) + (IF o \in Outputs(k) THEN spare ELSE IF Stride(k, o) = 2 THEN odd ELSE 0)

TestCall ==
    \E k \in Kernels, n \in Elements, spare \in Spares, odd \in {0, 1},
       inLanes \in BOOLEAN, same \in BOOLEAN :
        /\ odd = 1 => k = "readInterleaved"
        /\ inLanes /\ k = "readInterleaved" => n > 0
        /\ same => k \in CalledInPlace /\ spare = 0
        /\ \E begins \in [Operands(k) -> IF inLanes THEN Lanes ELSE {0}] :
              /\ same => begins["in"] = begins[InPlaceOutput(k)]
              /\ Called([kernel |-> k, lanes |-> inLanes, inPlace |-> same,
                         value |-> 3, start |-> IF k \in Means THEN 0 ELSE 1,
                         size |-> [o \in Operands(k) |-> Length(k, o, n, spare, odd)],
                         offset |-> begins,
                         given |-> [o \in Operands(k) |->
                             [i \in 0 .. Length(k, o, n, spare, odd) - 1 |-> Arbitrary(k, o, i)]]])

-----------------------------------------------------------------------------
(* Properties.                                                               *)

G(o, i) == given[o][i]
SumTo(i) ==
    LET sums[n \in 0 .. i + 1] == IF n = 0 THEN 0 ELSE sums[n - 1] + Square(G("in", n - 1))
    IN  sums[i + 1]
Power(i) ==
    LET powers[n \in 0 .. i] == IF n = 0 THEN 1 ELSE powers[n - 1] * value
    IN  powers[i]

\* What a kernel is to write for an element, without its loops.
Written(o, i) ==
    CASE kernel = "readInterleaved" -> G("in", IF o = "left" THEN 2 * i ELSE 2 * i + 1)
      [] kernel = "fill" -> value
      [] kernel \in MathFunctions -> Math(kernel, G("in", i))
      [] kernel = "applyGain" -> value * G("in", i)
      [] kernel = "applyGainSpan" -> G("gain", i) * G("in", i)
      [] kernel = "multiplyAdd" -> G("out", i) + G("gain", i) * G("in", i)
      [] kernel = "add" -> G("out", i) + G("in", i)
      [] kernel = "addValue" -> G("out", i) + value
      [] kernel = "subtract" -> G("out", i) - G("in", i)
      [] kernel = "subtractValue" -> G("out", i) - value
      [] kernel = "copy" -> G("in", i)
      [] kernel = "pan" -> G(o, i) * Math(IF o = "left" THEN "cos" ELSE "sin",
                                          PiFour * (1 + G("in", i)))
      [] kernel = "linearRamp" -> start + value * (i + 1)
      [] kernel = "multiplicativeRamp" -> start * Power(i + 1)
      [] kernel = "cumsum" -> SumTo(i)
      [] kernel = "diff" -> G("in", i) - (IF i = 0 THEN 0 ELSE G("in", i - 1))

Position(i) ==
    LET x == start + SumTo(i)
    IN  CASE kernel = "sfzInterpolationCast" -> G("in", i)
          [] kernel = "saturatingSFZIndex" -> Min({x, LoopEnd})
          [] kernel = "loopingSFZIndex" ->
                IF x < LoopEnd THEN x
                ELSE LoopStart + ((x - LoopEnd) % (LoopEnd - LoopStart))

ElementIsRight(i) ==
    CASE kernel \in Means -> TRUE
      [] kernel = "writeInterleaved" ->
            memory["out"][2 * i] = G("left", i) /\ memory["out"][2 * i + 1] = G("right", i)
      [] kernel \in Indexings \cup {"sfzInterpolationCast"} ->
            /\ 4 * memory["index"][i] + memory["right"][i] = Position(i)
            /\ memory["right"][i] \in 0 .. 4
            /\ memory["left"][i] = 4 - memory["right"][i]
      [] OTHER -> \A o \in Outputs(kernel) : memory[o][i] = Written(o, i)

ResultIsRight ==
    CASE kernel \in Means -> carry = start + SumTo(Common - 1)
      [] kernel \in Indexings /\ Common > 0 -> carry = Position(Common - 1)
      [] kernel \in Ramps /\ Common > 0 -> carry = Written("out", Common - 1)
      [] OTHER -> TRUE

\* Elements that the SSE loops get wrong: the head and the rest of three functions,
\* and the fours of pan.
KnownWrong(i) ==
    \/ lanes /\ kernel \in {"cos", "log", "sin"} /\ i \notin byLanes
    \/ kernel = "pan" /\ i \in byLanes

\* However the elements fall into a head, fours and a rest, each is written once with
\* what it should be, and the sums, ramps and positions go on through all three.
MatchesReference ==
    phase = "returned" =>
        /\ \A i \in 0 .. Common - 1 : KnownWrong(i) \/ ElementIsRight(i)
        /\ ResultIsRight

\* SSE kernels that go on to the end of the output, over a shorter input.
RunsOver == lanes /\ kernel \in {"writeInterleaved", "applyGain", "applyGainSpan", "multiplyAdd"}

\* A register is loaded from and stored to aligned memory only, and no loop leaves the
\* shortest span, but for those four kernels, which write what lies behind the input.
AccessesAreLegal ==
    /\ InFours => \A o \in Operands(kernel) :
           /\ ~Unaligned(o, at[o])
           /\ at[o] + TypeAlignment * Stride(kernel, o) <= size[o]
    /\ InHead \/ InRest => \A o \in Operands(kernel) :
           \/ at[o] + Stride(kernel, o) <= size[o]
           \/ RunsOver /\ o \in Inputs(kernel)
    /\ phase = "returned" /\ ~RunsOver => \A o \in Outputs(kernel) :
           at[o] = Common * Stride(kernel, o)

================================================================================
