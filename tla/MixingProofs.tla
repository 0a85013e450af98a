------------------------------ MODULE MixingProofs ------------------------------
(*****************************************************************************)
(* What holds of every call of a kernel, what it leaves in its spans, what   *)
(* the calls of a block leave in its channels, and the levels of a voice     *)
(* between its blocks, for spans of any size and any stream of events.       *)
(*****************************************************************************)
EXTENDS Mixing, SequenceTheorems, NaturalsInduction, WellFoundedInduction, TLAPS

\* What the kernels assert of their spans: no output is shorter than an input.
LegalSpans(k, sizes, from) ==
    /\ sizes \in [Operands(k) -> Nat] /\ from \in [Operands(k) -> Nat]
    /\ \A i \in Inputs(k), o \in Outputs(k) :
          sizes[i] \div Stride(k, i) <= sizes[o] \div Stride(k, o)

LegalCall(c) ==
    /\ c.kernel \in Kernels /\ c.lanes \in BOOLEAN
    /\ LegalSpans(c.kernel, c.size, c.offset)

\* All pointers of a call have gone on by m elements: where they may be in each loop.
PlaceIn(m) ==
    /\ at = [o \in Operands(kernel) |-> m * Stride(kernel, o)]
    /\ \/ m <= Common
       \/ RunsOver /\ phase # "first" /\ m <= Room("out")
    /\ phase = "loop" => ~ lanes
    /\ phase = "head" => lanes
    /\ phase = "first" => lanes /\ kernel \in Scans /\ m = 0 /\ size["in"] > 0
    /\ phase = "returned" /\ ~ RunsOver => m = Common

Running == phase \in {"loop", "first", "head", "returned"}

CallInv ==
    /\ phase \in {"none", "loop", "first", "head", "returned"}
    /\ Running => LegalCall(call) /\ \E m \in Nat : PlaceIn(m)

-----------------------------------------------------------------------------
(* The shortest span.                                                        *)

\* Of some numbers, one is the first.
LEMMA HasFirst ==
    ASSUME NEW T \in SUBSET Nat, T # {}
    PROVE  \E i \in T : \A j \in T : i <= j
<1> DEFINE less == {pair \in Nat \X Nat : pair[1] < pair[2]}
<1>1. OpToRel(<, Nat) = less
  BY Zenon DEF OpToRel
<1>2. IsWellFoundedOn(less, Nat)
  BY <1>1, NatLessThanWellFounded, Zenon
<1>3. \A i, j \in Nat : j < i => <<j, i>> \in less
  OBVIOUS
<1> HIDE DEF less
<1>4. PICK i \in T : \A j \in T : ~ (<<j, i>> \in less)
  BY <1>2, WFMin
<1>5. \A j \in T : ~ (j < i)
  BY <1>3, <1>4
<1> QED BY <1>5

\* A set of numbers that is not empty has a first one, which Min finds.
LEMMA FirstIsMin ==
    ASSUME NEW T \in SUBSET Int, T # {}, NEW b \in Int, \A y \in T : b <= y
    PROVE  Min(T) \in T /\ \A y \in T : Min(T) <= y
<1> DEFINE U == {y - b : y \in T}
<1>1. U \in SUBSET Nat /\ U # {}
  <2>1. \A y \in T : y - b \in Nat
    OBVIOUS
  <2>2. U \in SUBSET Nat
    BY <2>1
  <2> QED BY <2>2
<1>2. PICK u \in U : \A v \in U : u <= v
  BY <1>1, HasFirst
<1>3. PICK x \in T : u = x - b
  OBVIOUS
<1>4. \A y \in T : x <= y
  BY <1>2, <1>3
<1> QED BY <1>4 DEF Min

\* Induction up to n.  No scheme takes a formula here, but a set of numbers can be one:
\* those up to which a fact holds.
LEMMA UpTo ==
    ASSUME NEW n \in Nat, NEW T, 0 \in T, \A k \in 1 .. n : k - 1 \in T => k \in T
    PROVE  0 .. n \subseteq T
<1> DEFINE Missed == (0 .. n) \ T
<1>1. SUFFICES ASSUME Missed # {} PROVE FALSE
  OBVIOUS
<1>2. Missed \in SUBSET Nat
  OBVIOUS
<1> HIDE DEF Missed
<1>3. PICK k \in Missed : \A j \in Missed : k <= j
  BY <1>1, <1>2, HasFirst
<1> USE DEF Missed
<1>4. k \in 1 .. n /\ k - 1 \in 0 .. n /\ ~ (k <= k - 1)
  BY <1>3
<1>5. k - 1 \notin Missed
  BY <1>3, <1>4
<1> QED BY <1>3, <1>4, <1>5

\* No operand has less room than the shortest, which is one of them.
LEMMA CommonIsShortest ==
    ASSUME LegalCall(call)
    PROVE  /\ Common \in Nat /\ Operands(kernel) # {}
           /\ \A o \in Operands(kernel) :
                 Room(o) \in Nat /\ Common <= Room(o) /\ Stride(kernel, o) \in {1, 2}
           /\ \E o \in Operands(kernel) : Common = Room(o)
<1>1. \A o \in Operands(kernel) : Stride(kernel, o) \in {1, 2} /\ size[o] \in Nat
  BY DEF LegalCall, LegalSpans, Stride, kernel, size
<1>2. \A o \in Operands(kernel) : Room(o) \in Nat
  BY <1>1 DEF Room
<1>3. kernel \in Kernels
  BY DEF LegalCall, kernel
<1>4. Operands(kernel) # {}
  BY <1>3 DEF Kernels, Operands, Inputs, Outputs, MathFunctions, Scans, Means, Ramps, Indexings
<1> DEFINE rooms == {Room(o) : o \in Operands(kernel)}
<1>5. rooms \in SUBSET Int /\ rooms # {} /\ \A y \in rooms : 0 <= y
  BY <1>2, <1>4
<1> HIDE DEF rooms
<1>6. Min(rooms) \in rooms /\ \A y \in rooms : Min(rooms) <= y
  BY <1>5, FirstIsMin
<1>7. Common = Min(rooms)
  BY DEF Common, rooms
<1> QED BY <1>1, <1>2, <1>4, <1>6, <1>7 DEF rooms

-----------------------------------------------------------------------------
(* Where the SSE loops go.                                                   *)

Interleaved == {"readInterleaved", "writeInterleaved"}
Gains3 == {"applyGain", "applyGainSpan", "multiplyAdd"}

\* The loops of each kernel.
LEMMA SSEOfKernel ==
    /\ kernel \in Interleaved => SSE = InterleavingSSE
    /\ kernel = "fill" => SSE = FillSSE
    /\ kernel \in MathFunctions => SSE = MathSSE
    /\ kernel \in Gains3 => SSE = GainSSE
    /\ kernel \in {"add", "addValue", "subtract", "subtractValue", "copy"} =>
          SSE = ArithmeticSSE
    /\ kernel = "pan" => SSE = PanSSE
    /\ kernel = "sfzInterpolationCast" => SSE = CastSSE
    /\ kernel \in Indexings => SSE = IndexingSSE
    /\ kernel \in Ramps => SSE = RampSSE
    /\ kernel = "cumsum" => SSE = CumsumSSE
    /\ kernel = "diff" => SSE = DiffSSE
    /\ kernel \in Means => SSE = MeanSSE
  BY DEF SSE, Interleaved, Gains3, MathFunctions, Indexings, Ramps, Means

\* The pointer that the loops compare, and how far they go: of most kernels to the end
\* of the shortest span.
LEMMA PlainLoops ==
    ASSUME LegalCall(call), kernel \notin Interleaved
    PROVE  /\ SSE.bound \in Operands(kernel)
           /\ SSE.extent = Common
           /\ SSE.end = IF kernel \in Gains3 THEN size["out"] ELSE Common
           /\ \A o \in Operands(kernel) : Stride(kernel, o) = 1 /\ Room(o) = size[o]
<1>1. kernel \in Kernels \ Interleaved /\ \A o \in Operands(kernel) : size[o] \in Nat
  BY DEF LegalCall, LegalSpans, kernel, size
<1>2. \A o \in Operands(kernel) : Stride(kernel, o) = 1 /\ Room(o) = size[o]
  BY <1>1 DEF Stride, Room, Interleaved
<1>3. CASE kernel \in {"fill"} \cup Ramps
  <2>1. Operands(kernel) = {"out"}
    BY <1>3 DEF Operands, Inputs, Outputs, Ramps, Means, Indexings
  <2>2. Common = size["out"]
    BY <1>2, <2>1, CommonIsShortest
  <2>3. SSE.bound = "out" /\ SSE.extent = size["out"] /\ SSE.end = size["out"]
    BY <1>3, SSEOfKernel DEF FillSSE, RampSSE, Loops
  <2> QED BY <1>2, <1>3, <2>1, <2>2, <2>3 DEF Gains3, Ramps
<1>4. CASE kernel \in Means
  <2>1. Operands(kernel) = {"in"}
    BY <1>4 DEF Operands, Inputs, Outputs, Ramps, Means, Indexings
  <2>2. Common = size["in"]
    BY <1>2, <2>1, CommonIsShortest
  <2>3. SSE.bound = "in" /\ SSE.extent = size["in"] /\ SSE.end = size["in"]
    BY <1>4, SSEOfKernel DEF MeanSSE, Loops
  <2> QED BY <1>2, <1>4, <2>1, <2>2, <2>3 DEF Gains3, Means
<1>5. CASE kernel \in Gains3
  <2>1. "out" \in Operands(kernel)
    BY <1>5 DEF Operands, Outputs, Gains3, Means, Indexings
  <2>2. SSE.bound = "out" /\ SSE.extent = Common /\ SSE.end = size["out"]
    BY <1>5, SSEOfKernel DEF GainSSE, Loops
  <2> QED BY <1>2, <1>5, <2>1, <2>2
<1>6. CASE kernel \in {"add", "addValue", "subtract", "subtractValue", "copy"}
  <2>1. "out" \in Operands(kernel)
    BY <1>6 DEF Operands, Outputs, Means, Indexings
  <2>2. SSE.bound = "out" /\ SSE.extent = Common /\ SSE.end = Common
    BY <1>6, SSEOfKernel DEF ArithmeticSSE, Loops
  <2> QED BY <1>2, <1>6, <2>1, <2>2 DEF Gains3
<1>7. CASE kernel \in MathFunctions \cup Indexings \cup Scans \cup
                       {"pan", "sfzInterpolationCast"}
  <2>1. "in" \in Operands(kernel) /\ kernel \notin Gains3
    BY <1>7 DEF Operands, Inputs, Gains3, Ramps, Means, Indexings, Scans, MathFunctions
  <2>2. SSE.bound = "in" /\ SSE.extent = Common /\ SSE.end = Common
    <3>1. CASE kernel \in MathFunctions
      BY <3>1, SSEOfKernel DEF MathSSE, Loops
    <3>2. CASE kernel \in Indexings
      BY <3>2, SSEOfKernel DEF IndexingSSE, Loops
    <3>3. CASE kernel = "cumsum"
      BY <3>3, SSEOfKernel DEF CumsumSSE, Loops
    <3>4. CASE kernel = "diff"
      BY <3>4, SSEOfKernel DEF DiffSSE, Loops
    <3>5. CASE kernel = "pan"
      BY <3>5, SSEOfKernel DEF PanSSE, Loops
    <3>6. CASE kernel = "sfzInterpolationCast"
      BY <3>6, SSEOfKernel DEF CastSSE, Loops
    <3> QED BY <1>7, <3>1, <3>2, <3>3, <3>4, <3>5, <3>6 DEF Scans
  <2> QED BY <1>2, <2>1, <2>2
<1> QED BY <1>1, <1>3, <1>4, <1>5, <1>6, <1>7 DEF Kernels, Interleaved, Gains3

\* The kernels on two channels in one span compare the pointer to that, which
\* goes by two.
LEMMA InterleavedLoops ==
    ASSUME LegalCall(call), kernel \in Interleaved
    PROVE  /\ SSE.bound \in Operands(kernel) /\ Stride(kernel, SSE.bound) = 2
           /\ SSE.end = size[SSE.bound] - 1
           /\ SSE.extent \in Int
           /\ \A o \in Operands(kernel) :
                 SSE.extent + 4 <= (2 * size[o]) \div Stride(kernel, o)
           /\ kernel = "readInterleaved" => SSE.bound = "in"
           /\ kernel = "writeInterleaved" => SSE.bound = "out"
<1> DEFINE o == IF kernel = "readInterleaved" THEN "in" ELSE "out"
           lengths == {(2 * size[p]) \div Stride(kernel, p) : p \in Operands(kernel)}
<1>1. SSE.bound = o /\ SSE.extent = Min(lengths) - 4 /\ SSE.end = size[o] - 1
  BY SSEOfKernel DEF InterleavingSSE, Loops, TypeAlignment
<1>2. o \in Operands(kernel) /\ Stride(kernel, o) = 2
  BY DEF Operands, Inputs, Outputs, Interleaved, Ramps, Means, Indexings, Stride
<1>3. \A p \in Operands(kernel) : (2 * size[p]) \div Stride(kernel, p) \in Nat
  <2>1. \A p \in Operands(kernel) : size[p] \in Nat /\ Stride(kernel, p) \in {1, 2}
    BY CommonIsShortest DEF LegalCall, LegalSpans, kernel, size
  <2> QED BY <2>1
<1>4. lengths \in SUBSET Int /\ lengths # {} /\ \A y \in lengths : 0 <= y
  BY <1>2, <1>3
<1>5. \A p \in Operands(kernel) : (2 * size[p]) \div Stride(kernel, p) \in lengths
  OBVIOUS
<1>6. o = "in" <=> kernel = "readInterleaved"
  OBVIOUS
<1>7. kernel = "writeInterleaved" => o = "out"
  OBVIOUS
<1> HIDE DEF lengths, o
<1>8. Min(lengths) \in lengths /\ \A y \in lengths : Min(lengths) <= y
  BY <1>4, FirstIsMin
<1>9. Min(lengths) \in Int
  BY <1>4, <1>8
<1>10. \A p \in Operands(kernel) :
          SSE.extent + 4 <= (2 * size[p]) \div Stride(kernel, p)
  <2> TAKE p \in Operands(kernel)
  <2>1. Min(lengths) <= (2 * size[p]) \div Stride(kernel, p)
    BY <1>5, <1>8
  <2>2. SSE.extent + 4 = Min(lengths)
    BY <1>1, <1>9
  <2> QED BY <2>1, <2>2
<1> QED BY <1>1, <1>2, <1>6, <1>7, <1>9, <1>10

\* Before the extent there are one, or four, elements more; in the rest there is one
\* more but in the inputs of a kernel that runs over; and the rest goes to the
\* end of the shortest span.
LEMMA LoopBounds ==
    ASSUME LegalCall(call), lanes, NEW m \in Nat
    PROVE  LET there == m * Stride(kernel, SSE.bound)
           IN  /\ there \in Nat /\ SSE.bound \in Operands(kernel)
               /\ SSE.extent \in Int /\ SSE.end \in Int
               /\ there < SSE.extent => \A o \in Operands(kernel) :
                     (m + 1) * Stride(kernel, o) <= size[o]
               /\ there + 4 <= SSE.extent => \A o \in Operands(kernel) :
                     (m + 4) * Stride(kernel, o) <= size[o]
               /\ there < SSE.end => \A o \in Operands(kernel) :
                     \/ (m + 1) * Stride(kernel, o) <= size[o]
                     \/ RunsOver /\ o \in Inputs(kernel) /\ o # "out"
               /\ there >= SSE.end /\ ~ RunsOver => m >= Common
<1>1. /\ Common \in Nat
      /\ \A o \in Operands(kernel) :
            /\ Room(o) \in Nat /\ Common <= Room(o) /\ Stride(kernel, o) \in {1, 2}
            /\ size[o] \in Nat
  BY CommonIsShortest DEF LegalCall, LegalSpans, kernel, size
<1>2. CASE kernel \notin Interleaved
  <2>1. PICK b, e : b = SSE.bound /\ e = SSE.end
    OBVIOUS
  <2>2. /\ b \in Operands(kernel) /\ SSE.extent = Common
        /\ e = IF kernel \in Gains3 THEN size["out"] ELSE Common
        /\ \A o \in Operands(kernel) : Stride(kernel, o) = 1 /\ Room(o) = size[o]
    BY <1>2, <2>1, PlainLoops
  <2>3. m * Stride(kernel, b) = m
    BY <2>2
  <2>4. kernel \in Gains3 => RunsOver /\ Operands(kernel) = Inputs(kernel) \cup {"out"}
                               /\ "out" \notin Inputs(kernel)
    BY DEF RunsOver, Gains3, Operands, Inputs, Outputs, Ramps, Means, Indexings
  <2>5. e \in Nat
    BY <1>1, <2>2, <2>4
  <2>6. \A o \in Operands(kernel) : /\ m < Common => (m + 1) * Stride(kernel, o) <= size[o]
                                    /\ m + 4 <= Common => (m + 4) * Stride(kernel, o) <= size[o]
    <3> TAKE o \in Operands(kernel)
    <3>1. Stride(kernel, o) = 1 /\ size[o] \in Nat /\ Common <= size[o]
      BY <1>1, <2>2
    <3> QED BY <1>1, <3>1
  <2>7. m < e => \A o \in Operands(kernel) :
                     \/ (m + 1) * Stride(kernel, o) <= size[o]
                     \/ RunsOver /\ o \in Inputs(kernel) /\ o # "out"
    <3>1. CASE kernel \notin Gains3
      BY <1>1, <2>2, <2>6, <3>1
    <3>2. CASE kernel \in Gains3
      <4>1. m < e => (m + 1) * Stride(kernel, "out") <= size["out"]
        <5>1. Stride(kernel, "out") = 1 /\ size["out"] \in Nat /\ e = size["out"]
          BY <1>1, <2>2, <2>4, <3>2
        <5> QED BY <5>1
      <4> QED BY <2>4, <3>2, <4>1
    <3> QED BY <3>1, <3>2
  <2>8. m >= e /\ ~ RunsOver => m >= Common
    BY <2>2, <2>4
  <2> QED BY <1>1, <2>1, <2>2, <2>3, <2>5, <2>6, <2>7, <2>8
<1>3. CASE kernel \in Interleaved
  <2>1. PICK b, e, x : b = SSE.bound /\ e = SSE.end /\ x = SSE.extent
    OBVIOUS
  <2>2. /\ b \in Operands(kernel) /\ Stride(kernel, b) = 2 /\ e = size[b] - 1 /\ x \in Int
        /\ \A o \in Operands(kernel) : x + 4 <= (2 * size[o]) \div Stride(kernel, o)
        /\ kernel = "readInterleaved" => b = "in"
        /\ kernel = "writeInterleaved" => b = "out"
    BY <1>3, <2>1, InterleavedLoops
  <2>3. m * Stride(kernel, b) = 2 * m /\ e \in Int
    BY <1>1, <2>2
  <2>4. \A o \in Operands(kernel) :
            /\ 2 * m < x => (m + 1) * Stride(kernel, o) <= size[o]
            /\ 2 * m + 4 <= x => (m + 4) * Stride(kernel, o) <= size[o]
    <3> TAKE o \in Operands(kernel)
    <3>1. PICK n \in Nat : n = size[o]
      BY <1>1
    <3>2. x + 4 <= (2 * n) \div Stride(kernel, o)
      BY <2>2, <3>1
    <3>3. CASE Stride(kernel, o) = 1
      <4>1. x + 4 <= 2 * n
        BY <3>2, <3>3
      <4> QED BY <2>2, <3>1, <3>3, <4>1
    <3>4. CASE Stride(kernel, o) = 2
      <4>1. x + 4 <= n
        BY <3>2, <3>4
      <4> QED BY <2>2, <3>1, <3>4, <4>1
    <3> QED BY <1>1, <3>3, <3>4
  <2>5. CASE kernel = "readInterleaved"
    <3>1. /\ Operands(kernel) = {"in", "left", "right"} /\ Inputs(kernel) = {"in"}
          /\ Outputs(kernel) = {"left", "right"}
          /\ Stride(kernel, "left") = 1 /\ Stride(kernel, "right") = 1
          /\ Stride(kernel, "in") = 2
      BY <2>5 DEF Operands, Inputs, Outputs, Ramps, Means, Indexings, Stride
    <3>2. \A o \in {"left", "right"} : size["in"] \div 2 <= size[o]
      <4>1. \A o \in {"left", "right"} : size["in"] \div 2 <= size[o] \div 1
        BY <3>1 DEF LegalCall, LegalSpans, kernel, size
      <4>2. \A o \in {"left", "right"} : size[o] \div 1 = size[o]
        BY <1>1, <3>1
      <4> QED BY <4>1, <4>2
    <3>3. PICK n \in Nat : n = size["in"] /\ e = n - 1
      BY <1>1, <2>2, <2>5, <3>1
    <3>4. 2 * m < e => \A o \in Operands(kernel) : (m + 1) * Stride(kernel, o) <= size[o]
      <4>1. 2 * m < e => (m + 1) * 2 <= n /\ m + 1 <= n \div 2
        BY <3>3
      <4>2. \A o \in {"left", "right"} : size[o] \in Nat /\ n \div 2 <= size[o]
        BY <1>1, <3>1, <3>2, <3>3
      <4>3. 2 * m < e => \A o \in {"left", "right"} : (m + 1) * 1 <= size[o]
        BY <3>3, <4>1, <4>2
      <4> QED BY <3>1, <3>3, <4>1, <4>3
    <3>5. Common <= n \div 2
      BY <1>1, <3>1, <3>3 DEF Room
    <3>6. 2 * m >= e => m >= Common
      BY <1>1, <3>3, <3>5
    <3> QED BY <2>1, <2>2, <2>3, <2>4, <3>4, <3>6
  <2>6. CASE kernel = "writeInterleaved"
    <3>1. /\ Operands(kernel) = {"left", "right", "out"} /\ Inputs(kernel) = {"left", "right"}
          /\ Stride(kernel, "out") = 2 /\ RunsOver
      BY <2>6 DEF Operands, Inputs, Outputs, Ramps, Means, Indexings, Stride, RunsOver
    <3>2. 2 * m < e => (m + 1) * 2 <= size["out"]
      BY <1>1, <2>2, <2>6, <3>1
    <3>3. 2 * m < e => \A o \in Operands(kernel) :
                     \/ (m + 1) * Stride(kernel, o) <= size[o]
                     \/ RunsOver /\ o \in Inputs(kernel) /\ o # "out"
      BY <3>1, <3>2
    <3> QED BY <2>1, <2>2, <2>3, <2>4, <3>1, <3>3
  <2> QED BY <1>3, <2>5, <2>6 DEF Interleaved
<1> QED BY <1>2, <1>3

-----------------------------------------------------------------------------
(* The steps of a call.                                                      *)

\* Fours begin at an aligned address and end before the last one.
LEMMA FourFits ==
    ASSUME NEW p \in Nat, NEW x \in Int, NEW a \in Nat,
           (p + a) % 4 = 0, a < x - ((p + x) % 4)
    PROVE  a + 4 <= x
<1>1. PICK r \in 0 .. 3, q \in Int : r = (p + x) % 4 /\ p + x = (4 * q) + r
  <2>1. p + x \in Int
    OBVIOUS
  <2> QED BY <2>1
<1>2. PICK n \in Int : p + a = 4 * n
  <2>1. p + a \in Int
    OBVIOUS
  <2> QED BY <2>1
<1>3. a < x - r
  BY <1>1
<1>4. 4 * n < 4 * q
  BY <1>1, <1>2, <1>3
<1>5. n + 1 <= q
  BY <1>4
<1> QED BY <1>1, <1>2, <1>5

\* A step of one element finds one in each span, unless the kernel runs over.
LEMMA OneFits ==
    ASSUME LegalCall(call), NEW m \in Nat, PlaceIn(m), InHead \/ InRest
    PROVE  \A o \in Operands(kernel) :
              \/ (m + 1) * Stride(kernel, o) <= size[o]
              \/ RunsOver /\ o \in Inputs(kernel) /\ o # "out"
<1>1. lanes /\ phase = "head"
  BY DEF InHead, InRest, PlaceIn
<1>2. PICK b, x, there : b = SSE.bound /\ x = SSE.extent /\ there = m * Stride(kernel, b)
  OBVIOUS
<1>3. /\ b \in Operands(kernel) /\ x \in Int /\ there \in Nat
      /\ there < x => \A o \in Operands(kernel) : (m + 1) * Stride(kernel, o) <= size[o]
      /\ there < SSE.end => \A o \in Operands(kernel) :
            \/ (m + 1) * Stride(kernel, o) <= size[o]
            \/ RunsOver /\ o \in Inputs(kernel) /\ o # "out"
  BY <1>1, <1>2, LoopBounds
<1>4. at[b] = there
  BY <1>2, <1>3 DEF PlaceIn
<1>5. CASE InHead
  <2>1. there < x - ((offset[b] + x) % 4)
    BY <1>2, <1>4, <1>5 DEF InHead, LastAligned, PrevAligned, TypeAlignment
  <2>2. offset[b] \in Nat
    BY <1>3 DEF LegalCall, LegalSpans, kernel, offset
  <2>3. (offset[b] + x) % 4 \in 0 .. 3
    BY <1>3, <2>2
  <2>4. there < x
    BY <1>3, <2>1, <2>3
  <2> QED BY <1>3, <2>4
<1>6. CASE InRest
  BY <1>2, <1>3, <1>4, <1>6 DEF InRest
<1> QED BY <1>5, <1>6

\* A step of four finds four, at aligned addresses.
LEMMA FourAreThere ==
    ASSUME LegalCall(call), NEW m \in Nat, PlaceIn(m), InFours
    PROVE  \A o \in Operands(kernel) :
              ~ Unaligned(o, at[o]) /\ (m + 4) * Stride(kernel, o) <= size[o]
<1>1. lanes /\ phase = "head" /\ ~ InHead /\ at[SSE.bound] < LastAligned
  BY DEF InFours, PlaceIn
<1>2. \A o \in Operands(kernel) : ~ Unaligned(o, at[o])
  BY <1>1 DEF InHead
<1>3. PICK b, x, there : b = SSE.bound /\ x = SSE.extent /\ there = m * Stride(kernel, b)
  OBVIOUS
<1>4. /\ b \in Operands(kernel) /\ x \in Int /\ there \in Nat
      /\ there + 4 <= x => \A o \in Operands(kernel) : (m + 4) * Stride(kernel, o) <= size[o]
  BY <1>1, <1>3, LoopBounds
<1>5. at[b] = there
  BY <1>3, <1>4 DEF PlaceIn
<1>6. there < x - ((offset[b] + x) % 4)
  BY <1>1, <1>3, <1>5 DEF LastAligned, PrevAligned, TypeAlignment
<1>7. offset[b] \in Nat
  BY <1>4 DEF LegalCall, LegalSpans, kernel, offset
<1>8. (offset[b] + there) % 4 = 0
  BY <1>2, <1>4, <1>5 DEF Unaligned, TypeAlignment
<1>9. there + 4 <= x
  BY <1>4, <1>6, <1>7, <1>8, FourFits
<1> QED BY <1>2, <1>4, <1>9

\* A step moves all pointers by as many elements.
LEMMA AdvanceMoves ==
    ASSUME LegalCall(call), NEW m \in Nat, PlaceIn(m), NEW n \in {1, 4}, NEW written,
           Advance(n, written)
    PROVE  at' = [o \in Operands(kernel) |-> (m + n) * Stride(kernel, o)]
<1>1. \A o \in Operands(kernel) :
          (m * Stride(kernel, o)) + (n * Stride(kernel, o)) = (m + n) * Stride(kernel, o)
  <2>1. \A o \in Operands(kernel) : Stride(kernel, o) \in {1, 2}
    BY CommonIsShortest
  <2> QED BY <2>1
<1>2. at' = [o \in DOMAIN at |-> at[o] + n * Stride(kernel, o)]
  BY DEF Advance
<1>3. DOMAIN at = Operands(kernel)
      /\ \A o \in Operands(kernel) : at[o] = m * Stride(kernel, o)
  BY DEF PlaceIn
<1> QED BY <1>1, <1>2, <1>3

\* What is there for each operand is there for the shortest.
LEMMA CommonReaches ==
    ASSUME LegalCall(call), NEW m \in Nat,
           \A o \in Operands(kernel) : m * Stride(kernel, o) <= size[o]
    PROVE  m <= Common
<1>1. PICK o \in Operands(kernel) : Common = Room(o)
  BY CommonIsShortest
<1>2. Stride(kernel, o) \in {1, 2} /\ size[o] \in Nat
  BY CommonIsShortest DEF LegalCall, LegalSpans, kernel, size
<1>3. m <= size[o] \div Stride(kernel, o)
  <2>1. CASE Stride(kernel, o) = 1
    BY <1>2, <2>1
  <2>2. CASE Stride(kernel, o) = 2
    BY <1>2, <2>2
  <2> QED BY <1>2, <2>1, <2>2
<1> QED BY <1>1, <1>3 DEF Room

LEMMA CallGoesOn ==
    ASSUME CallInv, KernelStep
    PROVE  CallInv'
<1>1. Running /\ LegalCall(call)
  BY DEF CallInv, Running, KernelStep, Loop, First, Single, Four, Return, InHead, InRest, InFours
<1>2. PICK m \in Nat : PlaceIn(m)
  BY <1>1 DEF CallInv
<1>3. call' = call
  BY DEF KernelStep, Loop, First, Single, Four, Return
<1>4. /\ kernel' = kernel /\ lanes' = lanes /\ size' = size /\ Common' = Common
      /\ RunsOver' = RunsOver /\ LegalCall(call)' /\ Room("out")' = Room("out")
  BY <1>1, <1>3 DEF kernel, lanes, size, Common, Room, RunsOver, LegalCall
<1>5. ASSUME NEW k \in Nat, at' = [o \in Operands(kernel) |-> k * Stride(kernel, o)],
             \/ k <= Common
             \/ RunsOver /\ phase' # "first" /\ k <= Room("out"),
             phase' \in {"loop", "head", "returned"},
             phase' = "loop" => ~ lanes,
             phase' = "head" => lanes,
             phase' = "returned" /\ ~ RunsOver => k = Common
      PROVE  CallInv'
  <2>1. PlaceIn(k)'
    BY <1>4, <1>5 DEF PlaceIn
  <2> QED BY <1>4, <1>5, <2>1 DEF CallInv, Running
<1>6. CASE Loop
  <2>1. at' = [o \in Operands(kernel) |-> (m + 1) * Stride(kernel, o)]
    BY <1>1, <1>2, <1>6, AdvanceMoves DEF Loop, One
  <2>2. \A o \in Operands(kernel) : (m + 1) * Stride(kernel, o) <= size[o]
    <3> TAKE o \in Operands(kernel)
    <3>1. at[o] = m * Stride(kernel, o) /\ at[o] + Stride(kernel, o) <= size[o]
      BY <1>2, <1>6 DEF PlaceIn, Loop
    <3>2. Stride(kernel, o) \in {1, 2}
      BY <1>1, CommonIsShortest
    <3> QED BY <3>1, <3>2
  <2>3. m + 1 <= Common
    BY <1>1, <2>2, CommonReaches
  <2>4. phase' = "loop" /\ ~ lanes
    BY <1>2, <1>6 DEF Loop, PlaceIn
  <2> QED BY <1>5, <2>1, <2>3, <2>4
<1>7. CASE First
  <2>1. at' = [o \in Operands(kernel) |-> (m + 1) * Stride(kernel, o)]
    BY <1>1, <1>2, <1>7, AdvanceMoves DEF First, One
  <2>2. m = 0 /\ kernel \in Scans /\ lanes /\ size["in"] > 0
    BY <1>2, <1>7 DEF First, PlaceIn
  <2>3. /\ Operands(kernel) = {"in", "out"} /\ Inputs(kernel) = {"in"}
        /\ Outputs(kernel) = {"out"}
        /\ Stride(kernel, "in") = 1 /\ Stride(kernel, "out") = 1
    BY <2>2 DEF Scans, Operands, Inputs, Outputs, Ramps, Means, Indexings, Stride
  <2>4. /\ size["in"] \in Nat /\ size["out"] \in Nat
        /\ size["in"] \div 1 <= size["out"] \div 1
    BY <1>1, <2>3 DEF LegalCall, LegalSpans, kernel, size
  <2>5. size["in"] <= size["out"]
    BY <2>4
  <2>6. \A o \in Operands(kernel) : 1 * Stride(kernel, o) <= size[o]
    BY <2>2, <2>3, <2>4, <2>5
  <2>7. m + 1 <= Common
    BY <1>1, <2>2, <2>6, CommonReaches
  <2>8. phase' = "head"
    BY <1>7 DEF First
  <2> QED BY <1>5, <2>1, <2>2, <2>7, <2>8
<1>8. CASE Single
  <2>1. at' = [o \in Operands(kernel) |-> (m + 1) * Stride(kernel, o)]
    BY <1>1, <1>2, <1>8, AdvanceMoves DEF Single, One
  <2>2. phase' = "head" /\ lanes
    BY <1>2, <1>8 DEF Single, InHead, InRest, PlaceIn
  <2>3. \A o \in Operands(kernel) :
            \/ (m + 1) * Stride(kernel, o) <= size[o]
            \/ RunsOver /\ o \in Inputs(kernel) /\ o # "out"
    BY <1>1, <1>2, <1>8, OneFits DEF Single
  <2>4. m + 1 <= Common \/ (RunsOver /\ m + 1 <= Room("out"))
    <3>1. CASE ~ RunsOver
      BY <1>1, <2>3, <3>1, CommonReaches
    <3>2. CASE RunsOver
      <4>1. "out" \in Operands(kernel)
        BY <3>2 DEF RunsOver, Operands, Outputs, Means, Indexings
      <4>2. (m + 1) * Stride(kernel, "out") <= size["out"]
        BY <2>3, <4>1
      <4>3. Stride(kernel, "out") \in {1, 2} /\ size["out"] \in Nat
        BY <1>1, <4>1, CommonIsShortest DEF LegalCall, LegalSpans, kernel, size
      <4>4. CASE Stride(kernel, "out") = 1
        BY <3>2, <4>2, <4>3, <4>4 DEF Room
      <4>5. CASE Stride(kernel, "out") = 2
        BY <3>2, <4>2, <4>3, <4>5 DEF Room
      <4> QED BY <4>3, <4>4, <4>5
    <3> QED BY <3>1, <3>2
  <2> QED BY <1>5, <2>1, <2>2, <2>4
<1>9. CASE Four
  <2>1. at' = [o \in Operands(kernel) |-> (m + 4) * Stride(kernel, o)]
    BY <1>1, <1>2, <1>9, AdvanceMoves DEF Four, TypeAlignment
  <2>2. phase' = "head" /\ lanes
    BY <1>2, <1>9 DEF Four, InFours, PlaceIn
  <2>3. \A o \in Operands(kernel) : (m + 4) * Stride(kernel, o) <= size[o]
    BY <1>1, <1>2, <1>9, FourAreThere DEF Four
  <2>4. m + 4 <= Common
    BY <1>1, <2>3, CommonReaches
  <2> QED BY <1>5, <2>1, <2>2, <2>4
<1>10. CASE Return
  <2>1. at' = [o \in Operands(kernel) |-> m * Stride(kernel, o)] /\ phase' = "returned"
    BY <1>2, <1>10 DEF Return, PlaceIn
  <2>2. phase \in {"loop", "head"}
    BY <1>10 DEF Return
  <2>3. m <= Common \/ (RunsOver /\ m <= Room("out"))
    BY <1>2 DEF PlaceIn
  <2>4. Common \in Nat
    BY <1>1, CommonIsShortest
  <2>5. ~ RunsOver => m >= Common
    <3>1. CASE phase = "loop"
      <4>1. PICK o \in Operands(kernel) : ~ (at[o] + Stride(kernel, o) <= size[o])
        BY <1>10, <3>1 DEF Return
      <4>2. /\ Stride(kernel, o) \in {1, 2} /\ size[o] \in Nat /\ Common <= Room(o)
            /\ at[o] = m * Stride(kernel, o)
        BY <1>1, <1>2, CommonIsShortest DEF LegalCall, LegalSpans, kernel, size, PlaceIn
      <4>3. CASE Stride(kernel, o) = 1
        BY <2>4, <4>1, <4>2, <4>3 DEF Room
      <4>4. CASE Stride(kernel, o) = 2
        BY <2>4, <4>1, <4>2, <4>4 DEF Room
      <4> QED BY <4>2, <4>3, <4>4
    <3>2. CASE phase = "head"
      <4>1. lanes /\ at[SSE.bound] >= SSE.end
        BY <1>2, <1>10, <3>2 DEF Return, PlaceIn
      <4>2. PICK b : b = SSE.bound
        OBVIOUS
      <4>3. /\ b \in Operands(kernel)
            /\ m * Stride(kernel, b) >= SSE.end /\ ~ RunsOver => m >= Common
        BY <1>1, <4>1, <4>2, LoopBounds
      <4>4. at[b] = m * Stride(kernel, b)
        BY <1>2, <4>3 DEF PlaceIn
      <4> QED BY <4>1, <4>2, <4>3, <4>4
    <3> QED BY <2>2, <3>1, <3>2
  <2>6. ~ RunsOver => m = Common
    BY <2>3, <2>4, <2>5
  <2> QED BY <1>5, <2>1, <2>3, <2>6
<1> QED BY <1>6, <1>7, <1>8, <1>9, <1>10 DEF KernelStep

\* Every access of a step is to what its loop may touch.
LEMMA StepsAreLegal == CallInv => AccessesAreLegal
<1> SUFFICES ASSUME CallInv PROVE AccessesAreLegal
  OBVIOUS
<1>1. ASSUME Running
      PROVE  LegalCall(call) /\ \E m \in Nat : PlaceIn(m)
  BY <1>1 DEF CallInv
<1>2. ASSUME NEW m \in Nat, PlaceIn(m), LegalCall(call), NEW o \in Operands(kernel), NEW k \in {1, 4}
      PROVE  at[o] + k * Stride(kernel, o) = (m + k) * Stride(kernel, o)
  <2>1. Stride(kernel, o) \in {1, 2} /\ at[o] = m * Stride(kernel, o)
    BY <1>2, CommonIsShortest DEF PlaceIn
  <2> QED BY <1>2, <2>1
<1>3. ASSUME InFours
      PROVE  \A o \in Operands(kernel) :
                ~ Unaligned(o, at[o]) /\ at[o] + TypeAlignment * Stride(kernel, o) <= size[o]
  <2>1. PICK m \in Nat : PlaceIn(m) /\ LegalCall(call)
    BY <1>1, <1>3 DEF InFours, Running
  <2>2. \A o \in Operands(kernel) :
            ~ Unaligned(o, at[o]) /\ (m + 4) * Stride(kernel, o) <= size[o]
    BY <1>3, <2>1, FourAreThere
  <2>3. \A o \in Operands(kernel) :
            at[o] + TypeAlignment * Stride(kernel, o) = (m + 4) * Stride(kernel, o)
    BY <1>2, <2>1 DEF TypeAlignment
  <2> QED BY <2>2, <2>3
<1>4. ASSUME InHead \/ InRest
      PROVE  \A o \in Operands(kernel) :
                \/ at[o] + Stride(kernel, o) <= size[o]
                \/ RunsOver /\ o \in Inputs(kernel)
  <2>1. PICK m \in Nat : PlaceIn(m) /\ LegalCall(call)
    BY <1>1, <1>4 DEF InHead, InRest, Running
  <2>2. \A o \in Operands(kernel) :
            \/ (m + 1) * Stride(kernel, o) <= size[o]
            \/ RunsOver /\ o \in Inputs(kernel)
    BY <1>4, <2>1, OneFits
  <2>3. \A o \in Operands(kernel) :
            at[o] + 1 * Stride(kernel, o) = (m + 1) * Stride(kernel, o)
    BY <1>2, <2>1
  <2>4. \A o \in Operands(kernel) : 1 * Stride(kernel, o) = Stride(kernel, o)
    BY <2>1, CommonIsShortest
  <2> QED BY <2>2, <2>3, <2>4
<1>5. ASSUME phase = "returned", ~ RunsOver
      PROVE  \A o \in Outputs(kernel) : at[o] = Common * Stride(kernel, o)
  BY <1>1, <1>5 DEF Running, PlaceIn, Operands
<1> QED BY <1>3, <1>4, <1>5 DEF AccessesAreLegal

\* A call begins with every pointer at the first element.
LEMMA CallBegins ==
    LegalCall(call) /\ at = Pointers(call) /\ phase = Entry(call) => CallInv /\ PlaceIn(0)
<1> SUFFICES ASSUME LegalCall(call), at = Pointers(call), phase = Entry(call)
             PROVE  CallInv /\ PlaceIn(0)
  OBVIOUS
<1>1. Common \in Nat /\ \A o \in Operands(kernel) : Stride(kernel, o) \in {1, 2}
  BY CommonIsShortest
<1>2. DOMAIN call.size = Operands(kernel)
  BY DEF LegalCall, LegalSpans, kernel
<1>3. at = [o \in Operands(kernel) |-> 0 * Stride(kernel, o)]
  BY <1>1, <1>2 DEF Pointers
<1>4. lanes \in BOOLEAN
  BY DEF LegalCall, lanes
<1>5. /\ phase \in {"loop", "first", "head"}
      /\ phase = "loop" => ~ lanes
      /\ phase = "head" => lanes
      /\ phase = "first" => lanes /\ kernel \in Scans /\ size["in"] > 0
  BY <1>4 DEF Entry, lanes, kernel, size
<1>6. PlaceIn(0)
  BY <1>1, <1>3, <1>5 DEF PlaceIn
<1> QED BY <1>5, <1>6 DEF CallInv, Running

-----------------------------------------------------------------------------
(* Sums and powers.                                                          *)

\* A function of n + 1 numbers, each made of the one before.
Sequel(f, a, g, n) == f[0] = a /\ \A k \in 1 .. n : f[k] = g[k][f[k - 1]]

\* There is such a function.
LEMMA SequelExists ==
    ASSUME NEW S, NEW a \in S, NEW n \in Nat, NEW g \in [1 .. n -> [S -> S]]
    PROVE  \E f \in [0 .. n -> S] : Sequel(f, a, g, n)
<1> DEFINE Reached == {m \in 0 .. n : \E f \in [0 .. m -> S] : Sequel(f, a, g, m)}
<1>1. 0 \in Reached
  <2> DEFINE f == [k \in 0 .. 0 |-> a]
  <2>1. f \in [0 .. 0 -> S] /\ Sequel(f, a, g, 0) /\ 0 \in 0 .. n
    BY DEF Sequel
  <2> HIDE DEF f
  <2> QED BY <2>1, Zenon
<1>2. ASSUME NEW m \in 1 .. n, m - 1 \in Reached PROVE m \in Reached
  <2>1. PICK h \in [0 .. m - 1 -> S] : Sequel(h, a, g, m - 1)
    BY <1>2
  <2> DEFINE f == [k \in 0 .. m |-> IF k = m THEN g[m][h[m - 1]] ELSE h[k]]
  <2>2. h[m - 1] \in S /\ g[m][h[m - 1]] \in S
    OBVIOUS
  <2>3. \A k \in 0 .. m : k # m => k \in 0 .. m - 1 /\ h[k] \in S /\ f[k] = h[k]
    OBVIOUS
  <2>4. f[m] = g[m][h[m - 1]]
    OBVIOUS
  <2>5. f \in [0 .. m -> S]
    BY <2>2, <2>3
  <2> HIDE DEF f
  <2>6. f[0] = a
    BY <2>1, <2>3 DEF Sequel
  <2>7. \A k \in 1 .. m : f[k] = g[k][f[k - 1]]
    <3> TAKE k \in 1 .. m
    <3>1. f[k - 1] = h[k - 1]
      BY <2>3
    <3>2. CASE k = m
      BY <2>4, <3>1, <3>2
    <3>3. CASE k # m
      <4>1. k \in 1 .. m - 1 /\ f[k] = h[k]
        BY <2>3, <3>3
      <4> QED BY <2>1, <3>1, <4>1 DEF Sequel
    <3> QED BY <3>2, <3>3
  <2>8. Sequel(f, a, g, m)
    BY <2>6, <2>7 DEF Sequel
  <2>9. m \in 0 .. n
    OBVIOUS
  <2> QED BY <2>5, <2>8, <2>9, Zenon
<1> HIDE DEF Reached
<1>3. 0 .. n \subseteq Reached
  BY <1>1, <1>2, UpTo
<1>4. n \in Reached
  BY <1>3
<1> QED BY <1>4 DEF Reached

\* What an operand holds up to an index are numbers.
NumbersBefore(o, n) == \A i \in 0 .. n - 1 : G(o, i) \in Int

\* The sums of elements that are numbers are numbers, each the one before and its element.
LEMMA SumsExist ==
    ASSUME NEW n \in Nat, NumbersBefore("in", n)
    PROVE  \E f \in [0 .. n -> Int] :
              /\ f[0] = 0 /\ \A k \in 1 .. n : f[k] = f[k - 1] + Square(G("in", k - 1))
              /\ \A k \in 0 .. n : SumTo(k - 1) = f[k]
<1> DEFINE g == [k \in 1 .. n |-> [x \in Int |-> x + Square(G("in", k - 1))]]
           Sums(f, m) == f = [k \in 0 .. m |-> IF k = 0 THEN 0
                                              ELSE f[k - 1] + Square(G("in", k - 1))]
<1>1. \A k \in 1 .. n : Square(G("in", k - 1)) \in Int
  <2> TAKE k \in 1 .. n
  <2>1. k - 1 \in 0 .. n - 1
    OBVIOUS
  <2>2. PICK x \in Int : x = G("in", k - 1)
    BY <2>1 DEF NumbersBefore
  <2>3. x * x \in Int
    OBVIOUS
  <2> QED BY <2>2, <2>3 DEF Square
<1>2. g \in [1 .. n -> [Int -> Int]]
  BY <1>1
<1>3. PICK f \in [0 .. n -> Int] : Sequel(f, 0, g, n)
  <2>1. 0 \in Int
    OBVIOUS
  <2> QED BY <1>2, <2>1, SequelExists, Zenon
<1>4. f[0] = 0 /\ \A k \in 1 .. n : f[k] = f[k - 1] + Square(G("in", k - 1))
  <2>1. \A k \in 1 .. n : f[k - 1] \in Int
    OBVIOUS
  <2> QED BY <1>3, <2>1 DEF Sequel
<1> HIDE DEF g
<1>5. \A m \in 0 .. n : SumTo(m - 1) = f[m]
  <2> TAKE m \in 0 .. n
  <2> DEFINE h == [k \in 0 .. m |-> f[k]]
             sums == CHOOSE s : Sums(s, m)
  <2>1. Sums(h, m)
    <3>1. \A k \in 0 .. m : k \in 0 .. n /\ (k # 0 => k \in 1 .. n /\ k - 1 \in 0 .. m)
      OBVIOUS
    <3>2. \A k \in 0 .. m : h[k] = IF k = 0 THEN 0 ELSE h[k - 1] + Square(G("in", k - 1))
      BY <1>4, <3>1
    <3> QED BY <3>2
  <2> HIDE DEF h
  <2>2. Sums(sums, m)
    BY <2>1
  <2>3. SumTo(m - 1) = sums[m]
    <3>1. (m - 1) + 1 = m
      OBVIOUS
    <3> QED BY <3>1 DEF SumTo
  <2> HIDE DEF sums
  <2> DEFINE T == {k \in 0 .. m : sums[k] = f[k]}
  <2>4. 0 \in T
    BY <1>4, <2>2
  <2>5. \A k \in 1 .. m : k - 1 \in T => k \in T
    <3> TAKE k \in 1 .. m
    <3> HAVE k - 1 \in T
    <3>1. k \in 0 .. m /\ k # 0 /\ k \in 1 .. n
      OBVIOUS
    <3>2. sums[k] = sums[k - 1] + Square(G("in", k - 1))
      BY <2>2, <3>1
    <3> QED BY <1>4, <3>1, <3>2
  <2> HIDE DEF T
  <2>6. 0 .. m \subseteq T
    <3>1. m \in Nat
      OBVIOUS
    <3> QED BY <2>4, <2>5, <3>1, UpTo
  <2>7. m \in T
    BY <2>6
  <2> QED BY <2>3, <2>7 DEF T
<1> QED BY <1>4, <1>5

LEMMA SumGrows ==
    ASSUME NEW n \in Nat, NumbersBefore("in", n + 1)
    PROVE  /\ SumTo(n) \in Int /\ SumTo(n - 1) \in Int /\ SumTo(-1) = 0
           /\ SumTo(n) = SumTo(n - 1) + Square(G("in", n))
<1>1. PICK f \in [0 .. n + 1 -> Int] :
          /\ f[0] = 0 /\ \A k \in 1 .. n + 1 : f[k] = f[k - 1] + Square(G("in", k - 1))
          /\ \A k \in 0 .. n + 1 : SumTo(k - 1) = f[k]
  <2>1. PICK N \in Nat : N = n + 1
    OBVIOUS
  <2>2. NumbersBefore("in", N)
    BY <2>1
  <2>3. \E f \in [0 .. N -> Int] :
          /\ f[0] = 0 /\ \A k \in 1 .. N : f[k] = f[k - 1] + Square(G("in", k - 1))
          /\ \A k \in 0 .. N : SumTo(k - 1) = f[k]
    BY <2>2, SumsExist
  <2> QED BY <2>1, <2>3
<1>2. SumTo((n + 1) - 1) = f[n + 1] /\ SumTo(n - 1) = f[n] /\ SumTo(0 - 1) = f[0]
  <2>1. n + 1 \in 0 .. n + 1 /\ n \in 0 .. n + 1 /\ 0 \in 0 .. n + 1
    OBVIOUS
  <2> QED BY <1>1, <2>1
<1>3. (n + 1) - 1 = n /\ 0 - 1 = -1
  OBVIOUS
<1>4. f[n + 1] = f[n] + Square(G("in", n))
  <2>1. n + 1 \in 1 .. n + 1
    OBVIOUS
  <2> QED BY <1>1, <1>3, <2>1
<1>5. f[n + 1] \in Int /\ f[n] \in Int
  OBVIOUS
<1> QED BY <1>1, <1>2, <1>3, <1>4, <1>5

\* The powers of a number.
LEMMA PowerGrows ==
    ASSUME NEW n \in Nat, value \in Int
    PROVE  /\ Power(n) \in Int /\ Power(n + 1) \in Int /\ Power(0) = 1
           /\ Power(n + 1) = Power(n) * value
<1> DEFINE N == n + 1
           g == [k \in 1 .. N |-> [x \in Int |-> x * value]]
           Powers(f, m) == f = [k \in 0 .. m |-> IF k = 0 THEN 1 ELSE f[k - 1] * value]
<1>1. g \in [1 .. N -> [Int -> Int]]
  <2>1. \A x \in Int : x * value \in Int
    OBVIOUS
  <2> QED BY <2>1
<1>2. N \in Nat
  OBVIOUS
<1>3. PICK f \in [0 .. N -> Int] : Sequel(f, 1, g, N)
  <2>1. 1 \in Int
    OBVIOUS
  <2> QED BY <1>1, <1>2, <2>1, SequelExists, Zenon
<1>4. f[0] = 1 /\ \A k \in 1 .. N : f[k] = f[k - 1] * value
  <2>1. \A k \in 1 .. N : f[k - 1] \in Int
    OBVIOUS
  <2> QED BY <1>3, <2>1 DEF Sequel
<1> HIDE DEF g
<1>5. \A m \in 0 .. N : Power(m) = f[m]
  <2> TAKE m \in 0 .. N
  <2> DEFINE h == [k \in 0 .. m |-> f[k]]
             powers == CHOOSE s : Powers(s, m)
  <2>1. Powers(h, m)
    <3>1. \A k \in 0 .. m : k \in 0 .. N /\ (k # 0 => k \in 1 .. N /\ k - 1 \in 0 .. m)
      OBVIOUS
    <3>2. \A k \in 0 .. m : h[k] = IF k = 0 THEN 1 ELSE h[k - 1] * value
      BY <1>4, <3>1
    <3> QED BY <3>2
  <2> HIDE DEF h
  <2>2. Powers(powers, m)
    BY <2>1
  <2>3. Power(m) = powers[m]
    BY DEF Power
  <2> HIDE DEF powers
  <2> DEFINE T == {k \in 0 .. m : powers[k] = f[k]}
  <2>4. 0 \in T
    BY <1>4, <2>2
  <2>5. \A k \in 1 .. m : k - 1 \in T => k \in T
    <3> TAKE k \in 1 .. m
    <3> HAVE k - 1 \in T
    <3>1. k \in 0 .. m /\ k # 0 /\ k \in 1 .. N
      OBVIOUS
    <3>2. powers[k] = powers[k - 1] * value
      BY <2>2, <3>1
    <3> QED BY <1>4, <3>1, <3>2
  <2> HIDE DEF T
  <2>6. 0 .. m \subseteq T
    <3>1. m \in Nat
      OBVIOUS
    <3> QED BY <2>4, <2>5, <3>1, UpTo
  <2>7. m \in T
    BY <2>6
  <2> QED BY <2>3, <2>7 DEF T
<1>6. n \in 0 .. N /\ N \in 0 .. N /\ 0 \in 0 .. N /\ N \in 1 .. N /\ N - 1 = n
  OBVIOUS
<1>7. f[n] \in Int /\ f[N] \in Int
  BY <1>6
<1> QED BY <1>4, <1>5, <1>6, <1>7

-----------------------------------------------------------------------------
(* What a step reads and writes.                                             *)

ArithmeticKernels == {"add", "addValue", "subtract", "subtractValue", "copy"}

\* A call with what is in its spans: one span may be both input and output of a kernel that
\* reads no output, or then both have the same in them; and what is summed are numbers.
RightCall(c) ==
    LET k == c.kernel
    IN  /\ LegalCall(c) /\ c.inPlace \in BOOLEAN
        /\ DOMAIN c.given = Operands(k)
        /\ \A o \in Operands(k) : DOMAIN c.given[o] = 0 .. c.size[o] - 1
        /\ c.inPlace =>
              /\ k \notin Interleaved \cup {"diff"}
              /\ "in" \in Inputs(k) /\ InPlaceOutput(k) \in Outputs(k)
              /\ c.size["in"] = c.size[InPlaceOutput(k)]
              /\ k \in CalledInPlace \/ c.given["in"] = c.given["out"]
        /\ k \in Ramps \cup Means \cup Indexings => c.value \in Int /\ c.start \in Int
        /\ k \in Scans \cup Means \cup Indexings \cup {"sfzInterpolationCast"} =>
              \A i \in 0 .. c.size["in"] - 1 : c.given["in"][i] \in Int
        /\ k \in Indexings =>
              /\ c.start \in 0 .. LoopEnd - 1
              /\ \A i \in 0 .. c.size["in"] - 1 : c.given["in"][i] \in 0 .. 5

\* What is behind the pointers is as it was.
Untouched(m) ==
    /\ DOMAIN memory = Operands(kernel)
    /\ \A o \in Operands(kernel) :
          /\ DOMAIN memory[o] = 0 .. size[o] - 1
          /\ \A i \in 0 .. size[o] - 1 :
                o \notin Outputs(kernel) \/ i >= m * Stride(kernel, o) =>
                    memory[o][i] = Contents(call)[o][i]

\* What is written for an element is what it should be.
WrittenIsRight(i, w) ==
    CASE kernel \in Means -> TRUE
      [] kernel = "writeInterleaved" -> w["out"] = <<G("left", i), G("right", i)>>
      [] kernel \in Indexings \cup {"sfzInterpolationCast"} ->
            /\ 4 * w["index"][1] + w["right"][1] = Position(i)
            /\ w["right"][1] \in 0 .. 4
            /\ w["left"][1] = 4 - w["right"][1]
      [] OTHER -> \A o \in Outputs(kernel) : w[o][1] = Written(o, i)

\* The same of some memory.
RightIn(mem, i) ==
    CASE kernel \in Means -> TRUE
      [] kernel = "writeInterleaved" ->
            mem["out"][2 * i] = G("left", i) /\ mem["out"][2 * i + 1] = G("right", i)
      [] kernel \in Indexings \cup {"sfzInterpolationCast"} ->
            /\ 4 * mem["index"][i] + mem["right"][i] = Position(i)
            /\ mem["right"][i] \in 0 .. 4
            /\ mem["left"][i] = 4 - mem["right"][i]
      [] OTHER -> \A o \in Outputs(kernel) : mem[o][i] = Written(o, i)

\* What is handed over after n elements.
CarryIs(n, x) ==
    /\ kernel \in Means => x = start + SumTo(n - 1)
    /\ kernel \in Indexings => x = IF n = 0 THEN start ELSE Position(n - 1)
    /\ kernel \in Ramps => x = IF n = 0 THEN start ELSE Written("out", n - 1)

\* Inputs and outputs are two.
LEMMA InputsAreNoOutputs ==
    /\ \A k : Inputs(k) \cap Outputs(k) = {}
    /\ \A k \in Kernels : Inputs(k) \subseteq {"in", "gain", "left", "right"}
    /\ \A k : "left" \in Inputs(k) \/ "right" \in Inputs(k) => k = "writeInterleaved"
  BY DEF Inputs, Outputs, Ramps, Means, Indexings

\* There is room in each span for an element before the common end.
LEMMA ElementFits ==
    ASSUME LegalCall(call), NEW i \in Nat, i < Common
    PROVE  \A o \in Operands(kernel) :
              /\ (i + 1) * Stride(kernel, o) <= size[o] /\ size[o] \in Nat
              /\ i * Stride(kernel, o) \in Nat /\ Stride(kernel, o) \in {1, 2}
              /\ \A t \in 0 .. Stride(kernel, o) - 1 : i * Stride(kernel, o) + t \in 0 .. size[o] - 1
<1> TAKE o \in Operands(kernel)
<1>1. /\ Stride(kernel, o) \in {1, 2} /\ size[o] \in Nat /\ Common \in Nat
      /\ Common <= Room(o)
  BY CommonIsShortest DEF LegalCall, LegalSpans, kernel, size
<1>2. CASE Stride(kernel, o) = 1
  BY <1>1, <1>2 DEF Room
<1>3. CASE Stride(kernel, o) = 2
  <2>1. i + 1 <= size[o] \div 2
    BY <1>1, <1>3 DEF Room
  <2> QED BY <1>1, <1>3, <2>1
<1> QED BY <1>1, <1>2, <1>3

\* An input, that no output is over, is as it was given.
LEMMA InputIsRead ==
    ASSUME RightCall(call), NEW m \in Nat, PlaceIn(m), Untouched(m),
           NEW o \in Inputs(kernel), NEW j \in Nat, m * Stride(kernel, o) + j < size[o]
    PROVE  V(o, j) = G(o, m * Stride(kernel, o) + j)
<1>1. o \in Operands(kernel) /\ o \notin Outputs(kernel)
  BY InputsAreNoOutputs DEF Operands
<1>2. LegalCall(call)
  BY DEF RightCall
<1>3. Stride(kernel, o) \in {1, 2} /\ size[o] \in Nat
  BY <1>1, <1>2, CommonIsShortest DEF LegalCall, LegalSpans, kernel, size
<1>4. PICK i \in Nat : i = m * Stride(kernel, o) + j
  BY <1>3
<1>5. at[o] + j = i /\ i \in 0 .. size[o] - 1
  BY <1>1, <1>3, <1>4 DEF PlaceIn
<1>6. DOMAIN call.size = Operands(kernel)
  BY <1>2 DEF LegalCall, LegalSpans, kernel
<1>7. Contents(call) = [p \in Operands(kernel) |->
          given[IF inPlace /\ p = InPlaceOutput(kernel) THEN "in" ELSE p]]
  BY <1>6 DEF Contents, given, inPlace, kernel
<1>8. CASE inPlace /\ o = "in"
  <2>1. /\ InPlaceOutput(kernel) \in Outputs(kernel) /\ kernel \notin Interleaved
        /\ size["in"] = size[InPlaceOutput(kernel)]
    BY <1>8 DEF RightCall, inPlace, kernel, size
  <2>2. PICK p : p = InPlaceOutput(kernel)
    OBVIOUS
  <2>3. p \in Operands(kernel) /\ Stride(kernel, p) = 1 /\ Stride(kernel, o) = 1 /\ size[p] = size[o]
    BY <1>8, <2>1, <2>2 DEF Operands, Stride, Interleaved
  <2>4. i >= m * Stride(kernel, p) /\ i \in 0 .. size[p] - 1
    BY <1>4, <1>5, <2>3
  <2>5. memory[p][i] = Contents(call)[p][i] /\ i \in DOMAIN memory[p]
    BY <2>3, <2>4 DEF Untouched
  <2>6. Contents(call)[p] = given["in"]
    BY <1>7, <1>8, <2>2, <2>3
  <2>7. Cell(o) = p
    BY <1>8, <2>2 DEF Cell
  <2> QED BY <1>4, <1>5, <1>8, <2>5, <2>6, <2>7 DEF V, G
<1>9. CASE ~ (inPlace /\ o = "in")
  <2>1. Cell(o) = o
    BY <1>9 DEF Cell
  <2>2. ~ (inPlace /\ o = InPlaceOutput(kernel))
    BY <1>1 DEF RightCall, inPlace, kernel
  <2>3. Contents(call)[o] = given[o]
    BY <1>1, <1>7, <2>2
  <2>4. memory[o][i] = Contents(call)[o][i] /\ i \in DOMAIN memory[o]
    BY <1>1, <1>5 DEF Untouched
  <2> QED BY <1>4, <1>5, <2>1, <2>3, <2>4 DEF V, G
<1> QED BY <1>8, <1>9

\* So is an output that is no input.
LEMMA OutputIsRead ==
    ASSUME RightCall(call), NEW m \in Nat, PlaceIn(m), Untouched(m),
           NEW o \in Outputs(kernel), kernel \notin Interleaved, kernel \notin CalledInPlace,
           NEW j \in Nat, m + j < size[o]
    PROVE  V(o, j) = G(o, m + j)
<1>1. o \in Operands(kernel) /\ o # "in"
  BY DEF Operands, Outputs, Means, Indexings
<1>2. LegalCall(call)
  BY DEF RightCall
<1>3. Stride(kernel, o) = 1 /\ size[o] \in Nat
  BY <1>1, <1>2 DEF LegalCall, LegalSpans, kernel, size, Stride, Interleaved
<1>4. at[o] = m
  BY <1>1, <1>3 DEF PlaceIn
<1>5. Cell(o) = o
  BY <1>1 DEF Cell
<1>6. m + j \in 0 .. size[o] - 1 /\ m + j >= m * Stride(kernel, o)
  BY <1>3
<1>7. memory[o][m + j] = Contents(call)[o][m + j] /\ m + j \in DOMAIN memory[o]
  BY <1>1, <1>6 DEF Untouched
<1>8. DOMAIN call.size = Operands(kernel)
  BY <1>2 DEF LegalCall, LegalSpans, kernel
<1>9. Contents(call)[o] = given[IF inPlace /\ o = InPlaceOutput(kernel) THEN "in" ELSE o]
  BY <1>1, <1>8 DEF Contents, given, inPlace, kernel
<1>10. inPlace /\ o = InPlaceOutput(kernel) => given["in"] = given[o]
  <2> HAVE inPlace /\ o = InPlaceOutput(kernel)
  <2>1. kernel # "sfzInterpolationCast"
    BY DEF CalledInPlace
  <2>2. o = "out"
    BY <2>1 DEF InPlaceOutput
  <2> QED BY <2>2 DEF RightCall, inPlace, given, kernel
<1>11. Contents(call)[o] = given[o]
  BY <1>9, <1>10
<1> QED BY <1>4, <1>5, <1>7, <1>11 DEF V, G

\* The n elements from the m-th on have what was written for them.
Writes(m, n, w) ==
    \A o \in Outputs(kernel), j \in 0 .. n - 1 : \A t \in 0 .. Stride(kernel, o) - 1 :
        (m + j) * Stride(kernel, o) + t < size[o] =>
            memory'[o][(m + j) * Stride(kernel, o) + t] = w[j][o][1 + t]

\* What a step of n elements does to the memory.
LEMMA AdvanceWrites ==
    ASSUME RightCall(call), NEW m \in Nat, PlaceIn(m), Untouched(m), NEW n \in {1, 4}, NEW w,
           Advance(n, w)
    PROVE  /\ DOMAIN memory' = Operands(kernel)
           /\ \A o \in Operands(kernel) : DOMAIN memory'[o] = 0 .. size[o] - 1
           /\ \A o \in Operands(kernel) : \A i \in 0 .. size[o] - 1 :
                 \/ o \notin Outputs(kernel)
                 \/ i >= (m + n) * Stride(kernel, o)
                 \/ i < m * Stride(kernel, o)
                 => memory'[o][i] = memory[o][i]
           /\ Writes(m, n, w)
<1>1. /\ DOMAIN memory = Operands(kernel)
      /\ \A o \in Operands(kernel) : DOMAIN memory[o] = 0 .. size[o] - 1
  BY DEF Untouched
<1>2. \A o \in Operands(kernel) : /\ Stride(kernel, o) \in {1, 2} /\ size[o] \in Nat
                                  /\ at[o] = m * Stride(kernel, o)
  BY CommonIsShortest DEF RightCall, LegalCall, LegalSpans, kernel, size, PlaceIn
<1>3. memory' = [o \in Operands(kernel) |-> [i \in 0 .. size[o] - 1 |->
          IF o \in Outputs(kernel) /\ i >= at[o] /\ (i - at[o]) \div Stride(kernel, o) < n
          THEN w[(i - at[o]) \div Stride(kernel, o)][o][1 + ((i - at[o]) % Stride(kernel, o))]
          ELSE memory[o][i]]]
  BY <1>1 DEF Advance
<1>4. ASSUME NEW o \in Operands(kernel), NEW i \in 0 .. size[o] - 1,
             \/ o \notin Outputs(kernel)
             \/ i >= (m + n) * Stride(kernel, o)
             \/ i < m * Stride(kernel, o)
      PROVE  memory'[o][i] = memory[o][i]
  <2>1. ~ (o \in Outputs(kernel) /\ i >= at[o] /\ (i - at[o]) \div Stride(kernel, o) < n)
    <3>1. CASE Stride(kernel, o) = 1
      BY <1>2, <1>4, <3>1
    <3>2. CASE Stride(kernel, o) = 2
      BY <1>2, <1>4, <3>2
    <3> QED BY <1>2, <3>1, <3>2
  <2> QED BY <1>3, <2>1
<1>5. ASSUME NEW o \in Outputs(kernel), NEW j \in 0 .. n - 1, NEW t \in 0 .. Stride(kernel, o) - 1,
             (m + j) * Stride(kernel, o) + t < size[o]
      PROVE  memory'[o][(m + j) * Stride(kernel, o) + t] = w[j][o][1 + t]
  <2>1. o \in Operands(kernel)
    BY DEF Operands
  <2>2. PICK i : i = (m + j) * Stride(kernel, o) + t
    OBVIOUS
  <2>3. /\ i \in 0 .. size[o] - 1 /\ i >= at[o]
        /\ (i - at[o]) \div Stride(kernel, o) = j /\ (i - at[o]) % Stride(kernel, o) = t /\ j < n
    <3>1. CASE Stride(kernel, o) = 1
      BY <1>2, <1>5, <2>1, <2>2, <3>1
    <3>2. CASE Stride(kernel, o) = 2
      BY <1>2, <1>5, <2>1, <2>2, <3>2
    <3> QED BY <1>2, <2>1, <3>1, <3>2
  <2>4. memory'[o][i] = w[j][o][1 + t]
    BY <1>3, <2>1, <2>3
  <2> QED BY <2>2, <2>4
<1>6. Writes(m, n, w)
  BY <1>5 DEF Writes
<1> QED BY <1>3, <1>4, <1>6

LEMMA UntouchedGoesOn ==
    ASSUME RightCall(call), NEW m \in Nat, PlaceIn(m), Untouched(m), NEW n \in {1, 4}, NEW w,
           Advance(n, w), call' = call
    PROVE  Untouched(m + n)'
<1>1. kernel' = kernel /\ size' = size /\ Contents(call)' = Contents(call)
  BY DEF kernel, size, Contents
<1>2. /\ DOMAIN memory' = Operands(kernel)
      /\ \A o \in Operands(kernel) : DOMAIN memory'[o] = 0 .. size[o] - 1
      /\ \A o \in Operands(kernel) : \A i \in 0 .. size[o] - 1 :
            \/ o \notin Outputs(kernel)
            \/ i >= (m + n) * Stride(kernel, o)
            \/ i < m * Stride(kernel, o)
            => memory'[o][i] = memory[o][i]
  BY AdvanceWrites
<1>3. ASSUME NEW o \in Operands(kernel), NEW i \in 0 .. size[o] - 1,
             o \notin Outputs(kernel) \/ i >= (m + n) * Stride(kernel, o)
      PROVE  memory'[o][i] = Contents(call)[o][i]
  <2>1. o \in Outputs(kernel) => i >= m * Stride(kernel, o)
    <3>1. Stride(kernel, o) \in {1, 2} /\ size[o] \in Nat
      BY CommonIsShortest DEF RightCall, LegalCall, LegalSpans, kernel, size
    <3> QED BY <1>3, <3>1
  <2>2. memory[o][i] = Contents(call)[o][i]
    BY <1>3, <2>1 DEF Untouched
  <2> QED BY <1>2, <1>3, <2>2
<1> QED BY <1>1, <1>2, <1>3 DEF Untouched

\* The reference depends on the call alone.
LEMMA ReferenceStays ==
    ASSUME call' = call
    PROVE  /\ kernel' = kernel /\ given' = given /\ start' = start /\ value' = value
           /\ size' = size /\ lanes' = lanes /\ Common' = Common
           /\ \A o, k : G(o, k)' = G(o, k)
           /\ \A i : SumTo(i)' = SumTo(i) /\ Position(i)' = Position(i)
           /\ \A o, i : Written(o, i)' = Written(o, i)
<1>1. /\ kernel' = kernel /\ given' = given /\ start' = start /\ value' = value
      /\ size' = size /\ lanes' = lanes
  BY DEF kernel, given, start, value, size, lanes
<1>2. \A o, k : G(o, k)' = G(o, k)
  BY <1>1 DEF G
<1>3. \A x : Square(x)' = Square(x)
  BY <1>1 DEF Square
<1>4. \A i : SumTo(i)' = SumTo(i)
  BY <1>2, <1>3 DEF SumTo
<1>5. \A i : Power(i)' = Power(i)
  BY <1>1 DEF Power
<1>6. \A i : Position(i)' = Position(i)
  BY <1>1, <1>2, <1>4 DEF Position
<1>7. \A o, i : Written(o, i)' = Written(o, i)
  BY <1>1, <1>2, <1>4, <1>5, ZenonT(60) DEF Written
<1>8. Common' = Common
  BY <1>1 DEF Common, Room
<1> QED BY <1>1, <1>2, <1>4, <1>6, <1>7, <1>8

LEMMA RightIsRightIn ==
    /\ \A i : ElementIsRight(i) <=> RightIn(memory, i)
    /\ call' = call => \A i : ElementIsRight(i)' <=> RightIn(memory', i)
<1>1. \A i : ElementIsRight(i) <=> RightIn(memory, i)
  BY DEF ElementIsRight, RightIn
<1>2. ASSUME call' = call
      PROVE  \A i : ElementIsRight(i)' <=> RightIn(memory', i)
  BY <1>2, ReferenceStays DEF ElementIsRight, RightIn
<1> QED BY <1>1, <1>2

\* What is before the pointers stays right.
LEMMA OldStayRight ==
    ASSUME RightCall(call), NEW m \in Nat, PlaceIn(m), Untouched(m), NEW n \in {1, 4}, NEW w,
           Advance(n, w), NEW i \in 0 .. m - 1, i < Common, RightIn(memory, i)
    PROVE  RightIn(memory', i)
<1>1. LegalCall(call) /\ i \in Nat /\ i + 1 <= m
  BY DEF RightCall
<1>2. \A o \in Operands(kernel) :
              /\ (i + 1) * Stride(kernel, o) <= size[o] /\ size[o] \in Nat
              /\ i * Stride(kernel, o) \in Nat /\ Stride(kernel, o) \in {1, 2}
              /\ \A t \in 0 .. Stride(kernel, o) - 1 : i * Stride(kernel, o) + t \in 0 .. size[o] - 1
  BY <1>1, ElementFits
<1>3. \A o \in Operands(kernel) : \A j \in 0 .. size[o] - 1 :
          j < m * Stride(kernel, o) => memory'[o][j] = memory[o][j]
  BY AdvanceWrites
<1>4. CASE kernel = "writeInterleaved"
  <2>1. "out" \in Operands(kernel) /\ Stride(kernel, "out") = 2
    BY <1>4 DEF Operands, Outputs, Means, Indexings, Stride
  <2>2. 2 * i \in 0 .. size["out"] - 1 /\ 2 * i + 1 \in 0 .. size["out"] - 1
    BY <1>1, <1>2, <2>1
  <2>3. 2 * i < m * 2 /\ 2 * i + 1 < m * 2
    BY <1>1
  <2>4. memory'["out"][2 * i] = memory["out"][2 * i]
        /\ memory'["out"][2 * i + 1] = memory["out"][2 * i + 1]
    BY <1>3, <2>1, <2>2, <2>3
  <2> QED BY <1>4, <2>4 DEF RightIn, Means, Indexings
<1>5. CASE kernel # "writeInterleaved"
  <2>1. \A o \in Outputs(kernel) : o \in Operands(kernel) /\ Stride(kernel, o) = 1
    BY <1>5 DEF Operands, Outputs, Means, Indexings, Stride
  <2>2. \A o \in Outputs(kernel) : memory'[o][i] = memory[o][i]
    <3> TAKE o \in Outputs(kernel)
    <3>1. i < m * Stride(kernel, o) /\ i \in 0 .. size[o] - 1
      BY <1>1, <1>2, <2>1
    <3> QED BY <1>3, <2>1, <3>1
  <2>3. CASE kernel \in Indexings \cup {"sfzInterpolationCast"}
    <3>1. Outputs(kernel) = {"index", "left", "right"}
      BY <2>3 DEF Outputs, Means, Indexings
    <3> QED BY <1>5, <2>2, <2>3, <3>1 DEF RightIn
  <2>4. CASE kernel \notin Indexings \cup {"sfzInterpolationCast"}
    BY <1>5, <2>2, <2>4 DEF RightIn
  <2> QED BY <2>3, <2>4
<1> QED BY <1>4, <1>5

\* What is written right is right there.
LEMMA NewAreRight ==
    ASSUME RightCall(call), NEW m \in Nat, PlaceIn(m), Untouched(m), NEW n \in {1, 4}, NEW w,
           Advance(n, w), NEW j \in 0 .. n - 1, m + j < Common, WrittenIsRight(m + j, w[j])
    PROVE  RightIn(memory', m + j)
<1>1. PICK i \in Nat : i = m + j
  OBVIOUS
<1>2. \A o \in Operands(kernel) :
              /\ (i + 1) * Stride(kernel, o) <= size[o] /\ size[o] \in Nat
              /\ i * Stride(kernel, o) \in Nat /\ Stride(kernel, o) \in {1, 2}
              /\ \A t \in 0 .. Stride(kernel, o) - 1 : i * Stride(kernel, o) + t \in 0 .. size[o] - 1
  BY <1>1, ElementFits DEF RightCall
<1>3. \A o \in Outputs(kernel) : \A t \in 0 .. Stride(kernel, o) - 1 :
          i * Stride(kernel, o) + t < size[o] =>
              memory'[o][i * Stride(kernel, o) + t] = w[j][o][1 + t]
  <2>1. Writes(m, n, w)
    BY AdvanceWrites
  <2> QED BY <1>1, <2>1, Zenon DEF Writes
<1>4. CASE kernel = "writeInterleaved"
  <2>1. "out" \in Outputs(kernel) /\ "out" \in Operands(kernel) /\ Stride(kernel, "out") = 2
    BY <1>4 DEF Operands, Outputs, Means, Indexings, Stride
  <2>2. i * 2 = 2 * i /\ 2 * i < size["out"] /\ 2 * i + 1 < size["out"]
        /\ size["out"] \in Nat
    BY <1>2, <2>1
  <2>3. memory'["out"][2 * i] = w[j]["out"][1]
    <3>1. i * 2 + 0 = 2 * i /\ 1 + 0 = 1 /\ 0 \in 0 .. 2 - 1
      OBVIOUS
    <3> QED BY <1>3, <2>1, <2>2, <3>1
  <2>4. memory'["out"][2 * i + 1] = w[j]["out"][2]
    <3>1. i * 2 + 1 = 2 * i + 1 /\ 1 + 1 = 2 /\ 1 \in 0 .. 2 - 1
      OBVIOUS
    <3> QED BY <1>3, <2>1, <2>2, <3>1
  <2>5. w[j]["out"] = <<G("left", i), G("right", i)>>
    BY <1>1, <1>4 DEF WrittenIsRight, Means, Indexings
  <2> QED BY <1>1, <1>4, <2>3, <2>4, <2>5 DEF RightIn, Means, Indexings
<1>5. CASE kernel # "writeInterleaved"
  <2>1. \A o \in Outputs(kernel) : o \in Operands(kernel) /\ Stride(kernel, o) = 1
    BY <1>5 DEF Operands, Outputs, Means, Indexings, Stride
  <2>2. \A o \in Outputs(kernel) : memory'[o][i] = w[j][o][1]
    <3> TAKE o \in Outputs(kernel)
    <3>1. i * 1 + 0 = i /\ 1 + 0 = 1 /\ 0 \in 0 .. 1 - 1 /\ i < size[o]
      BY <1>2, <2>1
    <3> QED BY <1>3, <2>1, <3>1
  <2>3. CASE kernel \in Indexings \cup {"sfzInterpolationCast"}
    <3>1. Outputs(kernel) = {"index", "left", "right"}
      BY <2>3 DEF Outputs, Means, Indexings
    <3> QED BY <1>1, <1>5, <2>2, <2>3, <3>1 DEF RightIn, WrittenIsRight
  <2>4. CASE kernel \notin Indexings \cup {"sfzInterpolationCast"}
    BY <1>1, <1>5, <2>2, <2>4 DEF RightIn, WrittenIsRight
  <2> QED BY <2>3, <2>4
<1> QED BY <1>4, <1>5

-----------------------------------------------------------------------------
(* Kernels, element by element.                                              *)

\* A call whose pointers are at the m-th element.
At(m) == RightCall(call) /\ PlaceIn(m) /\ Untouched(m)

\* What a kernel reads of the element j from there on.
LEMMA ReadAhead ==
    ASSUME NEW m \in Nat, At(m), kernel \notin Interleaved, NEW j \in Nat, m + j < Common
    PROVE  /\ \A o \in Inputs(kernel) : V(o, j) = G(o, m + j)
           /\ kernel \notin CalledInPlace => \A o \in Outputs(kernel) : V(o, j) = G(o, m + j)
<1>1. \A o \in Operands(kernel) : Stride(kernel, o) = 1 /\ m + j < size[o]
  <2> TAKE o \in Operands(kernel)
  <2>1. Stride(kernel, o) = 1
    BY DEF Stride, Interleaved
  <2>2. (m + j + 1) * Stride(kernel, o) <= size[o] /\ size[o] \in Nat
    <3>1. m + j \in Nat /\ LegalCall(call)
      BY DEF At, RightCall
    <3> QED BY <3>1, ElementFits
  <2> QED BY <2>1, <2>2
<1>2. ASSUME NEW o \in Inputs(kernel)
      PROVE  V(o, j) = G(o, m + j)
  <2>1. o \in Operands(kernel)
    BY DEF Operands
  <2>2. m * Stride(kernel, o) + j = m + j
    BY <1>1, <2>1
  <2> QED BY <1>1, <2>1, <2>2, InputIsRead DEF At
<1>3. ASSUME kernel \notin CalledInPlace, NEW o \in Outputs(kernel)
      PROVE  V(o, j) = G(o, m + j)
  <2>1. o \in Operands(kernel)
    BY DEF Operands
  <2> QED BY <1>1, <1>3, <2>1, OutputIsRead DEF At
<1> QED BY <1>2, <1>3

LEMMA ReadInterleavedIsRight ==
    ASSUME NEW m \in Nat, At(m), kernel = "readInterleaved", NEW j \in Nat, m + j < Common
    PROVE  WrittenIsRight(m + j, Interleaving(j))
<1>1. /\ "in" \in Inputs(kernel) /\ "in" \in Operands(kernel) /\ Stride(kernel, "in") = 2
      /\ Outputs(kernel) = {"left", "right"}
  BY DEF Operands, Inputs, Outputs, Ramps, Means, Indexings, Stride
<1>2. (m + j + 1) * 2 <= size["in"] /\ size["in"] \in Nat
  <2>1. m + j \in Nat /\ LegalCall(call)
    BY DEF At, RightCall
  <2> QED BY <1>1, <2>1, ElementFits
<1>3. V("in", 2 * j) = G("in", 2 * (m + j))
  <2>1. 2 * j \in Nat /\ m * 2 + 2 * j = 2 * (m + j) /\ m * 2 + 2 * j < size["in"]
    BY <1>2
  <2>2. V("in", 2 * j) = G("in", m * 2 + 2 * j)
    BY <1>1, <2>1, InputIsRead DEF At
  <2> QED BY <2>1, <2>2
<1>4. V("in", 2 * j + 1) = G("in", 2 * (m + j) + 1)
  <2>1. 2 * j + 1 \in Nat /\ m * 2 + (2 * j + 1) = 2 * (m + j) + 1
        /\ m * 2 + (2 * j + 1) < size["in"]
    BY <1>2
  <2>2. V("in", 2 * j + 1) = G("in", m * 2 + (2 * j + 1))
    BY <1>1, <2>1, InputIsRead DEF At
  <2> QED BY <2>1, <2>2
<1>5. /\ Interleaving(j)["left"][1] = G("in", 2 * (m + j))
      /\ Interleaving(j)["right"][1] = G("in", 2 * (m + j) + 1)
  BY <1>3, <1>4 DEF Interleaving
<1>6. \A o \in {"left", "right"} :
          Written(o, m + j) = G("in", IF o = "left" THEN 2 * (m + j) ELSE 2 * (m + j) + 1)
  BY DEF Written, MathFunctions
<1>7. \A o \in Outputs(kernel) : Interleaving(j)[o][1] = Written(o, m + j)
  BY <1>1, <1>5, <1>6
<1> QED BY <1>7 DEF WrittenIsRight, Means, Indexings

LEMMA WriteInterleavedIsRight ==
    ASSUME NEW m \in Nat, At(m), kernel = "writeInterleaved", NEW j \in Nat, m + j < Common
    PROVE  WrittenIsRight(m + j, Interleaving(j))
<1>1. /\ Inputs(kernel) = {"left", "right"} /\ {"left", "right"} \subseteq Operands(kernel)
      /\ Stride(kernel, "left") = 1 /\ Stride(kernel, "right") = 1
  BY DEF Operands, Inputs, Outputs, Ramps, Means, Indexings, Stride
<1>2. \A o \in {"left", "right"} : m * 1 + j < size[o]
  <2>1. m + j \in Nat /\ LegalCall(call)
    BY DEF At, RightCall
  <2>2. \A o \in {"left", "right"} : (m + j + 1) * 1 <= size[o] /\ size[o] \in Nat
    BY <1>1, <2>1, ElementFits
  <2> QED BY <2>2
<1>3. \A o \in {"left", "right"} : V(o, j) = G(o, m * 1 + j)
  BY <1>1, <1>2, InputIsRead DEF At
<1>4. m * 1 + j = m + j
  OBVIOUS
<1>5. Interleaving(j)["out"] = <<G("left", m + j), G("right", m + j)>>
  BY <1>3, <1>4 DEF Interleaving
<1> QED BY <1>5 DEF WrittenIsRight, Means, Indexings

LEMMA GainIsRight ==
    ASSUME NEW m \in Nat, At(m), kernel \in Gains3, NEW j \in Nat, m + j < Common
    PROVE  WrittenIsRight(m + j, Gain(j))
<1>1. Outputs(kernel) = {"out"} /\ kernel \notin Interleaved
  BY DEF Outputs, Gains3, Means, Indexings, Interleaved
<1>2. SUFFICES Gain(j)["out"][1] = Written("out", m + j)
  BY <1>1 DEF WrittenIsRight, Gains3, Means, Indexings
<1>3. CASE kernel = "applyGain"
  <2>1. "in" \in Inputs(kernel)
    BY <1>3 DEF Inputs, Ramps
  <2>2. V("in", j) = G("in", m + j)
    BY <1>1, <2>1, ReadAhead
  <2> QED BY <1>3, <2>2 DEF Gain, Written, MathFunctions
<1>4. CASE kernel = "applyGainSpan"
  <2>1. "in" \in Inputs(kernel) /\ "gain" \in Inputs(kernel)
    BY <1>4 DEF Inputs, Ramps
  <2>2. V("in", j) = G("in", m + j) /\ V("gain", j) = G("gain", m + j)
    BY <1>1, <2>1, ReadAhead
  <2> QED BY <1>4, <2>2 DEF Gain, Written, MathFunctions
<1>5. CASE kernel = "multiplyAdd"
  <2>1. /\ "in" \in Inputs(kernel) /\ "gain" \in Inputs(kernel)
        /\ kernel \notin CalledInPlace /\ "out" \in Outputs(kernel)
    BY <1>1, <1>5 DEF Inputs, Ramps, CalledInPlace
  <2>2. /\ V("in", j) = G("in", m + j) /\ V("gain", j) = G("gain", m + j)
        /\ V("out", j) = G("out", m + j)
    BY <1>1, <2>1, ReadAhead
  <2> QED BY <1>5, <2>2 DEF Gain, Written, MathFunctions
<1> QED BY <1>3, <1>4, <1>5 DEF Gains3

LEMMA ArithmeticIsRight ==
    ASSUME NEW m \in Nat, At(m), kernel \in ArithmeticKernels, NEW j \in Nat, m + j < Common
    PROVE  WrittenIsRight(m + j, Arithmetic(j))
<1>1. /\ Outputs(kernel) = {"out"} /\ kernel \notin Interleaved /\ kernel \notin CalledInPlace
      /\ kernel \in {"add", "subtract", "copy"} => "in" \in Inputs(kernel)
  BY DEF Inputs, Outputs, ArithmeticKernels, Ramps, Means, Indexings, Interleaved, CalledInPlace
<1>2. SUFFICES Arithmetic(j)["out"][1] = Written("out", m + j)
  BY <1>1 DEF WrittenIsRight, ArithmeticKernels, Means, Indexings
<1>3. V("out", j) = G("out", m + j)
  BY <1>1, ReadAhead
<1>4. kernel \in {"add", "subtract", "copy"} => V("in", j) = G("in", m + j)
  BY <1>1, ReadAhead
<1>5. CASE kernel = "add"
  BY <1>3, <1>4, <1>5 DEF Arithmetic, Written, MathFunctions
<1>6. CASE kernel = "addValue"
  BY <1>3, <1>6 DEF Arithmetic, Written, MathFunctions
<1>7. CASE kernel = "subtract"
  BY <1>3, <1>4, <1>7 DEF Arithmetic, Written, MathFunctions
<1>8. CASE kernel = "subtractValue"
  BY <1>3, <1>8 DEF Arithmetic, Written, MathFunctions
<1>9. CASE kernel = "copy"
  BY <1>4, <1>9 DEF Arithmetic, Written, MathFunctions
<1> QED BY <1>5, <1>6, <1>7, <1>8, <1>9 DEF ArithmeticKernels

LEMMA MathIsRight ==
    ASSUME NEW m \in Nat, At(m), kernel \in MathFunctions, NEW j \in Nat, m + j < Common
    PROVE  WrittenIsRight(m + j, MathFunction(kernel, j))
<1>1. Outputs(kernel) = {"out"} /\ kernel \notin Interleaved /\ "in" \in Inputs(kernel)
  BY DEF Inputs, Outputs, MathFunctions, Ramps, Means, Indexings, Interleaved
<1>2. V("in", j) = G("in", m + j)
  BY <1>1, ReadAhead
<1>3. MathFunction(kernel, j)["out"][1] = Math(kernel, G("in", m + j))
  BY <1>2 DEF MathFunction
<1>4. Written("out", m + j) = Math(kernel, G("in", m + j))
  BY DEF Written, MathFunctions
<1> QED BY <1>1, <1>3, <1>4 DEF WrittenIsRight, MathFunctions, Means, Indexings

LEMMA FillIsRight ==
    ASSUME kernel = "fill", NEW i
    PROVE  WrittenIsRight(i, [out |-> <<value>>])
<1>1. Outputs(kernel) = {"out"} /\ Written("out", i) = value
  BY DEF Outputs, Means, Indexings, Written, MathFunctions
<1> QED BY <1>1 DEF WrittenIsRight, Means, Indexings

LEMMA PanIsRight ==
    ASSUME NEW m \in Nat, At(m), kernel = "pan", m < Common
    PROVE  WrittenIsRight(m, Panned(V("in", 0), 0))
<1>1. /\ Outputs(kernel) = {"left", "right"} /\ kernel \notin Interleaved
      /\ "in" \in Inputs(kernel) /\ kernel \notin CalledInPlace
  BY DEF Inputs, Outputs, Ramps, Means, Indexings, Interleaved, CalledInPlace
<1>2. m + 0 = m
  OBVIOUS
<1>3. V("in", 0) = G("in", m) /\ V("left", 0) = G("left", m) /\ V("right", 0) = G("right", m)
  BY <1>1, <1>2, ReadAhead
<1>4. /\ Panned(V("in", 0), 0)["left"][1] = G("left", m) * Math("cos", PiFour * (1 + G("in", m)))
      /\ Panned(V("in", 0), 0)["right"][1] = G("right", m) * Math("sin", PiFour * (1 + G("in", m)))
  BY <1>3 DEF Panned
<1>5. /\ Written("left", m) = G("left", m) * Math("cos", PiFour * (1 + G("in", m)))
      /\ Written("right", m) = G("right", m) * Math("sin", PiFour * (1 + G("in", m)))
  BY DEF Written, MathFunctions
<1> QED BY <1>1, <1>4, <1>5 DEF WrittenIsRight, Means, Indexings

\* A position is an index and its weights, also as the SSE loops convert it.
LEMMA PositionsAreWeighed ==
    ASSUME NEW x \in Int
    PROVE  \A w \in {Truncated(x), Converted(x)} :
              /\ 4 * w["index"][1] + w["right"][1] = x
              /\ w["right"][1] \in 0 .. 4
              /\ w["left"][1] = 4 - w["right"][1]
<1>1. PICK q \in Int, r \in 0 .. 3 : q = x \div 4 /\ r = x % 4 /\ x = 4 * q + r
  OBVIOUS
<1>2. \A index, right : /\ Weighed(index, right)["index"][1] = index
                        /\ Weighed(index, right)["right"][1] = right
                        /\ Weighed(index, right)["left"][1] = 4 - right
  BY DEF Weighed
<1>3. Truncated(x) = Weighed(q, r)
  BY <1>1 DEF Truncated
<1>4. 4 * q + r = x /\ r \in 0 .. 4
  BY <1>1
<1>5. CASE x % 8 = 4 /\ x > 4
  <2>1. r = 0 /\ 4 * (q - 1) + 4 = x
    BY <1>1, <1>5
  <2>2. Converted(x) = Weighed(q - 1, 4)
    BY <1>1, <1>5 DEF Converted
  <2> QED BY <1>2, <1>3, <1>4, <2>1, <2>2
<1>6. CASE ~ (x % 8 = 4 /\ x > 4)
  <2>1. Converted(x) = Truncated(x)
    BY <1>6 DEF Converted
  <2> QED BY <1>2, <1>3, <1>4, <2>1
<1> QED BY <1>5, <1>6

LEMMA CastIsRight ==
    ASSUME NEW m \in Nat, At(m), kernel = "sfzInterpolationCast", NEW j \in Nat, m + j < Common
    PROVE  \A w \in {Truncated(V("in", j)), Converted(V("in", j))} : WrittenIsRight(m + j, w)
<1>1. kernel \notin Interleaved /\ "in" \in Inputs(kernel) /\ "in" \in Operands(kernel)
  BY DEF Inputs, Operands, Ramps, Interleaved
<1>2. V("in", j) = G("in", m + j)
  BY <1>1, ReadAhead
<1>3. G("in", m + j) \in Int
  <2>1. Stride(kernel, "in") = 1
    BY DEF Stride
  <2>2. (m + j + 1) * Stride(kernel, "in") <= size["in"] /\ size["in"] \in Nat
    <3>1. m + j \in Nat /\ LegalCall(call)
      BY DEF At, RightCall
    <3> QED BY <1>1, <3>1, ElementFits
  <2>3. m + j \in 0 .. size["in"] - 1
    BY <2>1, <2>2
  <2> QED BY <2>3 DEF At, RightCall, G, given, kernel, size
<1>4. \A w \in {Truncated(V("in", j)), Converted(V("in", j))} :
              /\ 4 * w["index"][1] + w["right"][1] = G("in", m + j)
              /\ w["right"][1] \in 0 .. 4
              /\ w["left"][1] = 4 - w["right"][1]
  BY <1>2, <1>3, PositionsAreWeighed
<1>5. Position(m + j) = G("in", m + j)
  BY DEF Position
<1> QED BY <1>4, <1>5 DEF WrittenIsRight, Means

Summed == Scans \cup Means \cup Indexings

\* The sums go on with the elements that are read.
LEMMA SumsAhead ==
    ASSUME NEW m \in Nat, At(m), kernel \in Summed, NEW j \in Nat, m + j < Common
    PROVE  /\ V("in", j) = G("in", m + j) /\ V("in", j) \in Int
           /\ SumTo(m + j) \in Int /\ SumTo(m + j - 1) \in Int
           /\ SumTo(m + j) = SumTo(m + j - 1) + Square(V("in", j))
           /\ SumTo(-1) = 0
           /\ kernel \in Indexings => V("in", j) \in 0 .. 5
<1>1. /\ "in" \in Inputs(kernel) /\ "in" \in Operands(kernel) /\ kernel \notin Interleaved
      /\ Stride(kernel, "in") = 1
  BY DEF Summed, Scans, Means, Indexings, Inputs, Operands, Ramps, Interleaved, Stride
<1>2. V("in", j) = G("in", m + j)
  BY <1>1, ReadAhead
<1>3. (m + j + 1) * Stride(kernel, "in") <= size["in"] /\ size["in"] \in Nat
  <2>1. m + j \in Nat /\ LegalCall(call)
    BY DEF At, RightCall
  <2> QED BY <1>1, <2>1, ElementFits
<1>4. \A i \in 0 .. m + j : i \in 0 .. size["in"] - 1
  BY <1>1, <1>3
<1>5. \A i \in 0 .. m + j : G("in", i) \in Int
  BY <1>4 DEF At, RightCall, Summed, G, given, kernel, size
<1>6. kernel \in Indexings => \A i \in 0 .. m + j : G("in", i) \in 0 .. 5
  BY <1>4 DEF At, RightCall, G, given, kernel, size
<1>7. PICK n \in Nat : n = m + j
  OBVIOUS
<1>8. NumbersBefore("in", n + 1)
  <2>1. \A i \in 0 .. (n + 1) - 1 : i \in 0 .. m + j
    BY <1>7
  <2> QED BY <1>5, <2>1 DEF NumbersBefore
<1>9. /\ SumTo(n) \in Int /\ SumTo(n - 1) \in Int /\ SumTo(-1) = 0
      /\ SumTo(n) = SumTo(n - 1) + Square(G("in", n))
  BY <1>8, SumGrows
<1>10. n \in 0 .. m + j
  BY <1>7
<1> QED BY <1>2, <1>5, <1>6, <1>7, <1>9, <1>10

\* The next four sums.
LEMMA FourSumsAhead ==
    ASSUME NEW m \in Nat, At(m), kernel \in Summed, m + 4 <= Common
    PROVE  /\ SumTo(m - 1) \in Int
           /\ \A j \in Lanes : V("in", j) \in Int /\ V("in", j) = G("in", m + j)
           /\ SumTo(m) = SumTo(m - 1) + Square(V("in", 0))
           /\ SumTo(m + 1) = SumTo(m - 1) + Square(V("in", 0)) + Square(V("in", 1))
           /\ SumTo(m + 2) = SumTo(m - 1) + Square(V("in", 0)) + Square(V("in", 1))
                                 + Square(V("in", 2))
           /\ SumTo(m + 3) = SumTo(m - 1) + Square(V("in", 0)) + Square(V("in", 1))
                                 + Square(V("in", 2)) + Square(V("in", 3))
           /\ \A j \in Lanes : SumTo(m + j) \in Int
           /\ SumTo(-1) = 0
           /\ kernel \in Indexings => \A j \in Lanes : V("in", j) \in 0 .. 5
<1>1. Lanes = 0 .. 3 /\ Common \in Nat
  BY CommonIsShortest DEF Lanes, TypeAlignment, At, RightCall
<1>2. \A j \in Lanes : j \in Nat /\ m + j < Common
  BY <1>1
<1>3. \A j \in Lanes :
           /\ V("in", j) = G("in", m + j) /\ V("in", j) \in Int
           /\ SumTo(m + j) \in Int /\ SumTo(m + j - 1) \in Int
           /\ SumTo(m + j) = SumTo(m + j - 1) + Square(V("in", j))
           /\ SumTo(-1) = 0
           /\ kernel \in Indexings => V("in", j) \in 0 .. 5
  BY <1>2, SumsAhead
<1>4. 0 \in Lanes /\ 1 \in Lanes /\ 2 \in Lanes /\ 3 \in Lanes
  BY <1>1
<1>5. m + 0 = m /\ m + 1 - 1 = m /\ m + 2 - 1 = m + 1 /\ m + 3 - 1 = m + 2
  OBVIOUS
<1>6. \A j \in Lanes : Square(V("in", j)) \in Int
  <2> TAKE j \in Lanes
  <2>1. PICK x \in Int : x = V("in", j)
    BY <1>3
  <2>2. x * x \in Int
    OBVIOUS
  <2> QED BY <2>1, <2>2 DEF Square
<1>7. SumTo(m) = SumTo(m - 1) + Square(V("in", 0)) /\ SumTo(m - 1) \in Int
  BY <1>3, <1>4, <1>5
<1>8. SumTo(m + 1) = SumTo(m) + Square(V("in", 1))
  BY <1>3, <1>4, <1>5
<1>9. SumTo(m + 2) = SumTo(m + 1) + Square(V("in", 2))
  BY <1>3, <1>4, <1>5
<1>10. SumTo(m + 3) = SumTo(m + 2) + Square(V("in", 3))
  BY <1>3, <1>4, <1>5
<1> QED BY <1>3, <1>4, <1>7, <1>8, <1>9, <1>10

\* Two shifts of four numbers make their sums.
LEMMA PrefixSumsAre ==
    ASSUME NEW f, \A j \in Lanes : f[j] \in Int
    PROVE  /\ PrefixSums(f)[0] = f[0]
           /\ PrefixSums(f)[1] = f[0] + f[1]
           /\ PrefixSums(f)[2] = f[0] + f[1] + f[2]
           /\ PrefixSums(f)[3] = f[0] + f[1] + f[2] + f[3]
<1>1. Lanes = {0, 1, 2, 3}
  BY DEF Lanes, TypeAlignment
<1> DEFINE pairs == Plus(f, Shifted(f, 1))
<1>2. \A g, n : \A j \in Lanes : Shifted(g, n)[j] = IF j < n THEN 0 ELSE g[j - n]
  BY DEF Shifted
<1>3. \A g, h : \A j \in Lanes : Plus(g, h)[j] = g[j] + h[j]
  BY DEF Plus
<1>4. /\ Shifted(f, 1)[0] = 0 /\ Shifted(f, 1)[1] = f[0]
      /\ Shifted(f, 1)[2] = f[1] /\ Shifted(f, 1)[3] = f[2]
  <2>1. 1 - 1 = 0 /\ 2 - 1 = 1 /\ 3 - 1 = 2
    OBVIOUS
  <2> QED BY <1>1, <1>2, <2>1
<1>5. /\ pairs[0] = f[0] /\ pairs[1] = f[1] + f[0]
      /\ pairs[2] = f[2] + f[1] /\ pairs[3] = f[3] + f[2]
  BY <1>1, <1>3, <1>4
<1> HIDE DEF pairs
<1>6. /\ Shifted(pairs, 2)[0] = 0 /\ Shifted(pairs, 2)[1] = 0
      /\ Shifted(pairs, 2)[2] = pairs[0] /\ Shifted(pairs, 2)[3] = pairs[1]
  <2>1. 2 - 2 = 0 /\ 3 - 2 = 1
    OBVIOUS
  <2> QED BY <1>1, <1>2, <2>1
<1>7. PrefixSums(f) = Plus(pairs, Shifted(pairs, 2))
  BY DEF PrefixSums, pairs
<1> QED BY <1>1, <1>3, <1>5, <1>6, <1>7

-----------------------------------------------------------------------------
(* Means and sums.                                                           *)

LEMMA MeanGoesOn ==
    ASSUME NEW m \in Nat, At(m), kernel \in Means, CarryIs(m, carry)
    PROVE  /\ m < Common => CarryIs(m + 1, carry + Square(V("in", 0)))
           /\ m + 4 <= Common => CarryIs(m + 4, SSE.after)
<1>1. kernel \in Summed /\ kernel \notin Indexings /\ kernel \notin Ramps
  BY DEF Summed, Means, Indexings, Ramps
<1>2. carry = start + SumTo(m - 1) /\ start \in Int
  BY DEF CarryIs, At, RightCall, kernel, start
<1>3. ASSUME m < Common
      PROVE  CarryIs(m + 1, carry + Square(V("in", 0)))
  <2>1. 0 \in Nat /\ m + 0 = m /\ (m + 1) - 1 = m
    OBVIOUS
  <2>2. /\ V("in", 0) \in Int /\ SumTo(m) \in Int /\ SumTo(m - 1) \in Int
        /\ SumTo(m) = SumTo(m - 1) + Square(V("in", 0))
    BY <1>1, <1>3, <2>1, SumsAhead
  <2>3. Square(V("in", 0)) \in Int
    <3>1. \A x \in Int : x * x \in Int
      OBVIOUS
    <3> QED BY <2>2, <3>1 DEF Square
  <2> QED BY <1>1, <1>2, <2>1, <2>2, <2>3 DEF CarryIs
<1>4. ASSUME m + 4 <= Common
      PROVE  CarryIs(m + 4, SSE.after)
  <2>1. SSE.after = carry + Square(V("in", 0)) + Square(V("in", 1)) + Square(V("in", 2))
                          + Square(V("in", 3))
    BY SSEOfKernel DEF MeanSSE, Loops
  <2>2. /\ SumTo(m - 1) \in Int
        /\ \A j \in Lanes : V("in", j) \in Int
        /\ SumTo(m + 3) = SumTo(m - 1) + Square(V("in", 0)) + Square(V("in", 1))
                              + Square(V("in", 2)) + Square(V("in", 3))
    BY <1>1, <1>4, FourSumsAhead
  <2>3. \A j \in Lanes : Square(V("in", j)) \in Int
    <3>1. \A x \in Int : x * x \in Int
      OBVIOUS
    <3> QED BY <2>2, <3>1 DEF Square
  <2>4. 0 \in Lanes /\ 1 \in Lanes /\ 2 \in Lanes /\ 3 \in Lanes /\ (m + 4) - 1 = m + 3
    BY DEF Lanes, TypeAlignment
  <2>5. SSE.after = start + SumTo(m + 3)
    BY <1>2, <2>1, <2>2, <2>3, <2>4
  <2> QED BY <1>1, <2>4, <2>5 DEF CarryIs
<1> QED BY <1>3, <1>4

\* What cumsum has written before.
LEMMA LastIsRead ==
    ASSUME NEW m \in Nat \ {0}, At(m), kernel = "cumsum", m <= Common, RightIn(memory, m - 1)
    PROVE  V("out", -1) = SumTo(m - 1)
<1>1. /\ "out" \in Operands(kernel) /\ "out" \in Outputs(kernel) /\ Stride(kernel, "out") = 1
  BY DEF Operands, Outputs, Means, Indexings, Stride
<1>2. at["out"] = m /\ Cell("out") = "out"
  BY <1>1 DEF At, PlaceIn, Cell
<1>3. m - 1 \in DOMAIN memory["out"] /\ m + -1 = m - 1
  <2>1. m - 1 \in Nat /\ m - 1 < Common /\ LegalCall(call)
    BY CommonIsShortest DEF At, RightCall
  <2>2. (m - 1) * 1 + 0 = m - 1 /\ 0 \in 0 .. 1 - 1
    OBVIOUS
  <2>3. \A t \in 0 .. Stride(kernel, "out") - 1 :
            (m - 1) * Stride(kernel, "out") + t \in 0 .. size["out"] - 1
    BY <1>1, <2>1, ElementFits
  <2> QED BY <1>1, <2>2, <2>3 DEF At, Untouched
<1>4. memory["out"][m - 1] = Written("out", m - 1)
  BY <1>1 DEF RightIn, Means, Indexings
<1>5. Written("out", m - 1) = SumTo(m - 1)
  BY DEF Written, MathFunctions
<1> QED BY <1>2, <1>3, <1>4, <1>5 DEF V

LEMMA CumsumIsRight ==
    ASSUME NEW m \in Nat, At(m), kernel = "cumsum", m > 0 => RightIn(memory, m - 1)
    PROVE  /\ m < Common => WrittenIsRight(m, Scan)
           /\ m > 0 /\ m + 4 <= Common => \A j \in Lanes : WrittenIsRight(m + j, SSE.four[j])
<1>1. /\ Outputs(kernel) = {"out"} /\ kernel \in Summed
      /\ "in" \in Operands(kernel) /\ Stride(kernel, "in") = 1
  BY DEF Operands, Inputs, Outputs, Means, Indexings, Ramps, Stride, Summed, Scans
<1>2. \A i, w : w["out"][1] = SumTo(i) => WrittenIsRight(i, w)
  <2>1. \A i : Written("out", i) = SumTo(i)
    BY DEF Written, MathFunctions
  <2> QED BY <1>1, <2>1 DEF WrittenIsRight, Means, Indexings
<1>3. at["in"] = m
  BY <1>1 DEF At, PlaceIn
<1>4. \A x : Square(x) = x
  BY DEF Square
<1>5. ASSUME m < Common
      PROVE  WrittenIsRight(m, Scan)
  <2>1. 0 \in Nat /\ m + 0 = m
    OBVIOUS
  <2>2. /\ V("in", 0) \in Int /\ SumTo(m) \in Int /\ SumTo(m - 1) \in Int
        /\ SumTo(m) = SumTo(m - 1) + V("in", 0) /\ SumTo(-1) = 0
    BY <1>1, <1>4, <1>5, <2>1, SumsAhead
  <2>3. CASE m = 0
    <3>1. Scan["out"][1] = V("in", 0)
      BY <1>3, <2>3 DEF Scan
    <3>2. 0 - 1 = -1
      OBVIOUS
    <3> QED BY <1>2, <2>2, <2>3, <3>1, <3>2
  <2>4. CASE m # 0
    <3>1. V("out", -1) = SumTo(m - 1)
      BY <1>5, <2>4, LastIsRead, CommonIsShortest DEF At, RightCall
    <3>2. Scan["out"][1] = V("out", -1) + V("in", 0)
      BY <1>3, <2>4 DEF Scan
    <3> QED BY <1>2, <2>2, <3>1, <3>2
  <2> QED BY <2>3, <2>4
<1>6. ASSUME m > 0, m + 4 <= Common
      PROVE  \A j \in Lanes : WrittenIsRight(m + j, SSE.four[j])
  <2>1. V("out", -1) = SumTo(m - 1)
    BY <1>6, LastIsRead, CommonIsShortest DEF At, RightCall
  <2>2. /\ SumTo(m - 1) \in Int
        /\ \A j \in Lanes : V("in", j) \in Int
        /\ SumTo(m) = SumTo(m - 1) + V("in", 0)
        /\ SumTo(m + 1) = SumTo(m - 1) + V("in", 0) + V("in", 1)
        /\ SumTo(m + 2) = SumTo(m - 1) + V("in", 0) + V("in", 1) + V("in", 2)
        /\ SumTo(m + 3) = SumTo(m - 1) + V("in", 0) + V("in", 1) + V("in", 2) + V("in", 3)
    BY <1>1, <1>4, <1>6, FourSumsAhead
  <2>3. Lanes = {0, 1, 2, 3} /\ m + 0 = m
    BY DEF Lanes, TypeAlignment
  <2>4. \A j \in Lanes : Loaded("in")[j] = V("in", j)
    BY DEF Loaded
  <2>5. PICK f : f = Loaded("in")
    OBVIOUS
  <2>6. /\ PrefixSums(f)[0] = V("in", 0)
        /\ PrefixSums(f)[1] = V("in", 0) + V("in", 1)
        /\ PrefixSums(f)[2] = V("in", 0) + V("in", 1) + V("in", 2)
        /\ PrefixSums(f)[3] = V("in", 0) + V("in", 1) + V("in", 2) + V("in", 3)
    <3>1. \A j \in Lanes : f[j] \in Int
      BY <2>2, <2>4, <2>5
    <3> QED BY <2>3, <2>4, <2>5, <3>1, PrefixSumsAre
  <2>7. \A j \in Lanes : SSE.four[j]["out"][1] = V("out", -1) + PrefixSums(f)[j]
    BY <2>5, SSEOfKernel DEF CumsumSSE, Loops
  <2>8. \A j \in Lanes : SSE.four[j]["out"][1] = SumTo(m + j)
    BY <2>1, <2>2, <2>3, <2>6, <2>7
  <2> QED BY <1>2, <2>8
<1> QED BY <1>5, <1>6

LEMMA DiffIsRight ==
    ASSUME NEW m \in Nat, At(m), kernel = "diff"
    PROVE  /\ m < Common => WrittenIsRight(m, Scan)
           /\ m > 0 /\ m + 4 <= Common => \A j \in Lanes : WrittenIsRight(m + j, SSE.four[j])
<1>1. /\ Outputs(kernel) = {"out"} /\ kernel \in Summed /\ kernel \notin Interleaved
      /\ "in" \in Operands(kernel) /\ "in" \in Inputs(kernel) /\ "in" \notin Outputs(kernel)
      /\ Stride(kernel, "in") = 1
  BY DEF Operands, Inputs, Outputs, Means, Indexings, Ramps, Stride, Summed, Scans, Interleaved
<1>2. ASSUME NEW i, NEW w, w["out"][1] = G("in", i) - (IF i = 0 THEN 0 ELSE G("in", i - 1))
      PROVE  WrittenIsRight(i, w)
  <2>1. Written("out", i) = G("in", i) - (IF i = 0 THEN 0 ELSE G("in", i - 1))
    BY DEF Written, MathFunctions
  <2> QED BY <1>1, <1>2, <2>1 DEF WrittenIsRight, Means, Indexings
<1>3. at["in"] = m /\ Cell("in") = "in"
  BY <1>1 DEF At, PlaceIn, Cell, RightCall, inPlace, kernel
<1>4. m > 0 /\ m <= Common => V("in", -1) = G("in", m - 1) /\ G("in", m - 1) \in Int
  <2> HAVE m > 0 /\ m <= Common
  <2>1. m - 1 \in Nat /\ m - 1 < Common /\ LegalCall(call) /\ m + -1 = m - 1
    BY CommonIsShortest DEF At, RightCall
  <2>2. \A t \in 0 .. Stride(kernel, "in") - 1 :
            (m - 1) * Stride(kernel, "in") + t \in 0 .. size["in"] - 1
    BY <1>1, <2>1, ElementFits
  <2>3. (m - 1) * 1 + 0 = m - 1 /\ 0 \in 0 .. 1 - 1
    BY <2>1
  <2>4. m - 1 \in 0 .. size["in"] - 1
    BY <1>1, <2>2, <2>3
  <2>5. memory["in"][m - 1] = Contents(call)["in"][m - 1] /\ m - 1 \in DOMAIN memory["in"]
    BY <1>1, <2>4 DEF At, Untouched
  <2>6. Contents(call)["in"] = given["in"]
    <3>1. DOMAIN call.size = Operands(kernel)
      BY <2>1 DEF LegalCall, LegalSpans, kernel
    <3> QED BY <1>1, <3>1 DEF Contents, given, kernel
  <2>7. G("in", m - 1) \in Int
    BY <2>4 DEF At, RightCall, Scans, G, given, kernel, size
  <2> QED BY <1>3, <2>1, <2>5, <2>6, <2>7 DEF V, G
<1>5. ASSUME m < Common
      PROVE  WrittenIsRight(m, Scan)
  <2>1. 0 \in Nat /\ m + 0 = m
    OBVIOUS
  <2>2. V("in", 0) = G("in", m) /\ G("in", m) \in Int
    BY <1>1, <1>5, <2>1, SumsAhead
  <2>3. CASE m = 0
    <3>1. Scan["out"][1] = V("in", 0)
      BY <1>3, <2>3 DEF Scan
    <3> QED BY <1>2, <2>2, <2>3, <3>1
  <2>4. CASE m # 0
    <3>1. V("in", -1) = G("in", m - 1)
      BY <1>4, <1>5, <2>4, CommonIsShortest DEF At, RightCall
    <3>2. Scan["out"][1] = V("in", 0) - V("in", -1)
      BY <1>3, <2>4 DEF Scan
    <3> QED BY <1>2, <2>2, <2>4, <3>1, <3>2
  <2> QED BY <2>3, <2>4
<1>6. ASSUME m > 0, m + 4 <= Common, NEW j \in Lanes
      PROVE  WrittenIsRight(m + j, SSE.four[j])
  <2>1. V("in", -1) = G("in", m - 1) /\ G("in", m - 1) \in Int
    BY <1>4, <1>6, CommonIsShortest DEF At, RightCall
  <2>2. \A k \in Lanes : V("in", k) = G("in", m + k) /\ G("in", m + k) \in Int
    BY <1>1, <1>6, FourSumsAhead
  <2> DEFINE from == [k \in Lanes |-> V("in", k) - V("in", -1)]
  <2>4. SSE.four[j]["out"][1] = from[j] - Shifted(from, 1)[j]
    BY SSEOfKernel DEF DiffSSE, Loops, Scans
  <2>5. Shifted(from, 1)[j] = IF j < 1 THEN 0 ELSE from[j - 1]
    BY DEF Shifted
  <2>6. \A k \in Lanes : from[k] = V("in", k) - V("in", -1)
    OBVIOUS
  <2> HIDE DEF from
  <2>7. PICK a \in Int, b \in Int : a = G("in", m + j) /\ b = G("in", m - 1)
    BY <2>1, <2>2
  <2>8. m + j # 0 /\ j \in Nat
    BY <1>6 DEF Lanes, TypeAlignment
  <2>9. CASE j = 0
    <3>1. from[j] = a - b /\ Shifted(from, 1)[j] = 0
      BY <2>1, <2>2, <2>5, <2>6, <2>7, <2>9
    <3>2. (a - b) - 0 = a - b /\ m + j - 1 = m - 1
      BY <2>9
    <3>3. SSE.four[j]["out"][1] = G("in", m + j) - G("in", m + j - 1)
      BY <2>4, <2>7, <3>1, <3>2
    <3> QED BY <1>2, <2>8, <3>3
  <2>10. CASE j # 0
    <3>1. j - 1 \in Lanes /\ ~ (j < 1) /\ m + (j - 1) = m + j - 1
      BY <2>10 DEF Lanes, TypeAlignment
    <3>2. PICK c \in Int : c = G("in", m + j - 1)
      BY <2>2, <3>1
    <3>3. from[j] = a - b /\ Shifted(from, 1)[j] = c - b
      BY <2>1, <2>2, <2>5, <2>6, <2>7, <3>1, <3>2
    <3>4. (a - b) - (c - b) = a - c
      OBVIOUS
    <3>5. SSE.four[j]["out"][1] = G("in", m + j) - G("in", m + j - 1)
      BY <2>4, <2>7, <3>2, <3>3, <3>4
    <3> QED BY <1>2, <2>8, <3>5
  <2> QED BY <2>9, <2>10
<1> QED BY <1>5, <1>6

-----------------------------------------------------------------------------
(* Ramps.                                                                    *)

\* The n-th value of a ramp.
RampTo(n) == IF kernel = "linearRamp" THEN start + value * n ELSE start * Power(n)

LEMMA RampsAre ==
    ASSUME kernel \in Ramps, value \in Int, start \in Int, NEW n \in Nat
    PROVE  /\ RampTo(n) \in Int
           /\ \A x : CarryIs(n, x) <=> x = RampTo(n)
           /\ \A w : w["out"][1] = RampTo(n + 1) => WrittenIsRight(n, w)
           /\ kernel = "linearRamp" => RampTo(n + 1) = RampTo(n) + value
           /\ kernel # "linearRamp" => RampTo(n + 1) = RampTo(n) * value
<1>1. /\ Outputs(kernel) = {"out"} /\ kernel \notin Means /\ kernel \notin Indexings
      /\ kernel # "writeInterleaved" /\ kernel # "sfzInterpolationCast"
  BY DEF Outputs, Means, Indexings, Ramps
<1>2. \A i : Written("out", i) = RampTo(i + 1)
  BY DEF Written, RampTo, Ramps, MathFunctions
<1>3. /\ Power(n) \in Int /\ Power(n + 1) \in Int /\ Power(0) = 1
      /\ Power(n + 1) = Power(n) * value
  BY PowerGrows
<1>4. RampTo(0) = start
  BY <1>3 DEF RampTo
<1>5. RampTo(n) \in Int
  <2>1. \A p \in Int : start * p \in Int /\ start + value * p \in Int
    OBVIOUS
  <2>2. n \in Int
    OBVIOUS
  <2> QED BY <1>3, <2>1, <2>2 DEF RampTo
<1>6. \A x : CarryIs(n, x) <=> x = RampTo(n)
  <2>1. CASE n = 0
    BY <1>1, <1>4, <2>1 DEF CarryIs
  <2>2. CASE n # 0
    <3>1. (n - 1) + 1 = n
      OBVIOUS
    <3> QED BY <1>1, <1>2, <2>2, <3>1 DEF CarryIs
  <2> QED BY <2>1, <2>2
<1>7. \A w : w["out"][1] = RampTo(n + 1) => WrittenIsRight(n, w)
  BY <1>1, <1>2 DEF WrittenIsRight
<1>8. kernel = "linearRamp" => RampTo(n + 1) = RampTo(n) + value
  <2>1. start + value * (n + 1) = (start + value * n) + value
    OBVIOUS
  <2> QED BY <2>1 DEF RampTo
<1>9. kernel # "linearRamp" => RampTo(n + 1) = RampTo(n) * value
  <2>1. \A p \in Int : start * (p * value) = (start * p) * value
    OBVIOUS
  <2> QED BY <1>3, <2>1 DEF RampTo
<1> QED BY <1>5, <1>6, <1>7, <1>8, <1>9

LEMMA RampIsRight ==
    ASSUME NEW m \in Nat, At(m), kernel \in Ramps, CarryIs(m, carry)
    PROVE  /\ WrittenIsRight(m, [out |-> <<Ramped>>]) /\ CarryIs(m + 1, Ramped)
           /\ \A j \in Lanes : WrittenIsRight(m + j, SSE.four[j])
           /\ CarryIs(m + 4, SSE.after)
<1>1. value \in Int /\ start \in Int
  BY DEF At, RightCall, kernel, value, start
<1>2. PICK a \in Int : a = RampTo(m)
  BY <1>1, RampsAre
<1>3. carry = a
  BY <1>1, <1>2, RampsAre
<1>4. \A n \in Nat : /\ RampTo(n) \in Int
                     /\ \A x : CarryIs(n, x) <=> x = RampTo(n)
                     /\ \A w : w["out"][1] = RampTo(n + 1) => WrittenIsRight(n, w)
                     /\ kernel = "linearRamp" => RampTo(n + 1) = RampTo(n) + value
                     /\ kernel # "linearRamp" => RampTo(n + 1) = RampTo(n) * value
  BY <1>1, RampsAre
<1>5. /\ m + 1 \in Nat /\ m + 2 \in Nat /\ m + 3 \in Nat /\ m + 4 \in Nat
      /\ m + 1 + 1 = m + 2 /\ m + 2 + 1 = m + 3 /\ m + 3 + 1 = m + 4 /\ m + 0 = m
  OBVIOUS
<1>6. Ramped = RampTo(m + 1)
  BY <1>2, <1>3, <1>4 DEF Ramped
<1> DEFINE powers == <<value, value * value, value * value * value, value * value * value * value>>
           x == [j \in Lanes |-> IF kernel = "linearRamp" THEN carry + value * (j + 1)
                                 ELSE carry * powers[j + 1]]
<1>7. x[0] = RampTo(m + 1) /\ x[1] = RampTo(m + 2) /\ x[2] = RampTo(m + 3) /\ x[3] = RampTo(m + 4)
  <2>1. 0 \in Lanes /\ 1 \in Lanes /\ 2 \in Lanes /\ 3 \in Lanes
    BY DEF Lanes, TypeAlignment
  <2>2. CASE kernel = "linearRamp"
    <3>1. /\ RampTo(m + 1) = a + value /\ RampTo(m + 2) = a + value + value
          /\ RampTo(m + 3) = a + value + value + value
          /\ RampTo(m + 4) = a + value + value + value + value
      BY <1>2, <1>4, <1>5, <2>2
    <3>2. /\ x[0] = a + value * (0 + 1) /\ x[1] = a + value * (1 + 1)
          /\ x[2] = a + value * (2 + 1) /\ x[3] = a + value * (3 + 1)
      BY <1>3, <2>1, <2>2
    <3> HIDE DEF x
    <3>3. /\ a + value * (0 + 1) = a + value /\ a + value * (1 + 1) = a + value + value
          /\ a + value * (2 + 1) = a + value + value + value
          /\ a + value * (3 + 1) = a + value + value + value + value
      BY <1>1
    <3> QED BY <3>1, <3>2, <3>3
  <2>3. CASE kernel # "linearRamp"
    <3>1. /\ RampTo(m + 1) = a * value /\ RampTo(m + 2) = a * value * value
          /\ RampTo(m + 3) = a * value * value * value
          /\ RampTo(m + 4) = a * value * value * value * value
      BY <1>2, <1>4, <1>5, <2>3
    <3>2. /\ x[0] = a * powers[1] /\ x[1] = a * powers[2]
          /\ x[2] = a * powers[3] /\ x[3] = a * powers[4]
      <4>1. 0 + 1 = 1 /\ 1 + 1 = 2 /\ 2 + 1 = 3 /\ 3 + 1 = 4
        OBVIOUS
      <4> HIDE DEF powers
      <4> QED BY <1>3, <2>1, <2>3, <4>1
    <3>3. /\ powers[1] = value /\ powers[2] = value * value
          /\ powers[3] = value * value * value /\ powers[4] = value * value * value * value
      OBVIOUS
    <3> HIDE DEF x, powers
    <3>4. /\ a * (value * value) = a * value * value
          /\ a * (value * value * value) = a * value * value * value
          /\ a * (value * value * value * value) = a * value * value * value * value
      BY <1>1
    <3> QED BY <3>1, <3>2, <3>3, <3>4
  <2> QED BY <2>2, <2>3
<1>8. SSE.after = x[3] /\ \A j \in Lanes : SSE.four[j]["out"][1] = x[j]
  <2>1. SSE = Loops("out", size["out"], size["out"], Snippet, [j \in Lanes |-> [out |-> <<x[j]>>]],
              x[3])
    BY SSEOfKernel DEF RampSSE
  <2> HIDE DEF x
  <2> QED BY <2>1 DEF Loops
<1> HIDE DEF x
<1>9. \A j \in Lanes : SSE.four[j]["out"][1] = RampTo((m + j) + 1) /\ m + j \in Nat
  <2>1. Lanes = {0, 1, 2, 3}
    BY DEF Lanes, TypeAlignment
  <2> QED BY <1>5, <1>7, <1>8, <2>1
<1> QED BY <1>4, <1>5, <1>6, <1>7, <1>8, <1>9

-----------------------------------------------------------------------------
(* Positions.                                                                *)

\* Where a sum of steps leads: to the end of the sample, or around its loop.
Placed(x) ==
    IF kernel = "loopingSFZIndex"
    THEN IF x < LoopEnd THEN x ELSE LoopStart + ((x - LoopEnd) % (LoopEnd - LoopStart))
    ELSE IF x < LoopEnd THEN x ELSE LoopEnd

\* No step is longer than the loop, so that it is enough to go around once.
LEMMA PlacedGoesOn ==
    ASSUME NEW x \in Int, NEW s \in 0 .. 20
    PROVE  /\ Placed(x) \in Int
           /\ kernel = "loopingSFZIndex" => Looped(Placed(x) + s) = Placed(x + s)
           /\ kernel # "loopingSFZIndex" => Saturated(Placed(x) + s) = Placed(x + s)
<1>1. LoopEnd = 24 /\ LoopStart = 4 /\ LoopEnd - LoopStart = 20
  BY DEF LoopEnd, LoopStart
<1>2. PICK r \in 0 .. 19, q \in Int : r = (x - 24) % 20 /\ x - 24 = 20 * q + r
  <2>1. PICK y \in Int : y = x - 24
    OBVIOUS
  <2>2. PICK r \in 0 .. 19, q \in Int : q = y \div 20 /\ r = y % 20 /\ y = 20 * q + r
    OBVIOUS
  <2> QED BY <2>1, <2>2
<1>3. kernel = "loopingSFZIndex" => Placed(x) = IF x < 24 THEN x ELSE 4 + r
  BY <1>1, <1>2 DEF Placed
<1>4. ASSUME kernel = "loopingSFZIndex"
      PROVE  Looped(Placed(x) + s) = Placed(x + s)
  <2>1. PICK t : t = (x + s - 24) % 20
    OBVIOUS
  <2>2. Placed(x + s) = IF x + s < 24 THEN x + s ELSE 4 + t
    BY <1>1, <1>4, <2>1 DEF Placed
  <2>3. CASE x < 24
    <3>1. x + s >= 24 => t = x + s - 24
      BY <2>1, <2>3
    <3>2. Looped(Placed(x) + s) = IF x + s >= 24 THEN x + s - 20 ELSE x + s
      BY <1>1, <1>3, <1>4, <2>3 DEF Looped
    <3> QED BY <2>2, <3>1, <3>2
  <2>4. CASE x >= 24
    <3>1. t = IF r + s < 20 THEN r + s ELSE IF r + s < 40 THEN r + s - 20 ELSE 0
      BY <1>2, <2>1
    <3>2. r + s < 40
      OBVIOUS
    <3>3. Looped(Placed(x) + s) = IF 4 + r + s >= 24 THEN 4 + r + s - 20 ELSE 4 + r + s
      BY <1>1, <1>3, <1>4, <2>4 DEF Looped
    <3> QED BY <2>2, <2>4, <3>1, <3>2, <3>3
  <2> QED BY <2>3, <2>4
<1>5. kernel # "loopingSFZIndex" => Saturated(Placed(x) + s) = Placed(x + s)
  <2> HAVE kernel # "loopingSFZIndex"
  <2>1. /\ Placed(x) = IF x < 24 THEN x ELSE 24
        /\ Placed(x + s) = IF x + s < 24 THEN x + s ELSE 24
    BY <1>1 DEF Placed
  <2>2. \A y \in Int : Saturated(y) = IF y >= 24 THEN 24 ELSE y
    BY <1>1 DEF Saturated
  <2> QED BY <2>1, <2>2
<1>6. Placed(x) \in Int
  BY <1>1, <1>2, <1>3 DEF Placed
<1> QED BY <1>4, <1>5, <1>6

LEMMA PositionIsPlaced ==
    ASSUME kernel \in Indexings, NEW i, SumTo(i) \in Int, start \in Int
    PROVE  Position(i) = Placed(start + SumTo(i))
<1>1. PICK x \in Int : x = start + SumTo(i)
  OBVIOUS
<1>2. CASE kernel = "loopingSFZIndex"
  BY <1>1, <1>2 DEF Position, Placed
<1>3. CASE kernel = "saturatingSFZIndex"
  <2> DEFINE T == {x, LoopEnd}
  <2>1. PICK b \in Int : b <= x /\ b <= 24
    <3>1. x <= 24 => x \in Int /\ x <= x /\ x <= 24
      OBVIOUS
    <3>2. ~ (x <= 24) => 24 \in Int /\ 24 <= x /\ 24 <= 24
      OBVIOUS
    <3> QED BY <3>1, <3>2
  <2>2. T \in SUBSET Int /\ T # {} /\ \A y \in T : b <= y
    BY <2>1 DEF LoopEnd
  <2>3. Min(T) \in T /\ \A y \in T : Min(T) <= y
    BY <2>1, <2>2, FirstIsMin
  <2>4. Min(T) = Placed(x)
    <3>1. PICK v : v = Min(T)
      OBVIOUS
    <3>2. v \in {x, 24} /\ v <= x /\ v <= 24
      BY <2>3, <3>1 DEF LoopEnd
    <3>3. v = IF x < 24 THEN x ELSE 24
      BY <3>2
    <3> QED BY <1>3, <3>1, <3>3 DEF Placed, LoopEnd
  <2>5. Position(i) = Min({x, LoopEnd})
    BY <1>1, <1>3 DEF Position
  <2> QED BY <1>1, <2>4, <2>5
<1> QED BY <1>2, <1>3 DEF Indexings

\* A position before the end, and the end, are weighed right.
LEMMA PlacedIsWeighed ==
    ASSUME kernel \in Indexings, NEW i, SumTo(i) \in Int, start \in Int,
           NEW x, x = Placed(start + SumTo(i)), x \in Int, NEW w,
           \/ kernel = "saturatingSFZIndex" /\ x = LoopEnd /\ w = Weighed(LoopEnd \div 4 - 1, 4)
           \/ w \in {Truncated(x), Converted(x)}
    PROVE  WrittenIsRight(i, w)
<1>1. Position(i) = x
  BY PositionIsPlaced
<1>2. /\ 4 * w["index"][1] + w["right"][1] = x
      /\ w["right"][1] \in 0 .. 4
      /\ w["left"][1] = 4 - w["right"][1]
  <2>1. CASE w \in {Truncated(x), Converted(x)}
    BY <2>1, PositionsAreWeighed
  <2>2. CASE x = LoopEnd /\ w = Weighed(LoopEnd \div 4 - 1, 4)
    <3>1. x = 24 /\ LoopEnd \div 4 - 1 = 5
      BY <2>2 DEF LoopEnd
    <3>2. w["index"][1] = 5 /\ w["right"][1] = 4 /\ w["left"][1] = 4 - 4
      BY <2>2, <3>1 DEF Weighed
    <3> QED BY <3>1, <3>2
  <2> QED BY <2>1, <2>2
<1> QED BY <1>1, <1>2 DEF WrittenIsRight, Means, Indexings

LEMMA IndexingIsRight ==
    ASSUME NEW m \in Nat, At(m), kernel \in Indexings, CarryIs(m, carry)
    PROVE  /\ m < Common => WrittenIsRight(m, Indexing) /\ CarryIs(m + 1, Indexed)
           /\ m + 4 <= Common => /\ \A j \in Lanes : WrittenIsRight(m + j, SSE.four[j])
                                 /\ CarryIs(m + 4, SSE.after)
<1>1. start \in 0 .. 23 /\ start \in Int
  <2>1. start \in 0 .. LoopEnd - 1
    BY DEF At, RightCall, kernel, start
  <2> QED BY <2>1 DEF LoopEnd
<1>2. kernel \in Summed /\ kernel \notin Means /\ kernel \notin Ramps
  BY DEF Summed, Means, Indexings, Ramps
<1>3. \A y : Square(y) = y
  BY DEF Square, Indexings
<1>4. ASSUME NEW n \in Nat, SumTo(n - 1) \in Int, SumTo(-1) = 0, NEW y
      PROVE  CarryIs(n, y) <=> y = Placed(start + SumTo(n - 1))
  <2>1. CASE n = 0
    <3>1. n - 1 = -1 /\ start + 0 = start /\ start < LoopEnd
      BY <1>1, <2>1 DEF LoopEnd
    <3>2. Placed(start + SumTo(n - 1)) = start
      BY <1>1, <1>4, <3>1 DEF Placed
    <3> QED BY <1>2, <2>1, <3>2 DEF CarryIs
  <2>2. CASE n # 0
    <3>1. Position(n - 1) = Placed(start + SumTo(n - 1))
      BY <1>1, <1>4, PositionIsPlaced
    <3> QED BY <1>2, <2>2, <3>1 DEF CarryIs
  <2> QED BY <2>1, <2>2
<1>5. ASSUME m < Common
      PROVE  WrittenIsRight(m, Indexing) /\ CarryIs(m + 1, Indexed)
  <2>1. 0 \in Nat /\ m + 0 = m /\ m + 0 - 1 = m - 1 /\ (m + 1) - 1 = m /\ m + 1 \in Nat
    OBVIOUS
  <2>2. /\ SumTo(m) \in Int /\ SumTo(m - 1) \in Int /\ SumTo(-1) = 0
        /\ SumTo(m) = SumTo(m - 1) + V("in", 0) /\ V("in", 0) \in 0 .. 5
    BY <1>2, <1>3, <1>5, <2>1, SumsAhead
  <2>3. PICK a \in Int, v \in 0 .. 5 : a = start + SumTo(m - 1) /\ v = V("in", 0)
    BY <1>1, <2>2
  <2>4. carry = Placed(a) /\ start + SumTo(m) = a + v /\ a + v \in Int /\ v \in 0 .. 20
    BY <1>1, <1>4, <2>2, <2>3
  <2>5. Indexed = Placed(a + v)
    BY <2>3, <2>4, PlacedGoesOn DEF Indexed
  <2>6. Placed(a + v) \in Int
    <3>1. 0 \in 0 .. 20
      OBVIOUS
    <3> QED BY <2>4, <3>1, PlacedGoesOn
  <2>7. \/ kernel = "saturatingSFZIndex" /\ Indexed = LoopEnd
           /\ Indexing = Weighed(LoopEnd \div 4 - 1, 4)
        \/ Indexing \in {Truncated(Indexed), Converted(Indexed)}
    BY DEF Indexing
  <2>8. WrittenIsRight(m, Indexing)
    BY <1>1, <2>2, <2>4, <2>5, <2>6, <2>7, PlacedIsWeighed
  <2>9. CarryIs(m + 1, Indexed)
    BY <1>4, <2>1, <2>2, <2>4, <2>5
  <2> QED BY <2>8, <2>9
<1>6. ASSUME m + 4 <= Common
      PROVE  /\ \A j \in Lanes : WrittenIsRight(m + j, SSE.four[j])
             /\ CarryIs(m + 4, SSE.after)
  <2>1. /\ SumTo(m - 1) \in Int
        /\ \A j \in Lanes : V("in", j) \in Int /\ V("in", j) \in 0 .. 5 /\ SumTo(m + j) \in Int
        /\ SumTo(m) = SumTo(m - 1) + V("in", 0)
        /\ SumTo(m + 1) = SumTo(m - 1) + V("in", 0) + V("in", 1)
        /\ SumTo(m + 2) = SumTo(m - 1) + V("in", 0) + V("in", 1) + V("in", 2)
        /\ SumTo(m + 3) = SumTo(m - 1) + V("in", 0) + V("in", 1) + V("in", 2) + V("in", 3)
        /\ SumTo(-1) = 0
    BY <1>2, <1>3, <1>6, FourSumsAhead
  <2>2. Lanes = {0, 1, 2, 3} /\ m + 0 = m
    BY DEF Lanes, TypeAlignment
  <2>3. \A j \in Lanes : Loaded("in")[j] = V("in", j)
    BY DEF Loaded
  <2>4. PICK f : f = Loaded("in")
    OBVIOUS
  <2>5. PICK sums : sums = PrefixSums(f)
    OBVIOUS
  <2>6. /\ sums[0] = V("in", 0)
        /\ sums[1] = V("in", 0) + V("in", 1)
        /\ sums[2] = V("in", 0) + V("in", 1) + V("in", 2)
        /\ sums[3] = V("in", 0) + V("in", 1) + V("in", 2) + V("in", 3)
    <3>1. \A j \in Lanes : f[j] \in Int
      BY <2>1, <2>3, <2>4
    <3> QED BY <2>2, <2>3, <2>4, <2>5, <3>1, PrefixSumsAre
  <2>7. \A j \in Lanes : sums[j] \in 0 .. 20 /\ SumTo(m + j) = SumTo(m - 1) + sums[j]
    <3>1. PICK v0 \in 0 .. 5, v1 \in 0 .. 5, v2 \in 0 .. 5, v3 \in 0 .. 5 :
              v0 = V("in", 0) /\ v1 = V("in", 1) /\ v2 = V("in", 2) /\ v3 = V("in", 3)
      BY <2>1, <2>2
    <3>2. /\ v0 \in 0 .. 20 /\ v0 + v1 \in 0 .. 20 /\ v0 + v1 + v2 \in 0 .. 20
          /\ v0 + v1 + v2 + v3 \in 0 .. 20
      OBVIOUS
    <3>3. PICK z \in Int : z = SumTo(m - 1)
      BY <2>1
    <3>4. /\ z + (v0 + v1) = z + v0 + v1 /\ z + (v0 + v1 + v2) = z + v0 + v1 + v2
          /\ z + (v0 + v1 + v2 + v3) = z + v0 + v1 + v2 + v3
      OBVIOUS
    <3> QED BY <2>1, <2>2, <2>6, <3>1, <3>2, <3>3, <3>4
  <2>8. PICK a \in Int : a = start + SumTo(m - 1)
    BY <1>1, <2>1
  <2>9. carry = Placed(a)
    BY <1>4, <2>1, <2>8
  <2>10. \A j \in Lanes : /\ a + sums[j] = start + SumTo(m + j) /\ a + sums[j] \in Int
                          /\ Placed(a + sums[j]) \in Int
    <3> TAKE j \in Lanes
    <3>1. PICK s \in 0 .. 20, z \in Int : s = sums[j] /\ z = SumTo(m - 1) /\ SumTo(m + j) = z + s
      BY <2>1, <2>7
    <3>2. a + s = start + (z + s) /\ a + s \in Int
      BY <1>1, <2>8, <3>1
    <3>3. 0 \in 0 .. 20
      OBVIOUS
    <3>4. Placed(a + s) \in Int
      BY <3>2, <3>3, PlacedGoesOn
    <3> QED BY <3>1, <3>2, <3>4
  <2> DEFINE x == [j \in Lanes |-> IF kernel = "loopingSFZIndex" THEN Looped(carry + sums[j])
                                   ELSE Saturated(carry + sums[j])]
  <2>11. /\ SSE.after = x[3]
         /\ \A j \in Lanes : SSE.four[j] = IF kernel = "saturatingSFZIndex" /\ x[j] = LoopEnd
                                           THEN Weighed(LoopEnd \div 4 - 1, 4) ELSE Converted(x[j])
    <3>1. SSE = Loops("in", Common, Common, Snippet,
              [j \in Lanes |-> IF kernel = "saturatingSFZIndex" /\ x[j] = LoopEnd
                               THEN Weighed(LoopEnd \div 4 - 1, 4) ELSE Converted(x[j])],
              x[3])
      BY <2>4, <2>5, SSEOfKernel DEF IndexingSSE
    <3> HIDE DEF x
    <3> QED BY <3>1 DEF Loops
  <2>12. \A j \in Lanes : x[j] = Placed(a + sums[j])
    <3> TAKE j \in Lanes
    <3>1. sums[j] \in 0 .. 20
      BY <2>7
    <3> QED BY <2>9, <3>1, PlacedGoesOn
  <2> HIDE DEF x
  <2>13. ASSUME NEW j \in Lanes
         PROVE  WrittenIsRight(m + j, SSE.four[j])
    <3>1. x[j] = Placed(start + SumTo(m + j)) /\ x[j] \in Int /\ SumTo(m + j) \in Int
      BY <2>1, <2>10, <2>12
    <3>2. \/ kernel = "saturatingSFZIndex" /\ x[j] = LoopEnd
             /\ SSE.four[j] = Weighed(LoopEnd \div 4 - 1, 4)
          \/ SSE.four[j] \in {Truncated(x[j]), Converted(x[j])}
      BY <2>11
    <3> QED BY <1>1, <3>1, <3>2, PlacedIsWeighed
  <2>14. CarryIs(m + 4, SSE.after)
    <3>1. 3 \in Lanes /\ (m + 4) - 1 = m + 3 /\ m + 4 \in Nat
      BY <2>2
    <3>2. SSE.after = Placed(start + SumTo((m + 4) - 1)) /\ SumTo((m + 4) - 1) \in Int
      BY <2>1, <2>10, <2>11, <2>12, <3>1
    <3> QED BY <1>4, <2>1, <3>1, <3>2
  <2> QED BY <2>13, <2>14
<1> QED BY <1>5, <1>6

-----------------------------------------------------------------------------
(* Steps.                                                                    *)

HandsOver == Means \cup Indexings \cup Ramps

LEMMA NothingHandedOver ==
    ASSUME kernel \notin HandsOver
    PROVE  \A n, x : CarryIs(n, x)
  BY DEF CarryIs, HandsOver

\* An element that is done one by one is right.
LEMMA SnippetIsRight ==
    ASSUME NEW m \in Nat, At(m), m < Common, CarryIs(m, carry),
           kernel = "cumsum" /\ m > 0 => RightIn(memory, m - 1)
    PROVE  WrittenIsRight(m, Snippet) /\ CarryIs(m + 1, SnippetCarry)
<1>1. kernel \in Kernels /\ 0 \in Nat /\ m + 0 = m
  BY DEF At, RightCall, LegalCall, kernel
<1>2. \A x : kernel \notin HandsOver => CarryIs(m + 1, x)
  BY NothingHandedOver
<1>3. CASE kernel \in Means
  <2>1. Snippet = <<>> /\ SnippetCarry = carry + Square(V("in", 0))
    BY <1>3 DEF Snippet, SnippetCarry, Means, Indexings, Ramps, MathFunctions, Scans
  <2> QED BY <1>3, <2>1, MeanGoesOn DEF WrittenIsRight, Means, Indexings
<1>4. CASE kernel \in Indexings
  <2>1. Snippet = Indexing /\ SnippetCarry = Indexed
    BY <1>4 DEF Snippet, SnippetCarry, Means, Indexings, Ramps, MathFunctions, Scans
  <2> QED BY <1>4, <2>1, IndexingIsRight
<1>5. CASE kernel \in Ramps
  <2>1. Snippet = [out |-> <<Ramped>>] /\ SnippetCarry = Ramped
    BY <1>5 DEF Snippet, SnippetCarry, Means, Indexings, Ramps, MathFunctions, Scans
  <2> QED BY <1>5, <2>1, RampIsRight
<1>6. CASE kernel \in Interleaved
  <2>1. Snippet = Interleaving(0) /\ kernel \notin HandsOver
    BY <1>6 DEF Snippet, Interleaved, HandsOver, Means, Indexings, Ramps, MathFunctions, Scans
  <2> QED BY <1>1, <1>2, <1>6, <2>1, ReadInterleavedIsRight, WriteInterleavedIsRight DEF Interleaved
<1>7. CASE kernel = "fill"
  <2>1. Snippet = [out |-> <<value>>] /\ kernel \notin HandsOver
    BY <1>7 DEF Snippet, HandsOver, Means, Indexings, Ramps, MathFunctions, Scans
  <2> QED BY <1>2, <1>7, <2>1, FillIsRight
<1>8. CASE kernel \in MathFunctions
  <2>1. Snippet = MathFunction(kernel, 0) /\ kernel \notin HandsOver
    BY <1>8 DEF Snippet, HandsOver, Means, Indexings, Ramps, MathFunctions, Scans
  <2> QED BY <1>1, <1>2, <1>8, <2>1, MathIsRight
<1>9. CASE kernel \in Gains3
  <2>1. Snippet = Gain(0) /\ kernel \notin HandsOver
    BY <1>9 DEF Snippet, Gains3, HandsOver, Means, Indexings, Ramps, MathFunctions, Scans
  <2> QED BY <1>1, <1>2, <1>9, <2>1, GainIsRight
<1>10. CASE kernel \in ArithmeticKernels
  <2>1. Snippet = Arithmetic(0) /\ kernel \notin HandsOver
    BY <1>10 DEF Snippet, ArithmeticKernels, HandsOver, Means, Indexings, Ramps, MathFunctions, Scans
  <2> QED BY <1>1, <1>2, <1>10, <2>1, ArithmeticIsRight
<1>11. CASE kernel = "pan"
  <2>1. Snippet = Panned(V("in", 0), 0) /\ kernel \notin HandsOver
    BY <1>11 DEF Snippet, HandsOver, Means, Indexings, Ramps, MathFunctions, Scans
  <2> QED BY <1>2, <1>11, <2>1, PanIsRight
<1>12. CASE kernel = "sfzInterpolationCast"
  <2>1. Snippet = Truncated(V("in", 0)) /\ kernel \notin HandsOver
    BY <1>12 DEF Snippet, HandsOver, Means, Indexings, Ramps, MathFunctions, Scans
  <2>2. WrittenIsRight(m + 0, Snippet)
    BY <1>1, <1>12, <2>1, CastIsRight
  <2> QED BY <1>1, <1>2, <2>1, <2>2
<1>13. CASE kernel \in Scans
  <2>1. Snippet = Scan /\ kernel \notin HandsOver
    BY <1>13 DEF Snippet, HandsOver, Means, Indexings, Ramps, MathFunctions, Scans
  <2>2. WrittenIsRight(m, Scan)
    BY <1>13, CumsumIsRight, DiffIsRight DEF Scans
  <2> QED BY <1>2, <2>1, <2>2
<1> QED BY <1>1, <1>3, <1>4, <1>5, <1>6, <1>7, <1>8, <1>9, <1>10, <1>11, <1>12, <1>13
        DEF Kernels, Interleaved, Gains3, ArithmeticKernels

\* The head and the rest do that too, but for three functions.
LEMMA SingleIsSnippet ==
    ASSUME RightCall(call), kernel \notin {"cos", "log", "sin"}
    PROVE  SSE.single = Snippet
<1>1. kernel \in Kernels
  BY DEF RightCall, LegalCall, kernel
<1>2. CASE kernel \in MathFunctions
  <2>1. kernel = "exp"
    BY <1>2 DEF MathFunctions
  <2>2. SSE.single = MathFunction("exp", 0)
    BY <1>2, SSEOfKernel DEF MathSSE, Loops
  <2>3. Snippet = MathFunction("exp", 0)
    BY <2>1 DEF Snippet, MathFunctions, Means, Indexings, Ramps, Scans
  <2> QED BY <2>2, <2>3
<1>3. CASE kernel \in Interleaved
  BY <1>3, SSEOfKernel DEF InterleavingSSE, Loops
<1>4. CASE kernel \in Gains3 \cup ArithmeticKernels
  BY <1>4, SSEOfKernel DEF GainSSE, ArithmeticSSE, Loops, ArithmeticKernels
<1>5. CASE kernel \in {"fill", "pan", "sfzInterpolationCast"}
  BY <1>5, SSEOfKernel DEF FillSSE, PanSSE, CastSSE, Loops
<1>6. CASE kernel \in Indexings
  BY <1>6, SSEOfKernel DEF IndexingSSE, Loops
<1>7. CASE kernel \in Ramps
  BY <1>7, SSEOfKernel DEF RampSSE, Loops
<1>8. CASE kernel \in Scans
  <2>1. CASE kernel = "cumsum"
    BY <2>1, SSEOfKernel DEF CumsumSSE, Loops
  <2>2. CASE kernel = "diff"
    BY <2>2, SSEOfKernel DEF DiffSSE, Loops
  <2> QED BY <1>8, <2>1, <2>2 DEF Scans
<1>9. CASE kernel \in Means
  BY <1>9, SSEOfKernel DEF MeanSSE, Loops
<1> QED BY <1>1, <1>2, <1>3, <1>4, <1>5, <1>6, <1>7, <1>8, <1>9
        DEF Kernels, Interleaved, Gains3, ArithmeticKernels

\* Four elements are right, but of pan.
LEMMA FourAreRight ==
    ASSUME NEW m \in Nat, At(m), m + 4 <= Common, CarryIs(m, carry),
           kernel \in Scans => m > 0,
           kernel = "cumsum" => RightIn(memory, m - 1)
    PROVE  /\ kernel # "pan" => \A j \in Lanes : WrittenIsRight(m + j, SSE.four[j])
           /\ CarryIs(m + 4, SSE.after)
<1>1. kernel \in Kernels
  BY DEF At, RightCall, LegalCall, kernel
<1>2. \A x : kernel \notin HandsOver => CarryIs(m + 4, x)
  BY NothingHandedOver
<1>3. \A j \in Lanes : j \in Nat /\ m + j < Common
  <2>1. Common \in Nat
    BY CommonIsShortest DEF At, RightCall
  <2> QED BY <2>1 DEF Lanes, TypeAlignment
<1>4. CASE kernel \in Means
  BY <1>4, MeanGoesOn DEF WrittenIsRight, Means, Indexings
<1>5. CASE kernel \in Indexings
  BY <1>5, IndexingIsRight
<1>6. CASE kernel \in Ramps
  BY <1>6, RampIsRight
<1>7. CASE kernel \in Interleaved
  <2>1. \A j \in Lanes : SSE.four[j] = Interleaving(j)
    BY <1>7, SSEOfKernel DEF InterleavingSSE, Loops
  <2>2. kernel \notin HandsOver
    BY <1>7 DEF Interleaved, HandsOver, Means, Indexings, Ramps
  <2> QED BY <1>2, <1>3, <1>7, <2>1, <2>2, ReadInterleavedIsRight, WriteInterleavedIsRight
          DEF Interleaved
<1>8. CASE kernel = "fill"
  <2>1. \A j \in Lanes : SSE.four[j] = [out |-> <<value>>]
    BY <1>8, SSEOfKernel DEF FillSSE, Loops
  <2>2. kernel \notin HandsOver
    BY <1>8 DEF HandsOver, Means, Indexings, Ramps
  <2> QED BY <1>2, <1>8, <2>1, <2>2, FillIsRight
<1>9. CASE kernel \in MathFunctions
  <2>1. \A j \in Lanes : SSE.four[j] = MathFunction(kernel, j)
    BY <1>9, SSEOfKernel DEF MathSSE, Loops
  <2>2. kernel \notin HandsOver
    BY <1>9 DEF HandsOver, Means, Indexings, Ramps, MathFunctions
  <2> QED BY <1>2, <1>3, <1>9, <2>1, <2>2, MathIsRight
<1>10. CASE kernel \in Gains3
  <2>1. \A j \in Lanes : SSE.four[j] = Gain(j)
    BY <1>10, SSEOfKernel DEF GainSSE, Loops
  <2>2. kernel \notin HandsOver
    BY <1>10 DEF Gains3, HandsOver, Means, Indexings, Ramps
  <2> QED BY <1>2, <1>3, <1>10, <2>1, <2>2, GainIsRight
<1>11. CASE kernel \in ArithmeticKernels
  <2>1. \A j \in Lanes : SSE.four[j] = Arithmetic(j)
    BY <1>11, SSEOfKernel DEF ArithmeticKernels, ArithmeticSSE, Loops
  <2>2. kernel \notin HandsOver
    BY <1>11 DEF ArithmeticKernels, HandsOver, Means, Indexings, Ramps
  <2> QED BY <1>2, <1>3, <1>11, <2>1, <2>2, ArithmeticIsRight
<1>12. CASE kernel = "pan"
  <2>1. kernel \notin HandsOver
    BY <1>12 DEF HandsOver, Means, Indexings, Ramps
  <2> QED BY <1>2, <1>12, <2>1
<1>13. CASE kernel = "sfzInterpolationCast"
  <2>1. \A j \in Lanes : SSE.four[j] = Converted(V("in", j))
    BY <1>13, SSEOfKernel DEF CastSSE, Loops
  <2>2. kernel \notin HandsOver
    BY <1>13 DEF HandsOver, Means, Indexings, Ramps
  <2> QED BY <1>2, <1>3, <1>13, <2>1, <2>2, CastIsRight
<1>14. CASE kernel = "cumsum"
  <2>1. kernel \notin HandsOver /\ kernel \in Scans
    BY <1>14 DEF HandsOver, Means, Indexings, Ramps, Scans
  <2> QED BY <1>2, <1>14, <2>1, CumsumIsRight
<1>15. CASE kernel = "diff"
  <2>1. kernel \notin HandsOver /\ kernel \in Scans
    BY <1>15 DEF HandsOver, Means, Indexings, Ramps, Scans
  <2> QED BY <1>2, <1>15, <2>1, DiffIsRight
<1> QED BY <1>1, <1>4, <1>5, <1>6, <1>7, <1>8, <1>9, <1>10, <1>11, <1>12, <1>13, <1>14, <1>15
        DEF Kernels, Scans, Interleaved, Gains3, ArithmeticKernels

\* A call whose pointers are at the m-th element has done those before right, and hands over
\* what they make.
RunsAt(m) ==
    /\ At(m) /\ CarryIs(m, carry) /\ byLanes \subseteq 0 .. m - 1
    /\ \A i \in 0 .. m - 1 : i < Common => KnownWrong(i) \/ RightIn(memory, i)
    /\ phase = "head" /\ kernel \in Scans /\ size["in"] > 0 => m > 0
    /\ phase = "returned" => m >= Common

MatchInv == Running => \E m \in Nat : RunsAt(m)

\* The pointers tell where a call is.
LEMMA PlaceIsOne ==
    ASSUME LegalCall(call), call' = call, CallInv', Running', NEW k \in Nat,
           at' = [o \in Operands(kernel) |-> k * Stride(kernel, o)]
    PROVE  PlaceIn(k)'
<1>1. PICK n \in Nat : PlaceIn(n)'
  BY DEF CallInv
<1>2. kernel' = kernel
  BY DEF kernel
<1>3. at' = [o \in Operands(kernel) |-> n * Stride(kernel, o)]
  BY <1>1, <1>2 DEF PlaceIn
<1>4. PICK o \in Operands(kernel) : Stride(kernel, o) \in {1, 2}
  BY CommonIsShortest
<1>5. k * Stride(kernel, o) = n * Stride(kernel, o)
  BY <1>3, <1>4
<1>6. k = n
  BY <1>4, <1>5
<1> QED BY <1>1, <1>6

\* A step that writes what is right goes on.
LEMMA StepIsRight ==
    ASSUME NEW m \in Nat, RunsAt(m), NEW n \in {1, 4}, NEW w, Advance(n, w), call' = call,
           CallInv', phase' \in {"loop", "head"},
           byLanes' = byLanes \/ byLanes' = byLanes \cup (m .. m + n - 1),
           \A j \in 0 .. n - 1 : m + j < Common => WrittenIsRight(m + j, w[j]) \/ KnownWrong(m + j)',
           CarryIs(m + n, carry')
    PROVE  RunsAt(m + n)'
<1>1. RightCall(call) /\ PlaceIn(m) /\ Untouched(m) /\ LegalCall(call)
  BY DEF RunsAt, At, RightCall
<1>2. PICK k \in Nat : k = m + n
  OBVIOUS
<1>3. PlaceIn(k)'
  <2>1. at' = [o \in Operands(kernel) |-> (m + n) * Stride(kernel, o)]
    BY <1>1, AdvanceMoves
  <2> QED BY <1>1, <1>2, <2>1, PlaceIsOne DEF Running
<1>4. Untouched(m + n)'
  BY <1>1, UntouchedGoesOn
<1>5. RightCall(call)'
  BY <1>1 DEF RightCall, LegalCall
<1>6. At(k)'
  BY <1>2, <1>3, <1>4, <1>5 DEF At
<1>7. /\ kernel' = kernel /\ lanes' = lanes /\ Common' = Common /\ start' = start
      /\ \A i : SumTo(i)' = SumTo(i) /\ Position(i)' = Position(i)
      /\ \A o, i : Written(o, i)' = Written(o, i)
  BY ReferenceStays
<1>8. CarryIs(k, carry)'
  BY <1>2, <1>7 DEF CarryIs
<1>9. byLanes' \subseteq 0 .. k - 1
  <2>1. 0 .. m - 1 \subseteq 0 .. k - 1 /\ m .. m + n - 1 \subseteq 0 .. k - 1
    BY <1>2
  <2> QED BY <2>1 DEF RunsAt
<1>10. ASSUME NEW i \in 0 .. k - 1, i < Common
       PROVE  KnownWrong(i)' \/ RightIn(memory', i)
  <2>1. CASE i \in 0 .. m - 1
    <3>1. i \notin m .. m + n - 1
      BY <2>1
    <3>2. i \in byLanes' <=> i \in byLanes
      BY <3>1
    <3>3. KnownWrong(i) => KnownWrong(i)'
      BY <1>7, <3>2 DEF KnownWrong
    <3>4. RightIn(memory, i) => RightIn(memory', i)
      BY <1>1, <1>10, <2>1, OldStayRight
    <3> QED BY <1>10, <2>1, <3>3, <3>4 DEF RunsAt
  <2>2. CASE i \notin 0 .. m - 1
    <3>1. PICK j \in 0 .. n - 1 : i = m + j
      <4>1. i - m \in 0 .. n - 1 /\ i = m + (i - m)
        BY <1>2, <2>2
      <4> QED BY <4>1
    <3>2. WrittenIsRight(m + j, w[j]) => RightIn(memory', m + j)
      BY <1>1, <1>10, <3>1, NewAreRight
    <3> QED BY <1>10, <3>1, <3>2
  <2> QED BY <2>1, <2>2
<1>11. \A i \in 0 .. k - 1 : i < Common' => KnownWrong(i)' \/ RightIn(memory, i)'
  <2>1. \A i : RightIn(memory, i)' <=> RightIn(memory', i)
    <3>1. \A i : ElementIsRight(i)' <=> RightIn(memory', i)
      BY RightIsRightIn
    <3>2. \A i : ElementIsRight(i)' <=> RightIn(memory, i)'
      BY DEF ElementIsRight, RightIn
    <3> QED BY <3>1, <3>2
  <2> QED BY <1>7, <1>10, <2>1
<1>12. k > 0
  BY <1>2
<1>13. phase' # "returned"
  OBVIOUS
<1>14. RunsAt(k)'
  BY <1>6, <1>8, <1>9, <1>11, <1>12, <1>13 DEF RunsAt
<1> QED BY <1>2, <1>14

\* What is before the pointers of a sum is right.
LEMMA SumIsRight ==
    ASSUME NEW m \in Nat \ {0}, RunsAt(m), kernel = "cumsum"
    PROVE  RightIn(memory, m - 1)
<1>1. ~ RunsOver /\ ~ KnownWrong(m - 1)
  BY DEF RunsOver, KnownWrong
<1>2. m <= Common /\ Common \in Nat
  BY <1>1, CommonIsShortest DEF RunsAt, At, RightCall, PlaceIn
<1>3. m - 1 \in 0 .. m - 1 /\ m - 1 < Common
  BY <1>2
<1> QED BY <1>1, <1>3 DEF RunsAt

\* A call returns behind the last element.
LEMMA ReturnsBehind ==
    ASSUME LegalCall(call), NEW m \in Nat, PlaceIn(m), Return, CallInv'
    PROVE  m >= Common
<1>1. call' = call /\ at' = [o \in Operands(kernel) |-> m * Stride(kernel, o)] /\ phase' = "returned"
  BY DEF Return, PlaceIn
<1>2. Common \in Nat /\ \A o \in Operands(kernel) : Common <= Room(o) /\ size[o] \in Nat
  BY CommonIsShortest DEF LegalCall, LegalSpans, kernel, size
<1>3. CASE ~ RunsOver
  <2>1. PlaceIn(m)'
    BY <1>1, PlaceIsOne DEF Running
  <2>2. RunsOver' = RunsOver /\ Common' = Common
    BY <1>1, ReferenceStays DEF RunsOver
  <2> QED BY <1>1, <1>2, <1>3, <2>1, <2>2 DEF PlaceIn
<1>4. CASE RunsOver
  <2>1. phase = "head" /\ lanes
    BY <1>4 DEF Return, RunsOver, PlaceIn
  <2>2. PICK b, e : b = SSE.bound /\ e = SSE.end
    OBVIOUS
  <2>3. at[b] >= e
    BY <2>1, <2>2 DEF Return
  <2>4. CASE kernel \in Gains3
    <3>1. "out" \in Operands(kernel) /\ kernel \notin Interleaved
      BY <2>4 DEF Operands, Outputs, Gains3, Means, Indexings, Interleaved
    <3>2. /\ b \in Operands(kernel) /\ e = size["out"]
          /\ \A o \in Operands(kernel) : Stride(kernel, o) = 1 /\ Room(o) = size[o]
      BY <2>2, <2>4, <3>1, PlainLoops
    <3>3. at[b] = m
      BY <3>2 DEF PlaceIn
    <3> QED BY <1>2, <2>3, <3>1, <3>2, <3>3
  <2>5. CASE kernel = "writeInterleaved"
    <3>1. b \in Operands(kernel) /\ Stride(kernel, b) = 2 /\ e = size[b] - 1
      BY <2>2, <2>5, InterleavedLoops DEF Interleaved
    <3>2. at[b] = m * 2
      BY <3>1 DEF PlaceIn
    <3>3. PICK s \in Nat : s = size[b]
      BY <1>2, <3>1
    <3>4. m * 2 >= s - 1
      BY <2>3, <3>1, <3>2, <3>3
    <3>5. m >= s \div 2
      BY <3>4
    <3> QED BY <1>2, <3>1, <3>3, <3>5 DEF Room
  <2> QED BY <1>4, <2>4, <2>5 DEF RunsOver, Gains3
<1> QED BY <1>3, <1>4

LEMMA MatchGoesOn ==
    ASSUME CallInv, MatchInv, KernelStep
    PROVE  MatchInv'
<1>1. Running
  BY DEF Running, KernelStep, Loop, First, Single, Four, Return, InHead, InRest, InFours
<1>2. PICK m \in Nat : RunsAt(m)
  BY <1>1 DEF MatchInv
<1>3. call' = call /\ CallInv'
  BY CallGoesOn DEF KernelStep, Loop, First, Single, Four, Return
<1>4. At(m) /\ RightCall(call) /\ PlaceIn(m) /\ LegalCall(call) /\ CarryIs(m, carry)
  BY <1>2 DEF RunsAt, At, RightCall
<1>5. Common \in Nat
  BY <1>4, CommonIsShortest
<1>6. kernel = "cumsum" /\ m > 0 => RightIn(memory, m - 1)
  BY <1>2, SumIsRight
<1>7. \A n \in {1, 4} : RunsAt(m + n)' => MatchInv'
  <2>1. \A n \in {1, 4} : m + n \in Nat
    OBVIOUS
  <2> QED BY <2>1 DEF MatchInv
<1>8. m < Common => WrittenIsRight(m, Snippet) /\ CarryIs(m + 1, SnippetCarry)
  BY <1>4, <1>6, SnippetIsRight
<1>9. kernel' = kernel /\ lanes' = lanes
  BY <1>3, ReferenceStays
<1>10. ASSUME NEW w, Advance(1, [j \in {0} |-> w]), phase' \in {"loop", "head"}, byLanes' = byLanes,
              m < Common => WrittenIsRight(m, w) \/ KnownWrong(m)',
              CarryIs(m + 1, carry')
       PROVE  MatchInv'
  <2> DEFINE f == [j \in {0} |-> w]
  <2>1. \A j \in 0 .. 1 - 1 : j = 0 /\ m + j = m /\ f[j] = w
    OBVIOUS
  <2>2. Advance(1, f)
    BY <1>10
  <2> HIDE DEF f
  <2>3. \A j \in 0 .. 1 - 1 : m + j < Common => WrittenIsRight(m + j, f[j]) \/ KnownWrong(m + j)'
    BY <1>10, <2>1
  <2>4. RunsAt(m + 1)'
    BY <1>2, <1>3, <1>10, <2>2, <2>3, StepIsRight
  <2> QED BY <1>7, <2>4
<1>11. ASSUME phase' \in {"loop", "head"}, at' = [o \in Operands(kernel) |-> (m + 1) * Stride(kernel, o)]
       PROVE  m < Common \/ RunsOver
  <2>1. PlaceIn(m + 1)'
    BY <1>3, <1>4, <1>11, PlaceIsOne DEF Running
  <2>2. RunsOver' = RunsOver /\ Common' = Common
    BY <1>3, ReferenceStays DEF RunsOver
  <2>3. m + 1 <= Common \/ RunsOver
    BY <2>1, <2>2 DEF PlaceIn
  <2> QED BY <1>5, <2>3
<1>12. CASE Loop
  <2>1. Advance(1, [j \in {0} |-> Snippet]) /\ phase' = "loop" /\ byLanes' = byLanes
        /\ carry' = SnippetCarry
    BY <1>12 DEF Loop, One
  <2>2. m < Common
    <3>1. ~ RunsOver
      BY <1>4, <1>12 DEF Loop, PlaceIn, RunsOver
    <3>2. at' = [o \in Operands(kernel) |-> (m + 1) * Stride(kernel, o)]
      BY <1>4, <2>1, AdvanceMoves
    <3> QED BY <1>11, <2>1, <3>1, <3>2
  <2> QED BY <1>8, <1>10, <2>1, <2>2
<1>13. CASE First
  <2>1. Advance(1, [j \in {0} |-> Snippet]) /\ phase' = "head" /\ byLanes' = byLanes
        /\ carry' = carry
    BY <1>13 DEF First, One
  <2>2. kernel \in Scans
    BY <1>4, <1>13 DEF First, PlaceIn
  <2>3. CarryIs(m + 1, carry')
    BY <2>2, NothingHandedOver DEF HandsOver, Scans, Means, Indexings, Ramps
  <2> QED BY <1>8, <1>10, <2>1, <2>3
<1>14. CASE Single
  <2>1. Advance(1, [j \in {0} |-> SSE.single]) /\ phase' = "head" /\ byLanes' = byLanes
        /\ carry' = SnippetCarry /\ lanes
    BY <1>4, <1>14 DEF Single, One, InHead, InRest, PlaceIn
  <2>2. m < Common \/ RunsOver
    <3>1. at' = [o \in Operands(kernel) |-> (m + 1) * Stride(kernel, o)]
      BY <1>4, <2>1, AdvanceMoves
    <3> QED BY <1>11, <2>1, <3>1
  <2>3. CarryIs(m + 1, carry')
    <3>1. RunsOver => kernel \notin HandsOver
      BY DEF RunsOver, HandsOver, Means, Indexings, Ramps
    <3> QED BY <1>8, <2>1, <2>2, <3>1, NothingHandedOver
  <2>4. m \notin byLanes
    <3>1. m \notin 0 .. m - 1
      OBVIOUS
    <3> QED BY <1>2, <3>1 DEF RunsAt
  <2>5. kernel \in {"cos", "log", "sin"} => KnownWrong(m)'
    BY <1>9, <2>1, <2>4 DEF KnownWrong
  <2>6. m < Common => WrittenIsRight(m, SSE.single) \/ KnownWrong(m)'
    BY <1>4, <1>8, <2>5, SingleIsSnippet
  <2> QED BY <1>10, <2>1, <2>3, <2>6
<1>15. CASE Four
  <2>1. /\ Advance(4, SSE.four) /\ phase' = "head" /\ carry' = SSE.after /\ lanes
        /\ byLanes' = byLanes \cup {at[SSE.bound] \div Stride(kernel, SSE.bound) + j : j \in Lanes}
    BY <1>4, <1>15 DEF Four, InFours, PlaceIn, TypeAlignment
  <2>2. m + 4 <= Common
    <3>1. \A o \in Operands(kernel) : (m + 4) * Stride(kernel, o) <= size[o]
      BY <1>4, <1>15, FourAreThere DEF Four
    <3> QED BY <1>4, <3>1, CommonReaches
  <2>3. byLanes' = byLanes \cup (m .. m + 4 - 1)
    <3>1. PICK b : b = SSE.bound
      OBVIOUS
    <3>2. b \in Operands(kernel)
      BY <1>4, <2>1, <3>1, LoopBounds
    <3>3. at[b] = m * Stride(kernel, b) /\ Stride(kernel, b) \in {1, 2}
      BY <1>4, <3>2, CommonIsShortest DEF PlaceIn
    <3>4. at[b] \div Stride(kernel, b) = m
      BY <3>3
    <3>5. {m + j : j \in Lanes} = m .. m + 4 - 1
      <4>1. Lanes = 0 .. 3
        BY DEF Lanes, TypeAlignment
      <4>2. \A i \in m .. m + 4 - 1 : i - m \in 0 .. 3 /\ m + (i - m) = i
        OBVIOUS
      <4>3. \A j \in 0 .. 3 : m + j \in m .. m + 4 - 1
        OBVIOUS
      <4> QED BY <4>1, <4>2, <4>3
    <3> QED BY <2>1, <3>1, <3>4, <3>5
  <2>4. kernel \in Scans => m > 0
    <3> HAVE kernel \in Scans
    <3>1. "in" \in Operands(kernel) /\ Stride(kernel, "in") = 1
      BY DEF Scans, Operands, Inputs, Ramps, Stride
    <3>2. size["in"] \in Nat /\ Common <= size["in"]
      BY <1>4, <3>1, CommonIsShortest DEF LegalCall, LegalSpans, kernel, size, Room
    <3>3. size["in"] > 0
      BY <1>5, <2>2, <3>2
    <3> QED BY <1>2, <1>15, <3>3 DEF RunsAt, Four, InFours
  <2>5. kernel = "cumsum" => RightIn(memory, m - 1)
    BY <1>6, <2>4 DEF Scans
  <2>6. /\ kernel # "pan" => \A j \in Lanes : WrittenIsRight(m + j, SSE.four[j])
        /\ CarryIs(m + 4, SSE.after)
    BY <1>4, <2>2, <2>4, <2>5, FourAreRight
  <2>7. \A j \in 0 .. 4 - 1 : j \in Lanes /\ m + j \in m .. m + 4 - 1
    BY DEF Lanes, TypeAlignment
  <2>8. \A j \in 0 .. 4 - 1 : kernel = "pan" => KnownWrong(m + j)'
    BY <1>9, <2>3, <2>7 DEF KnownWrong
  <2>9. RunsAt(m + 4)'
    BY <1>2, <1>3, <2>1, <2>3, <2>6, <2>7, <2>8, StepIsRight
  <2> QED BY <1>7, <2>9
<1>16. CASE Return
  <2>1. UNCHANGED <<call, at, memory, carry, byLanes>> /\ phase' = "returned"
    BY <1>16 DEF Return
  <2>2. m >= Common
    BY <1>3, <1>4, <1>16, ReturnsBehind
  <2>3. /\ Common' = Common /\ kernel' = kernel /\ size' = size /\ start' = start /\ lanes' = lanes
        /\ \A i : SumTo(i)' = SumTo(i) /\ Position(i)' = Position(i)
        /\ \A o, i : Written(o, i)' = Written(o, i)
    BY <1>3, ReferenceStays
  <2>4. PlaceIn(m)'
    <3>1. at' = [o \in Operands(kernel) |-> m * Stride(kernel, o)]
      BY <1>4, <2>1 DEF PlaceIn
    <3> QED BY <1>3, <1>4, <2>1, <3>1, PlaceIsOne DEF Running
  <2>5. At(m)'
    <3>1. RightCall(call)'
      BY <1>3, <1>4 DEF RightCall, LegalCall
    <3>2. Untouched(m)'
      BY <1>4, <2>1, <2>3 DEF At, Untouched, Contents
    <3> QED BY <2>4, <3>1, <3>2 DEF At
  <2>6. \A i : RightIn(memory, i)' <=> RightIn(memory, i)
    <3>1. \A i : ElementIsRight(i)' <=> RightIn(memory', i)
      BY <1>3, RightIsRightIn
    <3>2. \A i : ElementIsRight(i)' <=> RightIn(memory, i)'
      BY DEF ElementIsRight, RightIn
    <3> QED BY <2>1, <3>1, <3>2
  <2>7. \A i : KnownWrong(i)' <=> KnownWrong(i)
    BY <2>1, <2>3 DEF KnownWrong
  <2>8. CarryIs(m, carry)'
    BY <1>4, <2>1, <2>3 DEF CarryIs
  <2>9. RunsAt(m)'
    BY <1>2, <2>1, <2>2, <2>3, <2>5, <2>6, <2>7, <2>8 DEF RunsAt
  <2> QED BY <2>9 DEF MatchInv
<1> QED BY <1>12, <1>13, <1>14, <1>15, <1>16 DEF KernelStep

\* Once a call has returned, all of its elements and its result are right.
LEMMA MatchIsRight ==
    ASSUME CallInv, MatchInv
    PROVE  MatchesReference
<1> SUFFICES ASSUME phase = "returned"
             PROVE  (\A i \in 0 .. Common - 1 : KnownWrong(i) \/ ElementIsRight(i)) /\ ResultIsRight
  BY DEF MatchesReference
<1>1. PICK m \in Nat : RunsAt(m)
  BY DEF MatchInv, Running
<1>2. Common \in Nat /\ m >= Common
  BY <1>1, CommonIsShortest DEF RunsAt, At, RightCall
<1>3. \A i \in 0 .. Common - 1 : KnownWrong(i) \/ ElementIsRight(i)
  <2>1. \A i \in 0 .. Common - 1 : i \in 0 .. m - 1 /\ i < Common
    BY <1>2
  <2> QED BY <1>1, <2>1, RightIsRightIn DEF RunsAt
<1>4. kernel \in HandsOver => m = Common
  <2>1. kernel \in HandsOver => ~ RunsOver
    BY DEF RunsOver, HandsOver, Means, Indexings, Ramps
  <2> QED BY <1>1, <2>1 DEF RunsAt, At, PlaceIn
<1>5. CarryIs(m, carry)
  BY <1>1 DEF RunsAt
<1>6. ResultIsRight
  <2>1. CASE kernel \in Means
    BY <1>4, <1>5, <2>1 DEF ResultIsRight, CarryIs, HandsOver, Means, Indexings, Ramps
  <2>2. CASE kernel \in Indexings
    BY <1>2, <1>4, <1>5, <2>2 DEF ResultIsRight, CarryIs, HandsOver, Means, Indexings, Ramps
  <2>3. CASE kernel \in Ramps
    BY <1>2, <1>4, <1>5, <2>3 DEF ResultIsRight, CarryIs, HandsOver, Means, Indexings, Ramps
  <2>4. CASE kernel \notin HandsOver
    BY <2>4 DEF ResultIsRight, HandsOver
  <2> QED BY <2>1, <2>2, <2>3, <2>4 DEF HandsOver
<1> QED BY <1>3, <1>6

-----------------------------------------------------------------------------
(* How a call begins.                                                        *)

\* Nothing is written yet.
LEMMA RunBegins ==
    /\ RightCall(call) /\ at = Pointers(call) /\ memory = Contents(call)
    /\ carry = call.start /\ byLanes = {} /\ phase = Entry(call)
    => MatchInv
<1> SUFFICES ASSUME RightCall(call), at = Pointers(call), memory = Contents(call),
                    carry = call.start, byLanes = {}, phase = Entry(call)
             PROVE  RunsAt(0)
  <2>1. 0 \in Nat
    OBVIOUS
  <2> QED BY <2>1 DEF MatchInv
<1>1. LegalCall(call) /\ PlaceIn(0)
  BY CallBegins DEF RightCall
<1>2. DOMAIN call.size = Operands(kernel) /\ \A o \in Operands(kernel) : Stride(kernel, o) \in {1, 2}
  BY <1>1, CommonIsShortest DEF LegalCall, LegalSpans, kernel
<1>3. memory = [o \in Operands(kernel) |->
                    given[IF inPlace /\ o = InPlaceOutput(kernel) THEN "in" ELSE o]]
  BY <1>2 DEF Contents, given, inPlace, kernel
<1>4. Untouched(0)
  <2>1. \A o \in Operands(kernel) : DOMAIN memory[o] = 0 .. size[o] - 1
    <3> TAKE o \in Operands(kernel)
    <3>1. CASE inPlace /\ o = InPlaceOutput(kernel)
      <4>1. /\ memory[o] = given["in"] /\ size["in"] = size[o] /\ "in" \in Operands(kernel)
        BY <1>3, <3>1 DEF RightCall, inPlace, kernel, size, Operands
      <4> QED BY <4>1 DEF RightCall, given, kernel, size
    <3>2. CASE ~ (inPlace /\ o = InPlaceOutput(kernel))
      <4>1. memory[o] = given[o]
        BY <1>3, <3>2
      <4> QED BY <4>1 DEF RightCall, given, kernel, size
    <3> QED BY <3>1, <3>2
  <2>2. DOMAIN memory = Operands(kernel)
    BY <1>3
  <2> QED BY <2>1, <2>2 DEF Untouched
<1>5. CarryIs(0, carry)
  <2>1. kernel \in Means => start \in Int
    BY DEF RightCall, kernel, start
  <2>2. SumTo(0 - 1) = 0
    <3>1. 0 \in Nat /\ NumbersBefore("in", 0) /\ 0 \in 0 .. 0
      BY DEF NumbersBefore
    <3> QED BY <3>1, SumsExist
  <2>3. carry = start
    BY DEF start
  <2> QED BY <2>1, <2>2, <2>3 DEF CarryIs, Means, Ramps, Indexings
<1>6. phase = "head" => ~ (kernel \in Scans /\ size["in"] > 0)
  BY DEF Entry, kernel, size
<1>7. phase # "returned"
  BY DEF Entry
<1> QED BY <1>1, <1>4, <1>5, <1>6, <1>7 DEF RunsAt, At

\* The calls that are made of each kernel for itself are such calls.
LEMMA TestCallBegins == TestCall => CallInv /\ MatchInv
<1> SUFFICES ASSUME NEW k \in Kernels, NEW n \in Elements, NEW spare \in Spares, NEW odd \in {0, 1},
                    NEW inLanes \in BOOLEAN, NEW same \in BOOLEAN,
                    NEW begins \in [Operands(k) -> IF inLanes THEN Lanes ELSE {0}],
                    odd = 1 => k = "readInterleaved",
                    same => k \in CalledInPlace /\ spare = 0,
                    Called([kernel |-> k, lanes |-> inLanes, inPlace |-> same,
                         value |-> 3, start |-> IF k \in Means THEN 0 ELSE 1,
                         size |-> [o \in Operands(k) |-> Length(k, o, n, spare, odd)],
                         offset |-> begins,
                         given |-> [o \in Operands(k) |->
                             [i \in 0 .. Length(k, o, n, spare, odd) - 1 |-> Arbitrary(k, o, i)]]])
             PROVE  CallInv /\ MatchInv
  BY DEF TestCall
<1>1. /\ call.kernel = k /\ call.lanes = inLanes /\ call.offset = begins
      /\ call.size = [o \in Operands(k) |-> Length(k, o, n, spare, odd)]
      /\ call.inPlace = same /\ call.value = 3 /\ call.start = IF k \in Means THEN 0 ELSE 1
      /\ call.given = [o \in Operands(k) |->
                          [i \in 0 .. Length(k, o, n, spare, odd) - 1 |-> Arbitrary(k, o, i)]]
      /\ at = Pointers(call) /\ memory = Contents(call) /\ carry = call.start /\ byLanes = {}
      /\ phase = Entry(call)
  BY DEF Called
<1>2. n \in Nat /\ spare \in Nat
  BY SpansAssumption DEF SpansAssumption
<1>3. \A o \in Operands(k) :
          /\ Stride(k, o) \in {1, 2} /\ Length(k, o, n, spare, odd) \in Nat
          /\ o \in Inputs(k) /\ o \notin Outputs(k) =>
                Length(k, o, n, spare, odd) \div Stride(k, o) = n
          /\ o \in Outputs(k) => n <= Length(k, o, n, spare, odd) \div Stride(k, o)
  <2> TAKE o \in Operands(k)
  <2>1. Stride(k, o) \in {1, 2}
    BY DEF Stride
  <2>2. CASE Stride(k, o) = 1
    BY <1>2, <2>2 DEF Length
  <2>3. CASE Stride(k, o) = 2
    BY <1>2, <2>3 DEF Length
  <2> QED BY <2>1, <2>2, <2>3
<1>4. \A i \in Inputs(k), o \in Outputs(k) :
          Length(k, i, n, spare, odd) \div Stride(k, i)
            <= Length(k, o, n, spare, odd) \div Stride(k, o)
  <2> TAKE i \in Inputs(k), o \in Outputs(k)
  <2>1. i \notin Outputs(k)
    BY DEF Inputs, Outputs, Ramps, Means, Indexings
  <2>2. i \in Operands(k) /\ o \in Operands(k)
    BY DEF Operands
  <2> QED BY <1>3, <2>1, <2>2
<1>5. LegalSpans(k, call.size, call.offset)
  <2>1. begins \in [Operands(k) -> Nat]
    BY DEF Lanes, TypeAlignment
  <2>2. call.size \in [Operands(k) -> Nat]
    BY <1>1, <1>3
  <2>3. \A o \in Operands(k) : call.size[o] = Length(k, o, n, spare, odd)
    BY <1>1
  <2>4. Inputs(k) \subseteq Operands(k) /\ Outputs(k) \subseteq Operands(k)
    BY DEF Operands
  <2>5. \A i \in Inputs(k), o \in Outputs(k) :
            call.size[i] \div Stride(k, i) <= call.size[o] \div Stride(k, o)
    BY <1>4, <2>3, <2>4
  <2> QED BY <1>1, <2>1, <2>2, <2>5 DEF LegalSpans
<1>6. LegalCall(call)
  BY <1>1, <1>5 DEF LegalCall
<1>7. ASSUME same
      PROVE  /\ k \notin Interleaved \cup {"diff"} /\ k \in CalledInPlace
             /\ "in" \in Inputs(k) /\ InPlaceOutput(k) \in Outputs(k)
             /\ call.size["in"] = call.size[InPlaceOutput(k)]
  <2>1. k \in CalledInPlace /\ spare = 0 /\ odd = 0
    BY <1>7 DEF CalledInPlace
  <2>2. /\ k \notin Interleaved \cup {"diff"} /\ k # "readInterleaved" /\ k # "writeInterleaved"
        /\ "in" \in Inputs(k) /\ InPlaceOutput(k) \in Outputs(k)
    BY <2>1 DEF CalledInPlace, Interleaved, Inputs, Outputs, InPlaceOutput, Ramps, Means, Indexings
  <2>3. \A o : Length(k, o, n, spare, odd) = n * 1 + 0
    <3>1. \A o : Stride(k, o) = 1
      BY <2>2 DEF Stride
    <3> QED BY <2>1, <3>1 DEF Length
  <2>4. "in" \in Operands(k) /\ InPlaceOutput(k) \in Operands(k)
    BY <2>2 DEF Operands
  <2> QED BY <1>1, <2>1, <2>2, <2>3, <2>4
<1>8. ASSUME k \in Scans \cup Means \cup Indexings \cup {"sfzInterpolationCast"},
             NEW i \in 0 .. call.size["in"] - 1
      PROVE  /\ call.given["in"][i] \in Int
             /\ k \in Indexings => call.given["in"][i] \in 0 .. 5
  <2>1. "in" \in Operands(k)
    BY <1>8 DEF Operands, Inputs, Scans, Means, Indexings, Ramps
  <2>2. call.given["in"][i] = Arbitrary(k, "in", i) /\ i \in Nat
    <3>1. call.size["in"] = Length(k, "in", n, spare, odd) /\ Length(k, "in", n, spare, odd) \in Nat
      BY <1>1, <1>3, <2>1
    <3>2. i \in 0 .. Length(k, "in", n, spare, odd) - 1 /\ i \in Nat
      BY <1>8, <3>1
    <3>3. call.given["in"] = [j \in 0 .. Length(k, "in", n, spare, odd) - 1 |-> Arbitrary(k, "in", j)]
      BY <1>1, <2>1
    <3> QED BY <3>2, <3>3
  <2>3. CASE k \in Indexings
    <3>1. Arbitrary(k, "in", i) = 3 + (i % 3)
      BY <2>3 DEF Arbitrary, Indexings
    <3>2. 3 + (i % 3) \in 0 .. 5
      BY <2>2
    <3> QED BY <2>2, <3>1, <3>2
  <2>4. CASE k = "sfzInterpolationCast"
    <3>1. Arbitrary(k, "in", i) = 4 + 3 * i
      BY <2>4 DEF Arbitrary, Indexings
    <3> QED BY <2>2, <2>4, <3>1 DEF Indexings
  <2>5. CASE k \in Scans \cup Means
    <3>1. Arbitrary(k, "in", i) = 2 ^ i
      BY <2>5 DEF Arbitrary, Indexings, Scans, Means
    <3>2. 2 ^ i \in Int
      BY <2>2
    <3> QED BY <2>2, <2>5, <3>1, <3>2 DEF Indexings, Scans, Means
  <2> QED BY <1>8, <2>3, <2>4, <2>5
<1>9. RightCall(call)
  <2>1. call.value \in Int /\ call.start \in 0 .. LoopEnd - 1 /\ call.start \in Int
    BY <1>1 DEF LoopEnd
  <2>2. \A o \in Operands(k) : DOMAIN call.given[o] = 0 .. call.size[o] - 1
    BY <1>1
  <2>3. DOMAIN call.given = Operands(k)
    BY <1>1
  <2> QED BY <1>1, <1>6, <1>7, <1>8, <2>1, <2>2, <2>3 DEF RightCall
<1> QED BY <1>1, <1>6, <1>9, CallBegins, RunBegins

-----------------------------------------------------------------------------
(* Sorting.                                                                  *)

\* Numbers that increase within 1 .. n are all there are.
LEMMA IncreasingIsAll ==
    ASSUME NEW n \in Nat, NEW p \in [1 .. n -> 1 .. n],
           \A i, j \in 1 .. n : i < j => p[i] < p[j]
    PROVE  \A i \in 1 .. n : p[i] = i
<1> DEFINE Up == {k \in 0 .. n : k > 0 => p[k] >= k}
           Down == {k \in 0 .. n : n - k > 0 => p[n - k] <= n - k}
<1>1. 0 \in Up /\ \A k \in 1 .. n : k - 1 \in Up => k \in Up
  <2> SUFFICES ASSUME NEW k \in 1 .. n, k - 1 \in Up PROVE k \in Up
    OBVIOUS
  <2>1. CASE k = 1
    BY <2>1
  <2>2. CASE k # 1
    <3>1. k - 1 \in 1 .. n /\ p[k - 1] >= k - 1
      BY <2>2
    <3>2. p[k - 1] < p[k] /\ p[k] \in 1 .. n /\ p[k - 1] \in 1 .. n
      BY <3>1
    <3> QED BY <3>1, <3>2
  <2> QED BY <2>1, <2>2
<1>2. 0 \in Down /\ \A k \in 1 .. n : k - 1 \in Down => k \in Down
  <2>1. 0 \in Down
    OBVIOUS
  <2> SUFFICES ASSUME NEW k \in 1 .. n, k - 1 \in Down, n - k > 0 PROVE p[n - k] <= n - k
    BY <2>1
  <2>2. PICK i \in 1 .. n : i = n - k
    OBVIOUS
  <2>3. n - (k - 1) = i + 1 /\ i + 1 \in 1 .. n
    BY <2>2
  <2>4. p[i + 1] <= i + 1
    BY <2>3
  <2>5. p[i] < p[i + 1] /\ p[i] \in 1 .. n /\ p[i + 1] \in 1 .. n
    BY <2>3
  <2> QED BY <2>2, <2>4, <2>5
<1> HIDE DEF Up, Down
<1>3. 0 .. n \subseteq Up /\ 0 .. n \subseteq Down
  BY <1>1, <1>2, UpTo
<1> USE DEF Up, Down
<1> SUFFICES ASSUME NEW i \in 1 .. n PROVE p[i] = i
  OBVIOUS
<1>4. p[i] >= i
  <2>1. i \in Up
    BY <1>3
  <2> QED BY <2>1
<1>5. p[i] <= i
  <2>1. PICK k \in 0 .. n : k = n - i
    OBVIOUS
  <2>2. k \in Down /\ n - k = i
    BY <1>3, <2>1
  <2> QED BY <2>2
<1>6. p[i] \in 1 .. n
  OBVIOUS
<1> QED BY <1>4, <1>5, <1>6

\* No event is before one that is before it in the list.
InOrder(s) ==
    /\ \A i \in 1 .. Len(s) : s[i].time \in Nat
    /\ \A i, j \in 1 .. Len(s) : i <= j => s[i].time <= s[j].time

\* Events in order are in order when they are sorted, and stay as they are while the
\* sort only inserts.
LEMMA SortedStays ==
    ASSUME NEW S, NEW s \in Seq(S), InOrder(s)
    PROVE  /\ Sorted(s) \in Seq(S) /\ Len(Sorted(s)) = Len(s) /\ InOrder(Sorted(s))
           /\ \A i \in 1 .. Len(s) : \E j \in 1 .. Len(s) : Sorted(s)[i] = s[j]
           /\ Len(s) <= StableUpTo => Sorted(s) = s
<1> DEFINE D == 1 .. Len(s)
           Before(a, b) == \/ s[a].time < s[b].time
                           \/ s[a].time = s[b].time /\ (Len(s) <= StableUpTo => a < b)
           same == [i \in D |-> i]
           order == CHOOSE p \in [D -> D] :
                       IsInjective(p) /\ \A i, j \in D : i < j => Before(p[i], p[j])
           r == Sorted(s)
<1>1. DOMAIN s = D /\ Len(s) \in Nat /\ s = [i \in D |-> s[i]] /\ \A i \in D : s[i] \in S
  OBVIOUS
<1>2. r = [i \in D |-> s[order[i]]]
  BY <1>1 DEF Sorted
<1>3. \A a, b \in D : a < b => Before(a, b)
  <2> TAKE a, b \in D
  <2>1. /\ s[a].time \in Nat /\ s[b].time \in Nat
        /\ a <= b => s[a].time <= s[b].time
    BY DEF InOrder
  <2> QED BY <1>1, <2>1
<1>a. \A a, b \in D : Before(a, b) => s[a].time <= s[b].time
  <2> TAKE a, b \in D
  <2>1. s[a].time \in Nat /\ s[b].time \in Nat
    BY DEF InOrder
  <2> QED BY <2>1
<1>b. Len(s) <= StableUpTo => \A a, b \in D : Before(a, b) => a < b
  <2> SUFFICES ASSUME Len(s) <= StableUpTo, NEW a \in D, NEW b \in D, Before(a, b) PROVE a < b
    OBVIOUS
  <2>1. /\ s[a].time \in Nat /\ s[b].time \in Nat
        /\ b <= a => s[b].time <= s[a].time
    BY DEF InOrder
  <2> QED BY <1>1, <2>1
<1> HIDE DEF Before
<1>4. /\ same \in [D -> D] /\ IsInjective(same)
      /\ \A i, j \in D : i < j => Before(same[i], same[j])
  BY <1>3 DEF IsInjective
<1>5. order \in [D -> D] /\ \A i, j \in D : i < j => Before(order[i], order[j])
  BY <1>4
<1> HIDE DEF order, r
<1>6. r \in Seq(S) /\ Len(r) = Len(s)
  BY <1>1, <1>2, <1>5
<1>7. \A i \in D : order[i] \in D /\ r[i] = s[order[i]]
  BY <1>2, <1>5
<1>8. InOrder(r)
  <2>1. \A i \in D : r[i].time \in Nat
    BY <1>7 DEF InOrder
  <2>2. ASSUME NEW i \in D, NEW j \in D, i <= j PROVE r[i].time <= r[j].time
    <3>1. CASE i = j
      BY <2>1, <3>1
    <3>2. CASE i < j
      BY <1>5, <1>7, <1>a, <3>2
    <3> QED BY <1>1, <2>2, <3>1, <3>2
  <2> QED BY <1>6, <2>1, <2>2 DEF InOrder
<1>9. ASSUME Len(s) <= StableUpTo PROVE r = s
  <2>1. \A i, j \in D : i < j => order[i] < order[j]
    BY <1>5, <1>b, <1>9
  <2>2. PICK n \in Nat : n = Len(s)
    BY <1>1
  <2>3. \A i \in D : order[i] = i
    BY <1>5, <2>1, <2>2, IncreasingIsAll
  <2> QED BY <1>1, <1>2, <2>3
<1>10. Sorted(s) = r
  BY DEF r
<1> QED BY <1>6, <1>7, <1>8, <1>9, <1>10

\* The events of a level as a block takes them.
Taken(l) == Sorted(events[l])

-----------------------------------------------------------------------------
(* Programs.                                                                 *)

\* A span of a buffer that is n frames long.
IsSpan(s, n) == s.length = n /\ s.from \in Nat

\* The kernels that a voice plays.
Played ==
    {"fill", "linearRamp", "copy", "add", "subtract", "applyGain", "applyGainSpan",
     "multiplyAdd", "cos", "sin"}

\* A call on spans of one length; and a ramp is of numbers.
LegalStep(c) ==
    c.kernel \in Kernels =>
        /\ c.kernel \in Played
        /\ DOMAIN c.spans = Operands(c.kernel)
        /\ \E n \in Nat : \A o \in Operands(c.kernel) : IsSpan(c.spans[o], n)
        /\ c.kernel = "linearRamp" => c.value \in Int /\ c.start \in Int

LEMMA PlayedAre ==
    \A k \in Played :
        /\ k \notin Interleaved /\ Outputs(k) = {"out"} /\ "out" \in Operands(k)
        /\ "in" \in Operands(k) => "in" \in Inputs(k)
        /\ k \in Ramps => k = "linearRamp"
        /\ k \notin Means \cup Indexings \cup Scans \cup {"sfzInterpolationCast"}
  BY DEF Played, Interleaved, Operands, Inputs, Outputs, Ramps, Means, Indexings, Scans

IsProgram(p) == \E S : p \in Seq(S) /\ \A c \in S : LegalStep(c)

\* One program after another is a program.
LEMMA ProgramsJoin ==
    ASSUME NEW p, NEW q, IsProgram(p), IsProgram(q)
    PROVE  IsProgram(p \o q)
<1>1. PICK S : p \in Seq(S) /\ \A c \in S : LegalStep(c)
  BY DEF IsProgram
<1>2. PICK T : q \in Seq(T) /\ \A c \in T : LegalStep(c)
  BY DEF IsProgram
<1>3. p \in Seq(S \cup T) /\ q \in Seq(S \cup T)
  <2>1. S \subseteq S \cup T /\ T \subseteq S \cup T
    OBVIOUS
  <2> QED BY <1>1, <1>2
<1>4. p \o q \in Seq(S \cup T)
  BY <1>3, ConcatProperties
<1>5. \A c \in S \cup T : LegalStep(c)
  BY <1>1, <1>2
<1> QED BY <1>4, <1>5 DEF IsProgram

LEMMA NoCalls == IsProgram(<< >>)
<1> DEFINE S == {}
<1>1. << >> \in Seq(S) /\ \A c \in S : LegalStep(c)
  OBVIOUS
<1> HIDE DEF S
<1> QED BY <1>1 DEF IsProgram

\* The first call of a program, and what is left of it.
LEMMA ProgramGoesOn ==
    ASSUME NEW p, IsProgram(p), p # << >>
    PROVE  LegalStep(Head(p)) /\ IsProgram(Tail(p))
<1>1. PICK S : p \in Seq(S) /\ \A c \in S : LegalStep(c)
  BY DEF IsProgram
<1>2. Head(p) \in S /\ Tail(p) \in Seq(S)
  BY <1>1, HeadTailProperties
<1> QED BY <1>1, <1>2 DEF IsProgram

LEMMA DoIsProgram ==
    ASSUME NEW k \in Played, NEW x, NEW first, NEW spans, NEW n \in Nat,
           DOMAIN spans = Operands(k),
           k = "linearRamp" => x \in Int /\ first \in Int,
           \A o \in DOMAIN spans : IsSpan(spans[o], n)
    PROVE  IsProgram(Do(k, x, first, spans))
<1> DEFINE c == [kernel |-> k, value |-> x, start |-> first, spans |-> spans]
<1>1. c.kernel = k /\ c.spans = spans /\ c.value = x /\ c.start = first
  OBVIOUS
<1>2. Do(k, x, first, spans) = <<c>>
  BY DEF Do
<1> HIDE DEF c
<1>3. LegalStep(c)
  BY <1>1 DEF LegalStep
<1> DEFINE S == {c}
<1>4. <<c>> \in Seq(S) /\ \A d \in S : LegalStep(d)
  BY <1>3
<1> HIDE DEF S
<1> QED BY <1>2, <1>4 DEF IsProgram

\* The calls that the voice makes.
LEMMA CallsOnSpans ==
    ASSUME NEW n \in Nat, NEW s, NEW t, NEW g, IsSpan(s, n), IsSpan(t, n), IsSpan(g, n),
           NEW x, NEW y
    PROVE  /\ IsProgram(Fill(x, s))
           /\ x \in Int /\ y \in Int => IsProgram(LinearRamp(s, x, y))
           /\ IsProgram(Copy(s, t)) /\ IsProgram(Add(s, t)) /\ IsProgram(Subtract(s, t))
           /\ IsProgram(ApplyGain(x, s)) /\ IsProgram(ApplyGainSpan(g, s))
           /\ IsProgram(MultiplyAdd(g, s, t))
           /\ IsProgram(Cos(s, t)) /\ IsProgram(Sin(s, t))
<1>1. \A k \in {"fill", "linearRamp"} :
          k \in Played /\ Operands(k) = {"out"}
  BY DEF Played, Operands, Inputs, Outputs, Ramps, Means, Indexings
<1>2. \A k \in {"copy", "add", "subtract", "applyGain", "cos", "sin"} :
          k \in Played /\ Operands(k) = {"in", "out"}
  BY DEF Played, Operands, Inputs, Outputs, Ramps, Means, Indexings
<1>3. \A k \in {"applyGainSpan", "multiplyAdd"} :
          k \in Played /\ Operands(k) = {"gain", "in", "out"}
  BY DEF Played, Operands, Inputs, Outputs, Ramps, Means, Indexings
<1>4. \A a : IsSpan(a, n) =>
          \A o \in DOMAIN [out |-> a] : IsSpan([out |-> a][o], n)
  OBVIOUS
<1>5. \A a, b : IsSpan(a, n) /\ IsSpan(b, n) =>
          \A o \in DOMAIN [in |-> a, out |-> b] : IsSpan([in |-> a, out |-> b][o], n)
  OBVIOUS
<1>6. \A a, b, c : IsSpan(a, n) /\ IsSpan(b, n) /\ IsSpan(c, n) =>
          \A o \in DOMAIN [gain |-> a, in |-> b, out |-> c] :
              IsSpan([gain |-> a, in |-> b, out |-> c][o], n)
  OBVIOUS
<1>7. ASSUME NEW k \in {"fill", "linearRamp"}, NEW v, NEW w,
             k = "linearRamp" => v \in Int /\ w \in Int
      PROVE  IsProgram(Do(k, v, w, [out |-> s]))
  <2>1. DOMAIN [out |-> s] = Operands(k) /\ k \in Played
    BY <1>1, <1>7
  <2> QED BY <1>4, <1>7, <2>1, DoIsProgram
<1>8. ASSUME NEW k \in {"copy", "add", "subtract", "applyGain", "cos", "sin"}, NEW v,
             NEW r \in {s, t}
      PROVE  IsProgram(Do(k, v, 0, [in |-> s, out |-> r]))
  <2>1. DOMAIN [in |-> s, out |-> r] = Operands(k) /\ k \in Played
    BY <1>2, <1>8
  <2> QED BY <1>5, <1>8, <2>1, DoIsProgram
<1>9. ASSUME NEW k \in {"applyGainSpan", "multiplyAdd"}, NEW r \in {s, t}
      PROVE  IsProgram(Do(k, 0, 0, [gain |-> g, in |-> s, out |-> r]))
  <2>1. DOMAIN [gain |-> g, in |-> s, out |-> r] = Operands(k) /\ k \in Played
    BY <1>3, <1>9
  <2> QED BY <1>6, <1>9, <2>1, DoIsProgram
<1>10. IsProgram(Fill(x, s)) /\ (x \in Int /\ y \in Int => IsProgram(LinearRamp(s, x, y)))
  BY <1>7 DEF Fill, LinearRamp
<1>11. /\ IsProgram(Copy(s, t)) /\ IsProgram(Add(s, t)) /\ IsProgram(Subtract(s, t))
       /\ IsProgram(ApplyGain(x, s)) /\ IsProgram(Cos(s, t)) /\ IsProgram(Sin(s, t))
  BY <1>8 DEF Copy, Add, Subtract, ApplyGain, Cos, Sin
<1>12. IsProgram(ApplyGainSpan(g, s)) /\ IsProgram(MultiplyAdd(g, s, t))
  BY <1>9 DEF ApplyGainSpan, MultiplyAdd
<1> QED BY <1>10, <1>11, <1>12

\* What is brought from outside is no kernel's.
LEMMA OutsideIsProgram ==
    ASSUME NEW k \in {"left", "right", "egEnvelope"}, NEW s
    PROVE  IsProgram(Outside(k, s))
<1> DEFINE c == [kernel |-> k, value |-> 0, start |-> 0, spans |-> [out |-> s]]
<1>1. c.kernel \notin Kernels
  BY DEF Kernels, MathFunctions, Scans, Means, Ramps, Indexings
<1>2. Outside(k, s) = <<c>>
  BY DEF Outside, Do
<1> HIDE DEF c
<1> DEFINE S == {c}
<1>3. <<c>> \in Seq(S) /\ \A d \in S : LegalStep(d)
  BY <1>1 DEF LegalStep
<1> HIDE DEF S
<1> QED BY <1>2, <1>3 DEF IsProgram

LEMMA MinOfTwo ==
    ASSUME NEW a \in Nat, NEW b \in Nat
    PROVE  Min({a, b}) \in {a, b} /\ Min({a, b}) <= a /\ Min({a, b}) <= b
<1> DEFINE T == {a, b}
<1>1. T \in SUBSET Int /\ T # {} /\ \A y \in T : 0 <= y
  OBVIOUS
<1>2. Min(T) \in T /\ \A y \in T : Min(T) <= y
  BY <1>1, FirstIsMin
<1> QED BY <1>2

LEMMA SubspanIsSpan ==
    ASSUME NEW n \in Nat, NEW s, IsSpan(s, n), NEW from \in Nat, NEW m \in Nat
    PROVE  IsSpan(Subspan(s, from, m), m)
<1>1. s.from + from \in Nat
  BY DEF IsSpan
<1> QED BY <1>1 DEF IsSpan, Subspan

\* The level, and those of its events, are numbers.
AreNumbers(l) ==
    levels[l] \in Int /\ \A i \in 1 .. Len(events[l]) : events[l][i].value \in Int

\* After k events of e a block has gone as far as the event k, is at its value, and has
\* made a ramp to each event so far that is later than the one before it.
GoesTo(f, e, v, s, n) ==
    /\ \A k \in 0 .. Len(e) :
          /\ f[k].index = IF k = 0 THEN 0 ELSE Min({e[k].time, n})
          /\ f[k].value = IF k = 0 THEN v ELSE e[k].value
          /\ f[k].index \in 0 .. n /\ f[k].value \in Int /\ IsProgram(f[k].calls)
    /\ f[0].calls = << >>
    /\ \A k \in 1 .. Len(e) :
          LET r == f[k - 1]
              length == f[k].index - r.index
          IN  /\ r.index <= f[k].index
              /\ f[k].calls = IF length = 0 THEN r.calls
                              ELSE r.calls \o LinearRamp(Subspan(s, r.index, length), r.value,
                                                        (f[k].value - r.value) \div length)

\* The calls that are left when a block is through its events.
Leaves(r, s, n) ==
    IF r.index < n
    THEN r.calls \o Fill(r.value, Subspan(s, r.index, n - r.index)) ELSE r.calls

\* A block of a level: a ramp to each event, and what is left.  No ramp is of fewer than
\* no frames, because the events are in order.
LEMMA GetBlockGoes ==
    ASSUME NEW l, NEW S, events[l] \in Seq(S), InOrder(events[l]), AreNumbers(l),
           NEW n \in Nat, NEW s, IsSpan(s, n)
    PROVE  \E f : /\ GoesTo(f, Taken(l), levels[l], s, n)
                 /\ GetBlock(l, s) = Leaves(f[Len(Taken(l))], s, n)
<1> DEFINE e == Sorted(events[l])
           N == Len(e)
           Begin == [index |-> 0, value |-> levels[l], calls |-> << >>]
           ToEvent(r, event) ==
              LET length == Min({event.time, s.length}) - r.index
              IN  [index |-> r.index + length, value |-> event.value,
                   calls |-> IF length = 0 THEN r.calls
                             ELSE r.calls \o LinearRamp(Subspan(s, r.index, length), r.value,
                                                       (event.value - r.value) \div length)]
           after == CHOOSE f : f = [k \in 0 .. N |-> IF k = 0 THEN Begin ELSE ToEvent(f[k - 1], e[k])]
           last == after[N]
<1>1. e = Taken(l) /\ N \in Nat /\ InOrder(e) /\ \A k \in 1 .. N : e[k].value \in Int
  BY SortedStays DEF Taken, AreNumbers
<1>2. GetBlock(l, s) = IF last.index < s.length
                       THEN last.calls \o Fill(last.value, Subspan(s, last.index, s.length - last.index))
                       ELSE last.calls
  BY DEF GetBlock
<1> HIDE DEF e, N, Begin
<1>3. after = [k \in 0 .. N |-> IF k = 0 THEN Begin ELSE ToEvent(after[k - 1], e[k])]
  <2> HIDE DEF ToEvent
  <2> DEFINE Good(f, m) == f = [k \in 0 .. m |-> IF k = 0 THEN Begin ELSE ToEvent(f[k - 1], e[k])]
             Reached == {m \in 0 .. N : \E f : Good(f, m)}
  <2>1. 0 \in Reached
    <3> DEFINE f == [k \in 0 .. 0 |-> Begin]
    <3>1. Good(f, 0)
      OBVIOUS
    <3> HIDE DEF f, Good
    <3>2. 0 \in 0 .. N
      BY <1>1
    <3> QED BY <3>1, <3>2
  <2>2. \A m \in 1 .. N : m - 1 \in Reached => m \in Reached
    <3> TAKE m \in 1 .. N
    <3> HAVE m - 1 \in Reached
    <3>1. PICK h : Good(h, m - 1)
      OBVIOUS
    <3> DEFINE f == [k \in 0 .. m |-> IF k = 0 THEN Begin ELSE ToEvent(h[k - 1], e[k])]
    <3>2. m \in Nat /\ m \in 0 .. N /\ m >= 1
      BY <1>1
    <3>3. \A k \in 0 .. m - 1 : f[k] = h[k]
      <4>1. \A k \in 0 .. m - 1 :
                h[k] = IF k = 0 THEN Begin ELSE ToEvent(h[k - 1], e[k])
        BY <3>1
      <4>2. \A k \in 0 .. m - 1 : k \in 0 .. m
        BY <3>2
      <4> QED BY <4>1, <4>2
    <3>4. \A k \in 0 .. m : k # 0 => f[k - 1] = h[k - 1]
      <4>1. \A k \in 0 .. m : k # 0 => k - 1 \in 0 .. m - 1
        BY <3>2
      <4> QED BY <3>3, <4>1
    <3>5. Good(f, m)
      BY <3>4
    <3> HIDE DEF f, Good
    <3> QED BY <3>2, <3>5
  <2> HIDE DEF Reached
  <2>3. 0 .. N \subseteq Reached
    BY <1>1, <2>1, <2>2, UpTo
  <2>4. N \in Reached
    BY <1>1, <2>3
  <2>5. \E f : f = [k \in 0 .. N |-> IF k = 0 THEN Begin ELSE ToEvent(f[k - 1], e[k])]
    BY <2>4 DEF Reached
  <2> QED BY <2>5
<1> HIDE DEF after, ToEvent
<1>4. s.length = n
  BY DEF IsSpan
<1> DEFINE Ramp(r, q) == LET length == q.index - r.index
                         IN  /\ r.index <= q.index
                             /\ q.calls = IF length = 0 THEN r.calls
                                          ELSE r.calls \o LinearRamp(Subspan(s, r.index, length),
                                                   r.value, (q.value - r.value) \div length)
           Reads(k, r) == /\ r.index = IF k = 0 THEN 0 ELSE Min({e[k].time, n})
                          /\ r.value = IF k = 0 THEN levels[l] ELSE e[k].value
                          /\ IsProgram(r.calls) /\ r.value \in Int
           T == {k \in 0 .. N : Reads(k, after[k]) /\ (k # 0 => Ramp(after[k - 1], after[k]))}
<1>5. \A k \in 1 .. N : Min({e[k].time, n}) \in 0 .. n /\ e[k].time \in Nat
  <2> TAKE k \in 1 .. N
  <2>1. e[k].time \in Nat
    BY <1>1 DEF InOrder, N
  <2> QED BY <2>1, MinOfTwo
<1>6. \A k \in 1 .. N : k > 1 => Min({e[k - 1].time, n}) <= Min({e[k].time, n})
  <2> TAKE k \in 1 .. N
  <2> HAVE k > 1
  <2>1. k - 1 \in 1 .. N
    BY <1>1
  <2>2. PICK a \in Nat, b \in Nat : a = e[k - 1].time /\ b = e[k].time
    BY <1>5, <2>1
  <2>3. a <= b
    <3>1. \A i, j \in 1 .. N : i <= j => e[i].time <= e[j].time
      BY <1>1 DEF InOrder, N
    <3>2. k - 1 <= k
      BY <1>1
    <3> QED BY <2>1, <2>2, <3>1, <3>2
  <2>4. Min({a, n}) \in {a, n} /\ Min({a, n}) <= a /\ Min({a, n}) <= n /\ Min({b, n}) \in {b, n}
    BY MinOfTwo
  <2>5. Min({a, n}) <= Min({b, n})
    <3>1. PICK v, w : v = Min({a, n}) /\ w = Min({b, n})
      OBVIOUS
    <3>2. v \in {a, n} /\ v <= a /\ v <= n /\ w \in {b, n} /\ v \in Nat /\ w \in Nat
      BY <2>4, <3>1
    <3>3. v <= w
      BY <2>3, <3>2
    <3> QED BY <3>1, <3>3
  <2> QED BY <2>2, <2>5
<1>7. 0 \in T
  <2>1. 0 \in 0 .. N
    BY <1>1
  <2>2. after[0] = Begin
    BY <1>3, <2>1
  <2>3. Reads(0, after[0])
    BY <2>2, NoCalls DEF Begin, AreNumbers
  <2> HIDE DEF Reads, Ramp
  <2> QED BY <2>1, <2>3
<1>8. \A k \in 1 .. N : k - 1 \in T => k \in T
  <2> TAKE k \in 1 .. N
  <2> HAVE k - 1 \in T
  <2>1. k \in 0 .. N /\ k # 0 /\ k - 1 \in 0 .. N
    BY <1>1
  <2>2. PICK r, m, x : r = after[k - 1] /\ m = Min({e[k].time, n}) /\ x = e[k]
    OBVIOUS
  <2>3. m \in 0 .. n /\ r.index \in Nat /\ r.index <= m /\ IsProgram(r.calls) /\ r.value \in Int
    <3>1. CASE k = 1
      BY <1>5, <2>2, <3>1
    <3>2. CASE k # 1
      <4>1. k > 1 /\ k - 1 # 0 /\ k - 1 \in 1 .. N
        BY <1>1, <3>2
      <4>2. r.index = Min({e[k - 1].time, n})
        BY <2>2, <4>1
      <4>3. Min({e[k - 1].time, n}) \in 0 .. n /\ Min({e[k - 1].time, n}) <= m
        BY <1>5, <1>6, <2>2, <4>1
      <4> QED BY <1>5, <2>2, <4>2, <4>3
    <3> QED BY <3>1, <3>2
  <2>4. after[k] = ToEvent(r, x)
    BY <1>3, <2>1, <2>2
  <2>5. PICK length \in Nat : length = m - r.index
    BY <2>3
  <2>6. /\ after[k].index = r.index + length /\ after[k].value = x.value
        /\ after[k].calls = IF length = 0 THEN r.calls
                            ELSE r.calls \o LinearRamp(Subspan(s, r.index, length), r.value,
                                                      (x.value - r.value) \div length)
    <3>1. Min({x.time, s.length}) - r.index = length
      BY <1>4, <2>2, <2>5
    <3> QED BY <2>4, <3>1 DEF ToEvent
  <2>7. IsSpan(Subspan(s, r.index, length), length)
    BY <2>3, SubspanIsSpan
  <2>8. \A v, w \in Int : IsProgram(LinearRamp(Subspan(s, r.index, length), v, w))
    BY <2>7, CallsOnSpans
  <2>11. x.value \in Int
    BY <1>1, <2>2
  <2>9. IsProgram(after[k].calls)
    <3>1. CASE length = 0
      BY <2>3, <2>6, <3>1
    <3>2. CASE length # 0
      <4>1. (x.value - r.value) \div length \in Int
        BY <2>3, <2>11, <3>2
      <4> QED BY <2>3, <2>6, <2>8, <3>2, <4>1, ProgramsJoin
    <3> QED BY <3>1, <3>2
  <2>10. after[k].index = m
    BY <2>3, <2>5, <2>6
  <2>12. Ramp(r, after[k])
    <3>1. after[k].index - r.index = length /\ r.index <= after[k].index
      BY <2>3, <2>5, <2>10
    <3> QED BY <2>6, <3>1
  <2>13. Reads(k, after[k])
    BY <2>1, <2>2, <2>6, <2>9, <2>10, <2>11
  <2> HIDE DEF Reads, Ramp
  <2> QED BY <2>1, <2>2, <2>12, <2>13
<1> HIDE DEF T
<1>9. 0 .. N \subseteq T
  BY <1>1, <1>7, <1>8, UpTo
<1>10. \A k \in 0 .. N : Reads(k, after[k]) /\ (k # 0 => Ramp(after[k - 1], after[k]))
  BY <1>9 DEF T
<1>11. N \in 0 .. N /\ 0 \in 0 .. N /\ \A k \in 1 .. N : k \in 0 .. N /\ k # 0
  BY <1>1
<1>12. \A k \in 0 .. N : after[k].index \in 0 .. n
  <2> TAKE k \in 0 .. N
  <2>1. after[k].index = IF k = 0 THEN 0 ELSE Min({e[k].time, n})
    BY <1>10
  <2>2. CASE k = 0
    BY <2>1, <2>2
  <2>3. CASE k # 0
    <3>1. k \in 1 .. N
      BY <1>1, <2>3
    <3> QED BY <1>5, <2>1, <2>3, <3>1
  <2> QED BY <2>2, <2>3
<1>13. after[0].calls = << >>
  BY <1>3, <1>11 DEF Begin
<1>14. \A k \in 1 .. N : Ramp(after[k - 1], after[k])
  BY <1>10, <1>11
<1>15. GoesTo(after, Taken(l), levels[l], s, n)
  <2>1. Len(Taken(l)) = N /\ e = Taken(l)
    BY <1>1 DEF N
  <2> QED BY <1>10, <1>12, <1>13, <1>14, <2>1 DEF GoesTo
<1>16. GetBlock(l, s) = Leaves(after[Len(Taken(l))], s, n)
  <2>1. Len(Taken(l)) = N
    BY <1>1 DEF N
  <2> QED BY <1>2, <1>4, <2>1 DEF Leaves
<1> QED BY <1>15, <1>16

LEMMA GetBlockIsProgram ==
    ASSUME NEW l, NEW S, events[l] \in Seq(S), InOrder(events[l]), AreNumbers(l),
           NEW n \in Nat, NEW s, IsSpan(s, n)
    PROVE  IsProgram(GetBlock(l, s))
<1>1. PICK f : /\ GoesTo(f, Taken(l), levels[l], s, n)
               /\ GetBlock(l, s) = Leaves(f[Len(Taken(l))], s, n)
  BY GetBlockGoes
<1>2. Len(Taken(l)) \in 0 .. Len(Taken(l))
  BY SortedStays DEF Taken
<1>3. PICK r : r = f[Len(Taken(l))]
  OBVIOUS
<1>4. r.index \in 0 .. n /\ IsProgram(r.calls)
  BY <1>1, <1>2, <1>3 DEF GoesTo
<1>5. n - r.index \in Nat /\ r.index \in Nat
  BY <1>4
<1>6. IsProgram(Fill(r.value, Subspan(s, r.index, n - r.index)))
  <2>1. IsSpan(Subspan(s, r.index, n - r.index), n - r.index)
    BY <1>5, SubspanIsSpan
  <2> QED BY <1>5, <2>1, CallsOnSpans
<1>7. IsProgram(r.calls \o Fill(r.value, Subspan(s, r.index, n - r.index)))
  BY <1>4, <1>6, ProgramsJoin
<1> QED BY <1>1, <1>3, <1>4, <1>7 DEF Leaves

\* The level of a block is a sequence of events in order.
LevelIsInOrder(l) == (\E S : events[l] \in Seq(S)) /\ InOrder(events[l])
LevelIsPlain(l) == LevelIsInOrder(l) /\ AreNumbers(l)

LEMMA LevelIsProgram ==
    ASSUME NEW l, LevelIsPlain(l), NEW n \in Nat, NEW s, IsSpan(s, n)
    PROVE  IsProgram(GetBlock(l, s))
<1>1. PICK S : events[l] \in Seq(S)
  BY DEF LevelIsPlain, LevelIsInOrder
<1>2. InOrder(events[l])
  BY DEF LevelIsPlain, LevelIsInOrder
<1> QED BY <1>1, <1>2, GetBlockIsProgram DEF LevelIsPlain

LEMMA GainsIsProgram ==
    ASSUME NEW l, LevelIsPlain(l), NEW n \in Nat, NEW s, NEW t, IsSpan(s, n), IsSpan(t, n)
    PROVE  IsProgram(Gains(l, s, t))
<1>1. IsProgram(GetBlock(l, s))
  BY LevelIsProgram
<1>2. /\ IsProgram(Fill(1, t)) /\ IsProgram(Add(s, t)) /\ IsProgram(ApplyGain(PiFour, t))
      /\ IsProgram(Cos(t, s)) /\ IsProgram(Sin(t, t))
  BY CallsOnSpans
<1>3. IsProgram(GetBlock(l, s) \o Fill(1, t) \o Add(s, t) \o ApplyGain(PiFour, t)
                \o Cos(t, s) \o Sin(t, t))
  BY <1>1, <1>2, ProgramsJoin, Zenon
<1> QED BY <1>3 DEF Gains

LEMMA MonoIsProgram ==
    ASSUME NEW n \in Nat, NEW left, NEW right, NEW s, NEW t,
           IsSpan(left, n), IsSpan(right, n), IsSpan(s, n), IsSpan(t, n),
           \A l \in {"amplitude", "volume", "pan"} : LevelIsPlain(l)
    PROVE  IsProgram(ProcessMono(left, right, s, t))
<1>1. /\ IsProgram(GetBlock("amplitude", s)) /\ IsProgram(GetBlock("volume", s))
      /\ IsProgram(Gains("pan", s, t))
  BY LevelIsProgram, GainsIsProgram
<1>2. /\ IsProgram(ApplyGainSpan(s, left)) /\ IsProgram(ApplyGainSpan(t, right))
      /\ IsProgram(Copy(left, right))
  BY CallsOnSpans
<1>3. IsProgram(Outside("egEnvelope", s))
  BY OutsideIsProgram
<1>4. IsProgram(GetBlock("amplitude", s) \o ApplyGainSpan(s, left)
                \o Outside("egEnvelope", s) \o ApplyGainSpan(s, left)
                \o GetBlock("volume", s) \o ApplyGainSpan(s, left)
                \o Copy(left, right)
                \o Gains("pan", s, t)
                \o ApplyGainSpan(s, left) \o ApplyGainSpan(t, right))
  BY <1>1, <1>2, <1>3, ProgramsJoin, Zenon
<1> QED BY <1>4 DEF ProcessMono

LEMMA StereoIsProgram ==
    ASSUME NEW n \in Nat, NEW left, NEW right, NEW s, NEW t, NEW u,
           IsSpan(left, n), IsSpan(right, n), IsSpan(s, n), IsSpan(t, n), IsSpan(u, n),
           \A l \in {"amplitude", "volume", "width", "position"} : LevelIsPlain(l)
    PROVE  IsProgram(ProcessStereo(left, right, s, t, u))
<1> DEFINE Both(x) == ApplyGainSpan(x, left) \o ApplyGainSpan(x, right)
           Normalise == ApplyGain(SqrtTwoInv, left) \o ApplyGain(SqrtTwoInv, right)
<1>1. /\ IsProgram(GetBlock("amplitude", s)) /\ IsProgram(GetBlock("volume", s))
      /\ IsProgram(Gains("width", s, t)) /\ IsProgram(Gains("position", s, t))
  BY LevelIsProgram, GainsIsProgram
<1>2. /\ IsProgram(ApplyGainSpan(s, left)) /\ IsProgram(ApplyGainSpan(s, right))
      /\ IsProgram(ApplyGainSpan(t, right))
      /\ IsProgram(ApplyGain(SqrtTwoInv, left)) /\ IsProgram(ApplyGain(SqrtTwoInv, right))
      /\ IsProgram(Copy(right, s)) /\ IsProgram(Add(left, right))
      /\ IsProgram(Subtract(s, left))
      /\ IsProgram(Copy(left, u)) /\ IsProgram(Copy(right, left))
      /\ IsProgram(MultiplyAdd(s, u, left)) /\ IsProgram(MultiplyAdd(t, u, right))
  BY CallsOnSpans
<1>3. IsProgram(Outside("egEnvelope", s))
  BY OutsideIsProgram
<1>4. IsProgram(Both(s)) /\ IsProgram(Normalise)
  BY <1>2, ProgramsJoin, Zenon
<1>5. ProcessStereo(left, right, s, t, u)
        = GetBlock("amplitude", s) \o Both(s)
          \o Outside("egEnvelope", s) \o Both(s)
          \o GetBlock("volume", s) \o Both(s)
          \o Copy(right, s) \o Add(left, right) \o Subtract(s, left) \o Normalise
          \o Gains("width", s, t)
          \o ApplyGainSpan(s, left) \o ApplyGainSpan(t, right)
          \o Gains("position", s, t)
          \o Copy(left, u) \o Copy(right, left)
          \o MultiplyAdd(s, u, left) \o MultiplyAdd(t, u, right) \o Normalise
  BY DEF ProcessStereo
<1> HIDE DEF Both, Normalise
<1>6. IsProgram(GetBlock("amplitude", s) \o Both(s)
          \o Outside("egEnvelope", s) \o Both(s)
          \o GetBlock("volume", s) \o Both(s)
          \o Copy(right, s) \o Add(left, right) \o Subtract(s, left) \o Normalise)
  BY <1>1, <1>2, <1>3, <1>4, ProgramsJoin, Zenon
<1> DEFINE sides == GetBlock("amplitude", s) \o Both(s)
                    \o Outside("egEnvelope", s) \o Both(s)
                    \o GetBlock("volume", s) \o Both(s)
                    \o Copy(right, s) \o Add(left, right) \o Subtract(s, left) \o Normalise
<1>7. IsProgram(sides)
  BY <1>6
<1>8. ProcessStereo(left, right, s, t, u)
        = sides \o Gains("width", s, t)
          \o ApplyGainSpan(s, left) \o ApplyGainSpan(t, right)
          \o Gains("position", s, t)
          \o Copy(left, u) \o Copy(right, left)
          \o MultiplyAdd(s, u, left) \o MultiplyAdd(t, u, right) \o Normalise
  BY <1>5
<1> HIDE DEF sides
<1>9. IsProgram(sides \o Gains("width", s, t)
          \o ApplyGainSpan(s, left) \o ApplyGainSpan(t, right)
          \o Gains("position", s, t)
          \o Copy(left, u) \o Copy(right, left)
          \o MultiplyAdd(s, u, left) \o MultiplyAdd(t, u, right) \o Normalise)
  BY <1>1, <1>2, <1>4, <1>7, ProgramsJoin, Zenon
<1> QED BY <1>8, <1>9

\* What puts the sound into a block of n frames, and what mixes it.
FilledBlock(n) ==
    LET left == Subspan(Span("left", n), Delayed(n), n - Delayed(n))
        right == Subspan(Span("right", n), Delayed(n), n - Delayed(n))
    IN  IF sound.generator THEN FillWithGenerator(left, right) ELSE FillWithData(left, right)

MixedBlock(n) ==
    LET t == [k \in 1 .. 3 |-> Span(<<"temp1", "temp2", "temp3">>[k], n)]
    IN  IF IsStereo THEN ProcessStereo(Span("left", n), Span("right", n), t[1], t[2], t[3])
        ELSE ProcessMono(Span("left", n), Span("right", n), t[1], t[2])

\* A block is made of programs, for whatever it begins with.
LEMMA BlockParts ==
    ASSUME NEW n \in Nat, initialDelay \in Nat, sinePhase \in Int,
           \A l \in LevelsRead : LevelIsPlain(l)
    PROVE  /\ Program(n) = Fill(0, Span("left", n)) \o Fill(0, Span("right", n))
                               \o FilledBlock(n) \o MixedBlock(n)
           /\ Delayed(n) \in 0 .. n
           /\ IsProgram(Fill(0, Span("left", n))) /\ IsProgram(Fill(0, Span("right", n)))
           /\ IsProgram(FilledBlock(n)) /\ IsProgram(MixedBlock(n))
<1> DEFINE left == Span("left", n)
           right == Span("right", n)
           t == [k \in 1 .. 3 |-> Span(<<"temp1", "temp2", "temp3">>[k], n)]
           rest == n - Delayed(n)
           a == Subspan(left, Delayed(n), rest)
           b == Subspan(right, Delayed(n), rest)
           Filled == IF sound.generator THEN FillWithGenerator(a, b) ELSE FillWithData(a, b)
           Mixed == IF IsStereo THEN ProcessStereo(left, right, t[1], t[2], t[3])
                    ELSE ProcessMono(left, right, t[1], t[2])
<1>1. Program(n) = Fill(0, left) \o Fill(0, right) \o Filled \o Mixed
  BY DEF Program
<1>a. Filled = FilledBlock(n) /\ Mixed = MixedBlock(n)
  BY DEF FilledBlock, MixedBlock
<1>b. left = Span("left", n) /\ right = Span("right", n)
  OBVIOUS
<1>2. \A x, k : k \in Nat => IsSpan(Span(x, k), k)
  BY DEF Span, IsSpan
<1>3. IsSpan(left, n) /\ IsSpan(right, n) /\ IsSpan(t[1], n) /\ IsSpan(t[2], n) /\ IsSpan(t[3], n)
  BY <1>2
<1>4. Delayed(n) \in 0 .. n
  <2>1. Min({initialDelay, n}) \in {initialDelay, n} /\ Min({initialDelay, n}) <= n
    BY MinOfTwo
  <2> QED BY <2>1 DEF Delayed
<1> HIDE DEF left, right, t
<1>5. rest \in Nat /\ IsSpan(a, rest) /\ IsSpan(b, rest)
  <2>1. PICK d \in 0 .. n : d = Delayed(n)
    BY <1>4
  <2>2. d \in Nat /\ n - d \in Nat
    OBVIOUS
  <2>3. IsSpan(Subspan(left, d, n - d), n - d) /\ IsSpan(Subspan(right, d, n - d), n - d)
    BY <1>3, <2>2, SubspanIsSpan
  <2> QED BY <2>1, <2>2, <2>3
<1>6. a.length = rest
  BY <1>5 DEF IsSpan
<1> HIDE DEF a, b, rest
<1>7. IsProgram(Fill(0, left)) /\ IsProgram(Fill(0, right))
  BY <1>3, CallsOnSpans
<1>8. IsProgram(FillWithGenerator(a, b))
  <2>1. IsSpan(Span("temp1", SamplesPerBlock), SamplesPerBlock) /\ SamplesPerBlock \in Nat
    BY <1>2, VoiceAssumption DEF VoiceAssumption
  <2>2. IsProgram(LinearRamp(Span("temp1", SamplesPerBlock), sinePhase, SineStep))
    <3>1. SineStep \in Int
      BY DEF SineStep
    <3> QED BY <2>1, <3>1, CallsOnSpans
  <2>3. IsSpan(Span("temp1", a.length), rest)
    BY <1>2, <1>5, <1>6
  <2>4. IsProgram(Sin(Span("temp1", a.length), a)) /\ IsProgram(Copy(a, b))
    BY <1>5, <2>3, CallsOnSpans
  <2>5. IsProgram(LinearRamp(Span("temp1", SamplesPerBlock), sinePhase, SineStep)
                  \o Sin(Span("temp1", a.length), a) \o Copy(a, b))
    BY <2>2, <2>4, ProgramsJoin, Zenon
  <2>6. CASE a.length = 0
    BY <2>6, NoCalls DEF FillWithGenerator
  <2>7. CASE a.length # 0
    BY <2>5, <2>7 DEF FillWithGenerator
  <2> QED BY <2>6, <2>7
<1>9. IsProgram(FillWithData(a, b))
  <2>1. IsProgram(Outside("left", a)) /\ IsProgram(Outside("right", b))
    BY OutsideIsProgram
  <2>2. IsProgram(Outside("left", a) \o Outside("right", b))
    BY <2>1, ProgramsJoin
  <2>3. CASE sound.stereo
    BY <2>2, <2>3 DEF FillWithData
  <2>4. CASE ~ sound.stereo
    BY <2>1, <2>4 DEF FillWithData
  <2> QED BY <2>3, <2>4
<1>10. IsProgram(Mixed)
  <2>1. CASE IsStereo
    <3>1. \A l \in {"amplitude", "volume", "width", "position"} : LevelIsPlain(l)
      BY <2>1 DEF LevelsRead
    <3>2. IsProgram(ProcessStereo(left, right, t[1], t[2], t[3]))
      BY <1>3, <3>1, StereoIsProgram
    <3> QED BY <2>1, <3>2
  <2>2. CASE ~ IsStereo
    <3>1. \A l \in {"amplitude", "volume", "pan"} : LevelIsPlain(l)
      BY <2>2 DEF LevelsRead
    <3>2. IsProgram(ProcessMono(left, right, t[1], t[2]))
      BY <1>3, <3>1, MonoIsProgram
    <3> QED BY <2>2, <3>2
  <2> QED BY <2>1, <2>2
<1>11. IsProgram(Filled)
  <2>1. CASE sound.generator
    BY <1>8, <2>1
  <2>2. CASE ~ sound.generator
    BY <1>9, <2>2
  <2> QED BY <2>1, <2>2
<1> HIDE DEF Filled, Mixed
<1> QED BY <1>1, <1>a, <1>b, <1>4, <1>7, <1>10, <1>11

LEMMA BlockIsProgram ==
    ASSUME NEW n \in Nat, initialDelay \in Nat, sinePhase \in Int,
           \A l \in LevelsRead : LevelIsPlain(l)
    PROVE  IsProgram(Program(n)) /\ Delayed(n) \in 0 .. n
<1>1. IsProgram(Fill(0, Span("left", n)) \o Fill(0, Span("right", n))
                \o FilledBlock(n) \o MixedBlock(n))
  BY BlockParts, ProgramsJoin, Zenon
<1> QED BY <1>1, BlockParts

-----------------------------------------------------------------------------
(* The levels between blocks.                                                *)

\* The events of the levels that a block reads came in the order of their times, and
\* found room.
LevelsInOrder ==
    \A l \in LevelsRead :
        /\ LevelIsInOrder(l)
        /\ Len(events[l]) <= MaxCapacity
        /\ \A i \in 1 .. Len(events[l]) : events[l][i].time <= lastDelay

\* What LevelsFollowControllers says, also within a block.
LevelsFollow ==
    sound # Nothing =>
        \A l \in LevelsRead \ lost :
            \/ Standing(l) = StartLevel(l, sound, base)
            \/ sound.on["volume"] # 0 /\ l \in {"amplitude", "volume"}

VoiceInv ==
    /\ initialDelay \in Nat /\ lastDelay \in Nat
    /\ cc = [n \in CCs |-> cc[n]]
    /\ LevelsInOrder
    /\ LevelsFollow

\* What moves a level is a number, and so is a level that a block reads.
Numbers ==
    /\ cc \in [CCs -> CCValues \cup {0}]
    /\ base.gain \in Int /\ base.volume \in Int /\ sinePhase \in Int
    /\ \A l \in LevelsRead : AreNumbers(l)

MixingInv == CallInv /\ MatchInv /\ IsProgram(program) /\ VoiceInv /\ Numbers

\* The list r has all of s, and then of what is new what there is room for.
Appends(r, s, new) ==
    /\ Len(s) <= Len(r) /\ Len(r) <= MaxCapacity /\ Len(r) <= Len(s) + Len(new)
    /\ \A i \in 1 .. Len(r) :
          r[i] = IF i <= Len(s) THEN s[i] ELSE new[i - Len(s)]

\* A list of events at one time.
AllAt(new, delay) ==
    \E T : new \in Seq(T) /\ \A event \in T : event.time = delay

\* The list of a level takes what there is room for, behind what it has.
LEMMA RegisterAppends ==
    ASSUME NEW S, NEW s \in Seq(S), NEW T, NEW new \in Seq(T), Len(s) <= MaxCapacity
    PROVE  /\ RegisterEvents(s, new) \in Seq(S \cup T)
           /\ Appends(RegisterEvents(s, new), s, new)
<1> DEFINE all == s \o new
           m == Min({Len(s) + Len(new), MaxCapacity})
<1>1. MaxCapacity \in Nat /\ Len(s) \in Nat /\ Len(new) \in Nat
  BY VoiceAssumption DEF VoiceAssumption
<1>2. s \in Seq(S \cup T) /\ new \in Seq(S \cup T)
  OBVIOUS
<1>3. /\ all \in Seq(S \cup T) /\ Len(all) = Len(s) + Len(new)
      /\ \A i \in 1 .. Len(all) : all[i] = IF i <= Len(s) THEN s[i] ELSE new[i - Len(s)]
  BY <1>2, ConcatProperties
<1>4. PICK n \in Nat : n = Len(s) + Len(new)
  BY <1>1
<1>5. Min({n, MaxCapacity}) \in {n, MaxCapacity}
      /\ Min({n, MaxCapacity}) <= n /\ Min({n, MaxCapacity}) <= MaxCapacity
  BY <1>1, MinOfTwo
<1>6. m = Min({n, MaxCapacity})
  BY <1>4
<1> HIDE DEF all, m
<1>7. m \in 0 .. n /\ Len(s) <= m /\ m <= MaxCapacity /\ Len(all) = n
  BY <1>1, <1>3, <1>4, <1>5, <1>6
<1>8. /\ SubSeq(all, 1, m) \in Seq(S \cup T) /\ Len(SubSeq(all, 1, m)) = m
      /\ \A i \in 1 .. m : SubSeq(all, 1, m)[i] = all[i]
  BY <1>3, <1>7
<1>9. RegisterEvents(s, new) = SubSeq(all, 1, m)
  BY DEF RegisterEvents, all, m
<1> QED BY <1>3, <1>4, <1>7, <1>8, <1>9 DEF Appends

\* The events that a controller makes for a level.
LEMMA EventsAre ==
    ASSUME NEW l, NEW n \in CCs, NEW x, NEW delay
    PROVE  /\ AllAt(EventsFor(l, n, x, delay), delay)
           /\ l = "volume" => EventsFor(l, n, x, delay) = << >>
           /\ l # "volume" /\ (l = "amplitude" => sound.on["volume"] # n) =>
                 EventsFor(l, n, x, delay) =
                    IF sound.on[l] = n
                    THEN <<[time |-> delay, value |-> LevelFor(l, x, base)]>> ELSE << >>
<1> DEFINE Event(k) == [time |-> delay, value |-> LevelFor(k, x, base)]
           EventOf(k) == IF sound.on[k] = n THEN <<Event(k)>> ELSE << >>
           T == {Event(k) : k \in {l, "amplitude", "volume"}}
<1>1. EventsFor(l, n, x, delay) =
          CASE l = "amplitude" -> EventOf("amplitude") \o EventOf("volume")
            [] l = "volume" -> << >>
            [] OTHER -> EventOf(l)
  BY DEF EventsFor
<1>2. \A event \in T : event.time = delay
  OBVIOUS
<1>3. Event(l) \in T /\ Event("amplitude") \in T /\ Event("volume") \in T
  OBVIOUS
<1> HIDE DEF Event, T
<1>4. EventOf(l) \in Seq(T) /\ EventOf("amplitude") \in Seq(T) /\ EventOf("volume") \in Seq(T)
  BY <1>3
<1>5. EventOf("amplitude") \o EventOf("volume") \in Seq(T)
  BY <1>4, ConcatProperties
<1>6. EventsFor(l, n, x, delay) \in Seq(T)
  BY <1>1, <1>4, <1>5
<1>7. sound.on["volume"] # n => EventOf("amplitude") \o EventOf("volume") = EventOf("amplitude")
  BY <1>4
<1>8. l # "volume" /\ (l = "amplitude" => sound.on["volume"] # n) =>
         EventsFor(l, n, x, delay) = EventOf(l)
  BY <1>1, <1>7
<1> USE DEF Event
<1>9. AllAt(EventsFor(l, n, x, delay), delay)
  BY <1>2, <1>6 DEF AllAt
<1> QED BY <1>1, <1>8, <1>9

\* The value of a level whose events are in order: of the last of them, while the sort
\* only inserts.
LEMMA StandingIsLast ==
    ASSUME NEW l, LevelIsInOrder(l), Len(events[l]) <= StableUpTo
    PROVE  Standing(l) = IF events[l] = << >> THEN levels[l]
                         ELSE events[l][Len(events[l])].value
<1>1. PICK S : events[l] \in Seq(S)
  BY DEF LevelIsInOrder
<1>2. Sorted(events[l]) = events[l]
  BY <1>1, SortedStays DEF LevelIsInOrder
<1> QED BY <1>1, <1>2 DEF Standing, Last

LEMMA StandingIsNumber ==
    ASSUME NEW l, LevelIsPlain(l)
    PROVE  Standing(l) \in Int
<1>a. PICK S : events[l] \in Seq(S) /\ InOrder(events[l])
  BY DEF LevelIsPlain, LevelIsInOrder
<1>1. PICK s \in Seq(S) : s = events[l] /\ InOrder(s)
  BY <1>a
<1>2. levels[l] \in Int /\ \A i \in 1 .. Len(s) : s[i].value \in Int
  BY <1>1 DEF LevelIsPlain, AreNumbers
<1>3. PICK r : r = Sorted(s)
  OBVIOUS
<1>4. /\ r \in Seq(S) /\ Len(r) = Len(s)
      /\ \A i \in 1 .. Len(s) : \E j \in 1 .. Len(s) : r[i] = s[j]
  BY <1>1, <1>3, SortedStays
<1>5. CASE s = << >>
  BY <1>1, <1>2, <1>5 DEF Standing
<1>6. CASE s # << >>
  <2>1. Len(r) \in 1 .. Len(s)
    BY <1>4, <1>6
  <2>2. r[Len(r)].value \in Int
    BY <1>2, <1>4, <2>1
  <2> QED BY <1>1, <1>3, <1>6, <2>2 DEF Standing, Last
<1> QED BY <1>5, <1>6

StandingFact == \A l : LevelIsInOrder(l) /\ Len(events[l]) <= StableUpTo =>
    Standing(l) = IF events[l] = << >> THEN levels[l]
                  ELSE events[l][Len(events[l])].value

LEMMA StandingAlways == StandingFact
  BY StandingIsLast DEF StandingFact

LEMMA LevelsReadAreLevels == LevelsRead \subseteq Levels /\ "amplitude" \in Levels
  BY DEF LevelsRead, Levels

LEMMA StartKeepsLevels ==
    ASSUME VoiceInv, NEW region, NEW strike, NEW duration, NEW delay \in StartDelays,
           StartVoice(region, strike, duration, delay)
    PROVE  VoiceInv'
<1>1. /\ sound' = region /\ events' = Cleared /\ initialDelay' = delay
      /\ levels' = [l \in Levels |-> StartLevel(l, region, base')]
      /\ cc' = cc /\ lastDelay' = delay
  BY DEF StartVoice, Accepts
<1>2. delay \in Nat
  BY VoiceAssumption DEF VoiceAssumption
<1>3. \A l \in LevelsRead' : l \in Levels /\ events'[l] = << >>
  BY <1>1, LevelsReadAreLevels DEF Cleared, LevelsRead, Levels
<1>4. << >> \in Seq({}) /\ Len(<< >>) = 0
  OBVIOUS
<1>5. InOrder(<< >>)
  BY <1>4 DEF InOrder
<1>6. LevelsInOrder'
  <2> SUFFICES ASSUME NEW l \in LevelsRead'
               PROVE  /\ LevelIsInOrder(l)'
                      /\ Len(events'[l]) <= MaxCapacity
                      /\ \A i \in 1 .. Len(events'[l]) : events'[l][i].time <= lastDelay'
    BY DEF LevelsInOrder
  <2>1. events'[l] = << >>
    BY <1>3
  <2>2. InOrder(events'[l]) /\ \E S : events'[l] \in Seq(S)
    BY <1>4, <1>5, <2>1
  <2>3. LevelIsInOrder(l)'
    BY <2>2 DEF LevelIsInOrder, InOrder
  <2> QED BY <1>4, <2>1, <2>3, VoiceAssumption DEF VoiceAssumption
<1>7. LevelsFollow'
  <2> SUFFICES ASSUME NEW l \in LevelsRead' PROVE Standing(l)' = StartLevel(l, sound, base)'
    BY DEF LevelsFollow
  <2>1. Standing(l)' = levels'[l]
    BY <1>3 DEF Standing
  <2>2. levels'[l] = StartLevel(l, region, base')
    BY <1>1, <1>3
  <2> QED BY <1>1, <2>1, <2>2 DEF StartLevel
<1>8. cc' = [n \in CCs |-> cc'[n]]
  BY <1>1 DEF VoiceInv
<1> QED BY <1>1, <1>2, <1>6, <1>7, <1>8 DEF VoiceInv

LEMMA CCKeepsLevels ==
    ASSUME VoiceInv, NEW n \in CCs, NEW x, NEW delay \in Delays, CC(n, x, delay)
    PROVE  VoiceInv'
<1>1. /\ events' = [e \in Levels |-> RegisterEvents(events[e], EventsFor(e, n, x, delay))]
      /\ cc' = [cc EXCEPT ![n] = x]
      /\ lost' = {e \in Levels : IF EventsFor(e, n, x, delay) = << >> THEN e \in lost
                                 ELSE \/ Len(events'[e]) = Len(events[e])
                                      \/ Len(events'[e]) > StableUpTo}
      /\ lastDelay' = delay /\ delay >= lastDelay
      /\ UNCHANGED <<sound, base, levels, initialDelay>>
  BY DEF CC, Accepts
<1>2. delay \in Nat /\ lastDelay \in Nat /\ 0 \notin CCs
  BY VoiceAssumption DEF VoiceAssumption, VoiceInv
<1>3. LevelsRead' = LevelsRead
  BY <1>1 DEF LevelsRead, IsStereo
<1>4. ASSUME NEW l \in LevelsRead
      PROVE  LET s == events[l]
                 new == EventsFor(l, n, x, delay)
                 t == events'[l]
             IN  /\ Len(s) \in Nat /\ Len(t) \in Nat /\ Len(new) \in Nat
                 /\ \E U : t \in Seq(U)
                 /\ InOrder(t) /\ Len(t) <= MaxCapacity
                 /\ \A i \in 1 .. Len(t) : t[i].time <= delay
                 /\ Len(s) <= Len(t) /\ Len(t) <= Len(s) + Len(new)
                 /\ new = << >> => t = s
                 /\ Len(t) > Len(s) => t[Len(t)] = new[Len(t) - Len(s)]
  <2>1. l \in Levels
    BY LevelsReadAreLevels
  <2>2. PICK S : events[l] \in Seq(S)
    BY DEF VoiceInv, LevelsInOrder, LevelIsInOrder
  <2>3. PICK T : EventsFor(l, n, x, delay) \in Seq(T) /\ \A event \in T : event.time = delay
    <3>1. AllAt(EventsFor(l, n, x, delay), delay)
      BY EventsAre
    <3> QED BY <3>1 DEF AllAt
  <2>a. PICK t : t = events'[l]
    OBVIOUS
  <2>4. PICK s \in Seq(S), new \in Seq(T) :
            s = events[l] /\ new = EventsFor(l, n, x, delay) /\ t = events'[l]
    BY <2>2, <2>3, <2>a
  <2>5. t = RegisterEvents(s, new)
    BY <1>1, <2>1, <2>4
  <2>6. /\ InOrder(s) /\ Len(s) <= MaxCapacity
        /\ \A i \in 1 .. Len(s) : s[i].time <= lastDelay
    BY <2>4 DEF VoiceInv, LevelsInOrder, LevelIsInOrder
  <2>7. /\ t \in Seq(S \cup T)
        /\ Len(s) <= Len(t) /\ Len(t) <= MaxCapacity /\ Len(t) <= Len(s) + Len(new)
        /\ \A i \in 1 .. Len(t) : t[i] = IF i <= Len(s) THEN s[i] ELSE new[i - Len(s)]
    <3>1. t \in Seq(S \cup T) /\ Appends(t, s, new)
      BY <2>5, <2>6, RegisterAppends
    <3> QED BY <3>1 DEF Appends
  <2>8. Len(s) \in Nat /\ Len(t) \in Nat /\ Len(new) \in Nat
    BY <2>7
  <2>9. \A i \in 1 .. Len(t) :
            /\ i <= Len(s) => t[i] = s[i] /\ s[i].time \in Nat /\ s[i].time <= lastDelay
            /\ ~ (i <= Len(s)) => t[i] = new[i - Len(s)] /\ t[i].time = delay
    <3> TAKE i \in 1 .. Len(t)
    <3>1. CASE i <= Len(s)
      <4>1. i \in 1 .. Len(s)
        BY <2>8, <3>1
      <4> QED BY <2>6, <2>7, <3>1, <4>1 DEF InOrder
    <3>2. CASE ~ (i <= Len(s))
      <4>1. i - Len(s) \in 1 .. Len(new)
        BY <2>7, <2>8, <3>2
      <4>2. new[i - Len(s)] \in T
        BY <4>1
      <4> QED BY <2>3, <2>7, <3>2, <4>2
    <3> QED BY <3>1, <3>2
  <2>10. \A i \in 1 .. Len(t) : t[i].time \in Nat /\ t[i].time <= delay
    <3> TAKE i \in 1 .. Len(t)
    <3>1. CASE i <= Len(s)
      BY <1>1, <1>2, <2>9, <3>1
    <3>2. CASE ~ (i <= Len(s))
      BY <1>2, <2>9, <3>2
    <3> QED BY <3>1, <3>2
  <2>11. \A i, j \in 1 .. Len(t) : i <= j => t[i].time <= t[j].time
    <3> TAKE i, j \in 1 .. Len(t)
    <3> HAVE i <= j
    <3>1. CASE j <= Len(s)
      <4>1. i \in 1 .. Len(s) /\ j \in 1 .. Len(s) /\ i <= Len(s)
        BY <2>8, <3>1
      <4>2. s[i].time <= s[j].time
        BY <2>6, <4>1 DEF InOrder
      <4> QED BY <2>9, <3>1, <4>1, <4>2
    <3>2. CASE ~ (j <= Len(s))
      BY <2>9, <2>10, <3>2
    <3> QED BY <3>1, <3>2
  <2>12. InOrder(t)
    BY <2>10, <2>11 DEF InOrder
  <2>13. new = << >> => t = s
    <3> SUFFICES ASSUME new = << >> PROVE t = s
      OBVIOUS
    <3>1. Len(t) = Len(s)
      BY <2>7, <2>8
    <3>2. \A i \in 1 .. Len(s) : t[i] = s[i]
      BY <2>8, <2>9, <3>1
    <3>3. s \in Seq(S \cup T)
      OBVIOUS
    <3> QED BY <2>7, <3>1, <3>2, <3>3
  <2>14. Len(t) > Len(s) => t[Len(t)] = new[Len(t) - Len(s)]
    BY <2>8, <2>9
  <2> QED BY <2>4, <2>7, <2>8, <2>10, <2>12, <2>13, <2>14
<1>5. LevelsInOrder'
  <2> SUFFICES ASSUME NEW l \in LevelsRead
               PROVE  /\ LevelIsInOrder(l)'
                      /\ Len(events'[l]) <= MaxCapacity
                      /\ \A i \in 1 .. Len(events'[l]) : events'[l][i].time <= lastDelay'
    BY <1>3 DEF LevelsInOrder
  <2>1. LevelIsInOrder(l)'
    <3>1. InOrder(events'[l]) /\ \E S : events'[l] \in Seq(S)
      BY <1>4
    <3> QED BY <3>1 DEF LevelIsInOrder, InOrder
  <2>2. PICK t : t = events'[l]
    OBVIOUS
  <2>3. Len(t) <= MaxCapacity /\ \A i \in 1 .. Len(t) : t[i].time <= delay
    BY <1>4, <2>2
  <2> QED BY <1>1, <2>1, <2>2, <2>3
<1>6. LevelsFollow'
  <2> SUFFICES ASSUME sound # Nothing, NEW l \in LevelsRead, l \notin lost',
                      ~ (sound.on["volume"] # 0 /\ l \in {"amplitude", "volume"})
               PROVE  Standing(l)' = StartLevel(l, sound, base)'
    BY <1>1, <1>3 DEF LevelsFollow
  <2>1. LevelIsInOrder(l)'
    BY <1>3, <1>5 DEF LevelsInOrder
  <2>2. Len(events'[l]) <= StableUpTo =>
            Standing(l)' = IF events'[l] = << >> THEN levels'[l]
                           ELSE events'[l][Len(events'[l])].value
    <3>1. StandingFact'
      BY StandingAlways, PTL
    <3> QED BY <2>1, <3>1 DEF StandingFact
  <2>3. LevelIsInOrder(l) /\ l \in Levels
    BY LevelsReadAreLevels DEF VoiceInv, LevelsInOrder
  <2>5. PICK new : new = EventsFor(l, n, x, delay)
    OBVIOUS
  <2>6. CASE new = << >>
    <3>1. events'[l] = events[l] /\ l \notin lost
      BY <1>1, <1>4, <2>3, <2>5, <2>6
    <3>2. Standing(l)' = Standing(l)
      BY <1>1, <3>1 DEF Standing
    <3>3. Standing(l) = StartLevel(l, sound, base)
      BY <3>1 DEF VoiceInv, LevelsFollow
    <3>4. sound.on[l] # n
      <4>1. CASE l = "volume"
        BY <1>2, <4>1
      <4>2. CASE l # "volume"
        <5>1. l = "amplitude" => sound.on["volume"] # n
          BY <1>2
        <5>2. new = IF sound.on[l] = n
                    THEN <<[time |-> delay, value |-> LevelFor(l, x, base)]>> ELSE << >>
          BY <2>5, <4>2, <5>1, EventsAre
        <5> QED BY <2>6, <5>2
      <4> QED BY <4>1, <4>2
    <3>5. sound.on[l] \in CCs => cc'[sound.on[l]] = cc[sound.on[l]]
      BY <1>1, <3>4 DEF VoiceInv
    <3>6. StartLevel(l, sound, base)' = StartLevel(l, sound, base)
      BY <1>1, <3>5 DEF StartLevel, LevelFor, BaseLevel
    <3> QED BY <3>2, <3>3, <3>6
  <2>7. CASE new # << >>
    <3>1. l # "volume" /\ (l = "amplitude" => sound.on["volume"] # n)
      <4>1. l = "volume" => EventsFor(l, n, x, delay) = << >>
        BY EventsAre, Zenon
      <4>2. l # "volume"
        BY <2>5, <2>7, <4>1
      <4> QED BY <1>2, <4>2
    <3>2. new = IF sound.on[l] = n
                THEN <<[time |-> delay, value |-> LevelFor(l, x, base)]>> ELSE << >>
      BY <2>5, <3>1, EventsAre
    <3>3. sound.on[l] = n /\ Len(new) = 1 /\ new[1].value = LevelFor(l, x, base)
      BY <2>7, <3>2
    <3>4. PICK s, t : s = events[l] /\ t = events'[l]
      OBVIOUS
    <3>5. Len(t) # Len(s) /\ ~ (Len(t) > StableUpTo)
      BY <1>1, <2>3, <2>5, <2>7, <3>4
    <3>6. /\ Len(s) \in Nat /\ Len(t) \in Nat
          /\ Len(s) <= Len(t) /\ Len(t) <= Len(s) + 1
          /\ Len(t) > Len(s) => t[Len(t)] = new[Len(t) - Len(s)]
      BY <1>4, <2>5, <3>3, <3>4
    <3>7. Len(t) - Len(s) = 1 /\ Len(t) > Len(s) /\ t # << >>
      BY <3>5, <3>6
    <3>8. t[Len(t)].value = LevelFor(l, x, base)
      BY <3>3, <3>6, <3>7
    <3>9. Standing(l)' = LevelFor(l, x, base)
      <4>1. Len(t) <= StableUpTo
        BY <3>5, <3>6 DEF StableUpTo
      <4> QED BY <2>2, <3>4, <3>7, <3>8, <4>1
    <3>10. cc'[n] = x
      BY <1>1 DEF VoiceInv
    <3>11. StartLevel(l, sound, base)' = LevelFor(l, x, base)
      BY <1>1, <3>3, <3>10 DEF StartLevel, LevelFor
    <3> QED BY <3>9, <3>11
  <2> QED BY <2>6, <2>7
<1>7. cc' = [k \in CCs |-> cc'[k]]
  BY <1>1 DEF VoiceInv
<1> QED BY <1>1, <1>2, <1>5, <1>6, <1>7 DEF VoiceInv

LEMMA RenderKeepsLevels ==
    ASSUME VoiceInv, Numbers, NEW n \in Frames, RenderBlock(n)
    PROVE  VoiceInv' /\ IsProgram(program')
<1>1. /\ program' = Program(n) /\ initialDelay' = initialDelay - Delayed(n)
      /\ levels' = [l \in Levels |-> IF l \in LevelsRead THEN Standing(l) ELSE levels[l]]
      /\ events' = [l \in Levels |-> IF l \in LevelsRead THEN << >> ELSE events[l]]
      /\ lastDelay' = 0
      /\ UNCHANGED <<sound, cc, base, lost>>
  BY DEF RenderBlock
<1>2. n \in Nat /\ MaxCapacity \in Nat
  BY VoiceAssumption DEF VoiceAssumption
<1>3. IsProgram(program')
  BY <1>1, <1>2, BlockIsProgram DEF VoiceInv, LevelsInOrder, LevelIsPlain, Numbers
<1>4. initialDelay' \in Nat
  <2>1. initialDelay \in Nat
    BY DEF VoiceInv
  <2>2. Delayed(n) \in Nat /\ Delayed(n) <= initialDelay
    BY <1>2, <2>1, MinOfTwo DEF Delayed
  <2> QED BY <1>1, <2>1, <2>2
<1>5. LevelsRead' = LevelsRead
  BY <1>1 DEF LevelsRead, IsStereo
<1>6. \A l \in LevelsRead : events'[l] = << >> /\ levels'[l] = Standing(l)
  BY <1>1, LevelsReadAreLevels
<1>7. << >> \in Seq({}) /\ Len(<< >>) = 0
  OBVIOUS
<1>8. LevelsInOrder'
  <2> SUFFICES ASSUME NEW l \in LevelsRead
               PROVE  /\ LevelIsInOrder(l)'
                      /\ Len(events'[l]) <= MaxCapacity
                      /\ \A i \in 1 .. Len(events'[l]) : events'[l][i].time <= lastDelay'
    BY <1>5 DEF LevelsInOrder
  <2>1. events'[l] = << >>
    BY <1>6
  <2>2. InOrder(events'[l]) /\ \E S : events'[l] \in Seq(S)
    BY <1>7, <2>1 DEF InOrder
  <2>3. LevelIsInOrder(l)'
    BY <2>2 DEF LevelIsInOrder, InOrder
  <2> QED BY <1>2, <1>7, <2>1, <2>3
<1>9. LevelsFollow'
  <2> SUFFICES ASSUME sound # Nothing, NEW l \in LevelsRead, l \notin lost
               PROVE  \/ Standing(l)' = StartLevel(l, sound, base)'
                      \/ sound.on["volume"] # 0 /\ l \in {"amplitude", "volume"}
    BY <1>1, <1>5 DEF LevelsFollow
  <2>1. Standing(l)' = Standing(l)
    BY <1>6 DEF Standing
  <2>2. StartLevel(l, sound, base)' = StartLevel(l, sound, base)
    BY <1>1 DEF StartLevel, LevelFor, BaseLevel
  <2> QED BY <2>1, <2>2 DEF VoiceInv, LevelsFollow
<1>10. cc' = [k \in CCs |-> cc'[k]]
  BY <1>1 DEF VoiceInv
<1> QED BY <1>1, <1>3, <1>4, <1>8, <1>9, <1>10 DEF VoiceInv

\* The calls of a block leave the levels alone.
LEMMA CallsKeepLevels ==
    ASSUME VoiceInv, UNCHANGED <<voiceVars, counters>>
    PROVE  VoiceInv'
<1>1. UNCHANGED <<sound, cc, base, levels, events, initialDelay, lastDelay, lost>>
  BY DEF voiceVars, counters
<1>2. LevelsRead' = LevelsRead
  BY <1>1 DEF LevelsRead, IsStereo
<1>3. \A l : /\ LevelIsInOrder(l)' = LevelIsInOrder(l) /\ Standing(l)' = Standing(l)
            /\ StartLevel(l, sound, base)' = StartLevel(l, sound, base)
  BY <1>1 DEF LevelIsInOrder, InOrder, Standing, StartLevel, LevelFor, BaseLevel
<1>4. LevelsInOrder'
  BY <1>1, <1>2, <1>3 DEF VoiceInv, LevelsInOrder
<1>5. LevelsFollow'
  BY <1>1, <1>2, <1>3 DEF VoiceInv, LevelsFollow
<1> QED BY <1>1, <1>4, <1>5 DEF VoiceInv

-----------------------------------------------------------------------------
(* What is a number stays one.                                               *)

LEMMA LevelsAreNumbers ==
    ASSUME NEW l, NEW b, b.gain \in Int, b.volume \in Int, NEW x \in Int
    PROVE  LevelFor(l, x, b) \in Int /\ BaseLevel(l, b) \in Int
<1>1. Db2mag(b.volume + x) \in Int /\ Db2mag(b.volume) \in Int
  BY DEF Db2mag, Unity
<1>2. b.gain * x \in Int /\ b.gain * Top \in Int /\ 12 * x \in Int /\ 0 \in Int
  BY GainsAssumption DEF GainsAssumption
<1> QED BY <1>1, <1>2 DEF LevelFor, BaseLevel

LEMMA EventsAreNumbers ==
    ASSUME NEW l, NEW n \in CCs, NEW x \in Int, NEW delay, base.gain \in Int, base.volume \in Int
    PROVE  \E T : EventsFor(l, n, x, delay) \in Seq(T) /\ \A event \in T : event.value \in Int
<1> DEFINE Event(k) == [time |-> delay, value |-> LevelFor(k, x, base)]
           EventOf(k) == IF sound.on[k] = n THEN <<Event(k)>> ELSE << >>
           T == {Event(k) : k \in {l, "amplitude", "volume"}}
<1>1. EventsFor(l, n, x, delay) =
          CASE l = "amplitude" -> EventOf("amplitude") \o EventOf("volume")
            [] l = "volume" -> << >>
            [] OTHER -> EventOf(l)
  BY DEF EventsFor
<1>2. \A k : LevelFor(k, x, base) \in Int
  BY LevelsAreNumbers
<1>3. \A event \in T : event.value \in Int
  BY <1>2
<1>4. Event(l) \in T /\ Event("amplitude") \in T /\ Event("volume") \in T
  OBVIOUS
<1> HIDE DEF Event, T
<1>5. EventOf(l) \in Seq(T) /\ EventOf("amplitude") \in Seq(T) /\ EventOf("volume") \in Seq(T)
  BY <1>4
<1>6. EventOf("amplitude") \o EventOf("volume") \in Seq(T)
  BY <1>5, ConcatProperties
<1>7. EventsFor(l, n, x, delay) \in Seq(T)
  BY <1>1, <1>5, <1>6
<1> QED BY <1>3, <1>7

LEMMA StartKeepsNumbers ==
    ASSUME Numbers, NEW region \in Sounds, NEW strike \in Strikes, NEW duration \in Durations,
           strike.type = "CC" => region.ccTriggered, NEW delay \in StartDelays,
           StartVoice(region, strike, duration, delay)
    PROVE  Numbers'
<1>1. /\ base' = [gain |-> BaseGain(region, cc, strike), volume |-> BaseVolume(region, duration)]
      /\ levels' = [l \in Levels |-> StartLevel(l, region, base')]
      /\ events' = Cleared /\ cc' = cc /\ sinePhase' = sinePhase
  BY DEF StartVoice
<1>2. cc \in [CCs -> CCValues \cup {0}] /\ sinePhase \in Int /\ CCValues \subseteq Int
  BY GainsAssumption DEF Numbers, GainsAssumption
<1>3. BaseGain(region, cc, strike) \in Int /\ BaseVolume(region, duration) \in Int
  BY <1>2, GainsAssumption DEF GainsAssumption
<1>4. base'.gain \in Int /\ base'.volume \in Int
  BY <1>1, <1>3
<1>5. PICK b : b = base'
  OBVIOUS
<1>6. \A n \in CCs : cc[n] \in Int
  <2> TAKE n \in CCs
  <2>1. cc[n] \in CCValues \cup {0}
    BY <1>2
  <2>2. 0 \in Int
    OBVIOUS
  <2> QED BY <1>2, <2>1, <2>2
<1>7. \A l : StartLevel(l, region, b) \in Int
  <2> TAKE l
  <2>1. 0 \in Int
    OBVIOUS
  <2>2. BaseLevel(l, b) \in Int /\ \A x \in Int : LevelFor(l, x, b) \in Int
    BY <1>4, <1>5, <2>1, LevelsAreNumbers
  <2> QED BY <1>6, <2>2 DEF StartLevel
<1>8. \A l \in LevelsRead' : l \in Levels /\ events'[l] = << >>
  BY <1>1, LevelsReadAreLevels DEF Cleared, LevelsRead, Levels
<1>9. \A l \in LevelsRead' : AreNumbers(l)'
  <2> TAKE l \in LevelsRead'
  <2>1. levels'[l] \in Int
    BY <1>1, <1>5, <1>7, <1>8
  <2>2. Len(events'[l]) = 0
    BY <1>8
  <2> QED BY <2>1, <2>2 DEF AreNumbers
<1> QED BY <1>1, <1>2, <1>4, <1>9 DEF Numbers

LEMMA CCKeepsNumbers ==
    ASSUME VoiceInv, Numbers, NEW n \in CCs, NEW x \in CCValues, NEW delay \in Delays,
           CC(n, x, delay)
    PROVE  Numbers'
<1>1. /\ events' = [e \in Levels |-> RegisterEvents(events[e], EventsFor(e, n, x, delay))]
      /\ cc' = [cc EXCEPT ![n] = x]
      /\ UNCHANGED <<sound, base, levels, sinePhase>>
  BY DEF CC
<1>2. x \in Int /\ base.gain \in Int /\ base.volume \in Int
  BY GainsAssumption DEF Numbers, GainsAssumption
<1>3. LevelsRead' = LevelsRead
  BY <1>1 DEF LevelsRead, IsStereo
<1>4. cc' \in [CCs -> CCValues \cup {0}]
  BY <1>1 DEF Numbers
<1>5. ASSUME NEW l \in LevelsRead PROVE AreNumbers(l)'
  <2>1. l \in Levels /\ levels'[l] \in Int
    BY <1>1, LevelsReadAreLevels DEF Numbers, AreNumbers
  <2>2. PICK S : events[l] \in Seq(S)
    BY DEF VoiceInv, LevelsInOrder, LevelIsInOrder
  <2>3. PICK T : EventsFor(l, n, x, delay) \in Seq(T) /\ \A event \in T : event.value \in Int
    BY <1>2, EventsAreNumbers
  <2>4. PICK s \in Seq(S), new \in Seq(T) : s = events[l] /\ new = EventsFor(l, n, x, delay)
    BY <2>2, <2>3
  <2>5. PICK t : t = RegisterEvents(s, new)
    OBVIOUS
  <2>6. events'[l] = t
    BY <1>1, <2>1, <2>4, <2>5
  <2>7. Len(s) <= MaxCapacity
    BY <2>4 DEF VoiceInv, LevelsInOrder
  <2>8. t \in Seq(S \cup T) /\ Appends(t, s, new)
    BY <2>5, <2>7, RegisterAppends
  <2>9. \A i \in 1 .. Len(t) : t[i].value \in Int
    <3> TAKE i \in 1 .. Len(t)
    <3>1. Len(s) \in Nat /\ Len(t) \in Nat /\ Len(new) \in Nat /\ Len(t) <= Len(s) + Len(new)
      BY <2>8 DEF Appends
    <3>2. t[i] = IF i <= Len(s) THEN s[i] ELSE new[i - Len(s)]
      BY <2>8 DEF Appends
    <3>3. CASE i <= Len(s)
      <4>1. i \in 1 .. Len(s)
        BY <3>1, <3>3
      <4> QED BY <2>4, <3>2, <3>3, <4>1 DEF Numbers, AreNumbers
    <3>4. CASE ~ (i <= Len(s))
      <4>1. i - Len(s) \in 1 .. Len(new)
        BY <3>1, <3>4
      <4>2. new[i - Len(s)] \in T
        BY <4>1
      <4> QED BY <2>3, <3>2, <3>4, <4>2
    <3> QED BY <3>3, <3>4
  <2> QED BY <2>1, <2>6, <2>9 DEF AreNumbers
<1> QED BY <1>1, <1>3, <1>4, <1>5 DEF Numbers

LEMMA RenderKeepsNumbers ==
    ASSUME VoiceInv, Numbers, NEW n \in Frames, RenderBlock(n)
    PROVE  Numbers'
<1>1. /\ levels' = [l \in Levels |-> IF l \in LevelsRead THEN Standing(l) ELSE levels[l]]
      /\ events' = [l \in Levels |-> IF l \in LevelsRead THEN << >> ELSE events[l]]
      /\ UNCHANGED <<sound, cc, base>>
      /\ sinePhase' = IF sound.generator /\ Delayed(n) < n
                      THEN (sinePhase + SineStep * SamplesPerBlock) % TwoPi ELSE sinePhase
  BY DEF RenderBlock
<1>2. LevelsRead' = LevelsRead
  BY <1>1 DEF LevelsRead, IsStereo
<1>3. sinePhase' \in Int
  <2>1. SamplesPerBlock \in Int /\ sinePhase \in Int
    BY VoiceAssumption DEF VoiceAssumption, Numbers
  <2>2. (sinePhase + SineStep * SamplesPerBlock) % TwoPi \in Int
    BY <2>1 DEF SineStep, TwoPi
  <2> QED BY <1>1, <2>1, <2>2
<1>4. ASSUME NEW l \in LevelsRead PROVE AreNumbers(l)'
  <2>1. events'[l] = << >> /\ levels'[l] = Standing(l)
    BY <1>1, LevelsReadAreLevels
  <2>2. LevelIsPlain(l)
    BY DEF VoiceInv, LevelsInOrder, LevelIsPlain, Numbers
  <2>6. Standing(l) \in Int
    BY <2>2, StandingIsNumber
  <2>7. Len(events'[l]) = 0
    BY <2>1
  <2> QED BY <2>1, <2>6, <2>7 DEF AreNumbers
<1> QED BY <1>1, <1>2, <1>3, <1>4 DEF Numbers

LEMMA CallsKeepNumbers ==
    ASSUME Numbers, UNCHANGED voiceVars
    PROVE  Numbers'
<1>1. UNCHANGED <<sound, cc, base, levels, events, sinePhase>>
  BY DEF voiceVars
<1>2. LevelsRead' = LevelsRead /\ \A l : AreNumbers(l)' = AreNumbers(l)
  BY <1>1 DEF LevelsRead, IsStereo, AreNumbers
<1> QED BY <1>1, <1>2 DEF Numbers

-----------------------------------------------------------------------------
(* The steps of a voice.                                                     *)

LEMMA CallInvStays == CallInv /\ UNCHANGED kernelVars => CallInv'
<1> SUFFICES ASSUME CallInv, UNCHANGED kernelVars PROVE CallInv'
  OBVIOUS
<1>1. call' = call /\ at' = at /\ phase' = phase
  BY DEF kernelVars
<1>2. /\ kernel' = kernel /\ lanes' = lanes /\ size' = size
      /\ LegalCall(call)' = LegalCall(call) /\ RunsOver' = RunsOver
  BY <1>1 DEF kernel, lanes, size, LegalCall, RunsOver
<1>3. Common' = Common /\ Room("out")' = Room("out")
  BY <1>2 DEF Common, Room
<1>4. \A m : PlaceIn(m)' = PlaceIn(m)
  BY <1>1, <1>2, <1>3 DEF PlaceIn
<1> QED BY <1>1, <1>2, <1>4 DEF CallInv, Running

LEMMA MatchInvStays == CallInv /\ MatchInv /\ UNCHANGED kernelVars => MatchInv'
<1> SUFFICES ASSUME CallInv, MatchInv, UNCHANGED kernelVars, Running' PROVE MatchInv'
  BY DEF MatchInv
<1>1. UNCHANGED <<call, at, memory, carry, byLanes, phase>> /\ call' = call
  BY DEF kernelVars
<1>2. Running
  BY <1>1 DEF Running
<1>3. PICK m \in Nat : RunsAt(m)
  BY <1>2 DEF MatchInv
<1>4. /\ Common' = Common /\ kernel' = kernel /\ size' = size /\ start' = start /\ lanes' = lanes
      /\ \A i : SumTo(i)' = SumTo(i) /\ Position(i)' = Position(i)
      /\ \A o, i : Written(o, i)' = Written(o, i)
  BY <1>1, ReferenceStays
<1>5. At(m) /\ RightCall(call) /\ PlaceIn(m) /\ Untouched(m) /\ CarryIs(m, carry)
  BY <1>3 DEF RunsAt, At
<1>6. PlaceIn(m)'
  <2>1. Room("out")' = Room("out") /\ RunsOver' = RunsOver
    BY <1>4 DEF Room, RunsOver
  <2> QED BY <1>1, <1>4, <1>5, <2>1 DEF PlaceIn
<1>7. At(m)'
  <2>1. RightCall(call)'
    BY <1>1, <1>5 DEF RightCall, LegalCall
  <2>2. Untouched(m)'
    BY <1>1, <1>4, <1>5 DEF Untouched, Contents
  <2> QED BY <1>6, <2>1, <2>2 DEF At
<1>8. \A i : RightIn(memory, i)' <=> RightIn(memory, i)
  <2>1. \A i : ElementIsRight(i)' <=> RightIn(memory', i)
    BY <1>1, RightIsRightIn
  <2>2. \A i : ElementIsRight(i)' <=> RightIn(memory, i)'
    BY DEF ElementIsRight, RightIn
  <2> QED BY <1>1, <2>1, <2>2
<1>9. \A i : KnownWrong(i)' <=> KnownWrong(i)
  BY <1>1, <1>4 DEF KnownWrong
<1>10. CarryIs(m, carry)'
  BY <1>1, <1>4, <1>5 DEF CarryIs
<1>11. RunsAt(m)'
  BY <1>1, <1>3, <1>4, <1>7, <1>8, <1>9, <1>10 DEF RunsAt
<1> QED BY <1>11 DEF MatchInv

\* The next call of a program is a legal one, and nothing of it is written yet.
LEMMA CallNextKeeps ==
    ASSUME MixingInv, CallNext
    PROVE  CallInv' /\ MatchInv'
<1>1. PICK d, e : d = Head(program) /\ e = CallOf(d)
  OBVIOUS
<1>a. /\ call' = e /\ at' = Pointers(e) /\ memory' = Contents(e) /\ carry' = e.start
      /\ byLanes' = {} /\ phase' = Entry(e)
      /\ e.kernel \in Kernels /\ program # << >>
  BY <1>1 DEF CallNext
<1>b. /\ e.kernel = d.kernel /\ e.lanes = (d.kernel \in SIMDConfig)
      /\ e.inPlace = ("in" \in DOMAIN d.spans /\ d.spans["in"] = d.spans["out"])
      /\ e.value = d.value /\ e.start = d.start
      /\ e.size = [o \in DOMAIN d.spans |-> d.spans[o].length]
      /\ e.offset = [o \in DOMAIN d.spans |-> d.spans[o].from % TypeAlignment]
      /\ e.given = [o \in DOMAIN d.spans |-> [i \in 0 .. d.spans[o].length - 1 |->
                        buffers[d.spans[o].buffer][d.spans[o].from + i]]]
  BY <1>1 DEF CallOf
<1>2. d.kernel \in Kernels /\ program # << >>
  BY <1>a, <1>b
<1>3. LegalStep(d)
  BY <1>1, <1>2, ProgramGoesOn DEF MixingInv
<1>4. PICK n \in Nat : \A o \in Operands(d.kernel) : d.spans[o].length = n /\ d.spans[o].from \in Nat
  BY <1>2, <1>3 DEF LegalStep, IsSpan
<1>5. DOMAIN d.spans = Operands(d.kernel) /\ d.kernel \in Played
  BY <1>2, <1>3 DEF LegalStep
<1>6. d.kernel \notin Interleaved /\ Outputs(d.kernel) = {"out"} /\ "out" \in Operands(d.kernel)
  BY <1>5, PlayedAre
<1>7. /\ e.size = [o \in Operands(d.kernel) |-> d.spans[o].length]
      /\ e.offset = [o \in Operands(d.kernel) |-> d.spans[o].from % TypeAlignment]
      /\ DOMAIN e.given = Operands(d.kernel)
      /\ \A o \in Operands(d.kernel) : DOMAIN e.given[o] = 0 .. e.size[o] - 1
  BY <1>b, <1>5
<1>8. LegalSpans(d.kernel, e.size, e.offset)
  <2>1. e.size \in [Operands(d.kernel) -> Nat]
    BY <1>4, <1>7
  <2>2. e.offset \in [Operands(d.kernel) -> Nat]
    BY <1>4, <1>7 DEF TypeAlignment
  <2>3. \A o \in Operands(d.kernel) : e.size[o] = n /\ Stride(d.kernel, o) = 1
    BY <1>4, <1>6, <1>7 DEF Stride, Interleaved
  <2>4. n \div 1 <= n \div 1
    OBVIOUS
  <2> QED BY <2>1, <2>2, <2>3, <2>4 DEF LegalSpans, Operands
<1>9. LegalCall(e)
  BY <1>2, <1>b, <1>8 DEF LegalCall
<1>10. e.inPlace =>
          /\ d.kernel \notin Interleaved \cup {"diff"}
          /\ "in" \in Inputs(d.kernel) /\ InPlaceOutput(d.kernel) \in Outputs(d.kernel)
          /\ e.size["in"] = e.size[InPlaceOutput(d.kernel)]
          /\ e.given["in"] = e.given["out"]
  <2> SUFFICES ASSUME e.inPlace
               PROVE  /\ d.kernel \notin Interleaved \cup {"diff"}
                      /\ "in" \in Inputs(d.kernel)
                      /\ InPlaceOutput(d.kernel) \in Outputs(d.kernel)
                      /\ e.size["in"] = e.size[InPlaceOutput(d.kernel)]
                      /\ e.given["in"] = e.given["out"]
    OBVIOUS
  <2>1. "in" \in Operands(d.kernel) /\ d.spans["in"] = d.spans["out"]
    BY <1>5, <1>b
  <2>a. /\ e.given["in"] = [i \in 0 .. d.spans["in"].length - 1 |->
                               buffers[d.spans["in"].buffer][d.spans["in"].from + i]]
        /\ e.given["out"] = [i \in 0 .. d.spans["out"].length - 1 |->
                               buffers[d.spans["out"].buffer][d.spans["out"].from + i]]
    BY <1>5, <1>6, <1>b, <2>1
  <2>2. InPlaceOutput(d.kernel) = "out" /\ d.kernel # "diff"
    BY <1>5 DEF InPlaceOutput, Played
  <2>3. "in" \in Inputs(d.kernel)
    BY <1>5, <2>1, PlayedAre
  <2>4. e.size["in"] = e.size["out"]
    BY <1>6, <1>7, <2>1
  <2>5. e.given["in"] = e.given["out"]
    BY <2>1, <2>a
  <2> QED BY <1>6, <2>2, <2>3, <2>4, <2>5
<1>11. RightCall(e)
  <2>1. /\ d.kernel \in Ramps => d.kernel = "linearRamp"
        /\ d.kernel \notin Means \cup Indexings \cup Scans \cup {"sfzInterpolationCast"}
    BY <1>5, PlayedAre
  <2>2. d.kernel = "linearRamp" => e.value \in Int /\ e.start \in Int
    BY <1>2, <1>3, <1>b DEF LegalStep
  <2>3. e.kernel = d.kernel /\ e.inPlace \in BOOLEAN
    BY <1>b
  <2> QED BY <1>7, <1>9, <1>10, <2>1, <2>2, <2>3 DEF RightCall
<1>12. /\ RightCall(call)' /\ LegalCall(call)' /\ (at = Pointers(call))'
       /\ (memory = Contents(call))' /\ (carry = call.start)' /\ (byLanes = {})'
       /\ (phase = Entry(call))'
  BY <1>a, <1>9, <1>11 DEF RightCall, LegalCall, Pointers, Contents, Entry
<1>13. (LegalCall(call) /\ at = Pointers(call) /\ phase = Entry(call) => CallInv)'
  BY CallBegins, PTL
<1>14. (/\ RightCall(call) /\ at = Pointers(call) /\ memory = Contents(call)
        /\ carry = call.start /\ byLanes = {} /\ phase = Entry(call)
        => MatchInv)'
  BY RunBegins, PTL
<1> QED BY <1>12, <1>13, <1>14

LEMMA InitIsInv == Init => MixingInv
<1> SUFFICES ASSUME Init PROVE MixingInv
  OBVIOUS
<1>1. CallInv /\ MatchInv
  <2>1. CASE TestCall
    BY <2>1, TestCallBegins
  <2>2. CASE Idle
    BY <2>2 DEF Idle, CallInv, MatchInv, Running
  <2> QED BY <2>1, <2>2 DEF Init
<1>2. /\ sound = Nothing /\ cc = [n \in CCs |-> 0] /\ events = Cleared /\ program = << >>
      /\ initialDelay = 0 /\ lastDelay = 0
  BY DEF Init, VoiceInit
<1>3. LevelsInOrder
  <2> SUFFICES ASSUME NEW l \in LevelsRead
               PROVE  /\ LevelIsInOrder(l)
                      /\ Len(events[l]) <= MaxCapacity
                      /\ \A i \in 1 .. Len(events[l]) : events[l][i].time <= lastDelay
    BY DEF LevelsInOrder
  <2>1. events[l] = << >>
    BY <1>2, LevelsReadAreLevels DEF Cleared
  <2>2. << >> \in Seq({}) /\ Len(<< >>) = 0
    OBVIOUS
  <2>3. LevelIsInOrder(l)
    BY <2>1, <2>2 DEF LevelIsInOrder, InOrder
  <2> QED BY <2>1, <2>2, <2>3, VoiceAssumption DEF VoiceAssumption
<1>4. LevelsFollow
  BY <1>2 DEF LevelsFollow
<1>5. cc = [n \in CCs |-> cc[n]]
  BY <1>2
<1>6. Numbers
  <2>1. base = [gain |-> 0, volume |-> 0] /\ levels = [l \in Levels |-> 0] /\ sinePhase = 0
    BY DEF Init, VoiceInit
  <2>2. ASSUME NEW l \in LevelsRead PROVE AreNumbers(l)
    <3>1. levels[l] = 0 /\ Len(events[l]) = 0
      BY <1>2, <2>1, LevelsReadAreLevels DEF Cleared
    <3> QED BY <3>1 DEF AreNumbers
  <2>3. cc \in [CCs -> CCValues \cup {0}]
    BY <1>2
  <2> QED BY <2>1, <2>2, <2>3 DEF Numbers
<1> QED BY <1>1, <1>2, <1>3, <1>4, <1>5, <1>6, NoCalls DEF MixingInv, VoiceInv

LEMMA StepKeepsInv == MixingInv /\ [Next]_vars => MixingInv'
<1> SUFFICES ASSUME MixingInv, [Next]_vars PROVE MixingInv'
  OBVIOUS
<1>1. CallInv /\ MatchInv /\ IsProgram(program) /\ VoiceInv /\ Numbers
  BY DEF MixingInv
<1>2. ASSUME NEW region \in Sounds, NEW strike \in Strikes, NEW duration \in Durations,
             NEW delay \in StartDelays, strike.type = "CC" => region.ccTriggered,
             StartVoice(region, strike, duration, delay)
      PROVE  MixingInv'
  <2>1. UNCHANGED kernelVars /\ program' = program
    BY <1>2 DEF StartVoice
  <2>2. VoiceInv' /\ Numbers'
    BY <1>1, <1>2, StartKeepsLevels, StartKeepsNumbers
  <2> QED BY <1>1, <2>1, <2>2, CallInvStays, MatchInvStays DEF MixingInv
<1>3. ASSUME NEW n \in CCs, NEW x \in CCValues, NEW delay \in Delays, CC(n, x, delay)
      PROVE  MixingInv'
  <2>1. UNCHANGED kernelVars /\ program' = program
    BY <1>3 DEF CC
  <2>2. VoiceInv' /\ Numbers'
    BY <1>1, <1>3, CCKeepsLevels, CCKeepsNumbers
  <2> QED BY <1>1, <2>1, <2>2, CallInvStays, MatchInvStays DEF MixingInv
<1>4. ASSUME NEW n \in Frames, RenderBlock(n)
      PROVE  MixingInv'
  <2>1. UNCHANGED kernelVars
    BY <1>4 DEF RenderBlock
  <2>2. VoiceInv' /\ IsProgram(program') /\ Numbers'
    BY <1>1, <1>4, RenderKeepsLevels, RenderKeepsNumbers
  <2> QED BY <1>1, <2>1, <2>2, CallInvStays, MatchInvStays DEF MixingInv
<1>5. UNCHANGED <<voiceVars, counters>> => VoiceInv' /\ Numbers'
  BY <1>1, CallsKeepLevels, CallsKeepNumbers
<1>6. UNCHANGED kernelVars => CallInv' /\ MatchInv'
  BY <1>1, CallInvStays, MatchInvStays
<1>7. CASE Bring
  <2>1. /\ UNCHANGED kernelVars /\ program # << >> /\ program' = Tail(program)
        /\ UNCHANGED <<voiceVars, counters>>
    BY <1>7 DEF Bring
  <2> QED BY <1>1, <1>5, <1>6, <2>1, ProgramGoesOn DEF MixingInv
<1>8. CASE CallNext
  <2>1. program' = program /\ UNCHANGED <<voiceVars, counters>>
    <3>1. PICK c : c = CallOf(Head(program))
      OBVIOUS
    <3> QED BY <1>8, <3>1 DEF CallNext
  <2> QED BY <1>1, <1>5, <1>8, <2>1, CallNextKeeps DEF MixingInv
<1>9. CASE RunKernel
  <2>1. KernelStep /\ program' = program /\ UNCHANGED <<voiceVars, counters>>
    BY <1>9 DEF RunKernel
  <2>2. CallInv' /\ MatchInv'
    BY <1>1, <2>1, CallGoesOn, MatchGoesOn
  <2> QED BY <1>1, <1>5, <2>1, <2>2 DEF MixingInv
<1>10. CASE TakeBack
  <2>1. /\ phase' = "none" /\ program # << >> /\ program' = Tail(program)
        /\ UNCHANGED <<voiceVars, counters>>
    BY <1>10 DEF TakeBack
  <2>2. CallInv' /\ MatchInv'
    BY <2>1 DEF CallInv, MatchInv, Running
  <2> QED BY <1>1, <1>5, <2>1, <2>2, ProgramGoesOn DEF MixingInv
<1>11. CASE Heard
  <2>1. UNCHANGED kernelVars /\ program' = program /\ UNCHANGED <<voiceVars, counters>>
    BY <1>11 DEF Heard
  <2> QED BY <1>1, <1>5, <1>6, <2>1 DEF MixingInv
<1>12. CASE UNCHANGED vars
  <2>1. UNCHANGED kernelVars /\ program' = program /\ UNCHANGED <<voiceVars, counters>>
    BY <1>12 DEF vars
  <2> QED BY <1>1, <1>5, <1>6, <2>1 DEF MixingInv
<1> QED BY <1>2, <1>3, <1>4, <1>7, <1>8, <1>9, <1>10, <1>11, <1>12 DEF Next

-----------------------------------------------------------------------------
(* What a program does to the buffers.                                       *)

\* A frame of a span.
Frame(x, s, i) == x[s.buffer][s.from + i]

\* What a call makes of the frame i of its output.
Made(x, c, i) ==
    LET In == Frame(x, c.spans["in"], i)
        Out == Frame(x, c.spans["out"], i)
        Gained == Frame(x, c.spans["gain"], i)
    IN  CASE c.kernel \in {"left", "right", "egEnvelope"} -> FromOutside(c.kernel, i)
          [] c.kernel = "fill" -> c.value
          [] c.kernel = "linearRamp" -> c.start + c.value * (i + 1)
          [] c.kernel = "copy" -> In
          [] c.kernel = "add" -> Out + In
          [] c.kernel = "subtract" -> Out - In
          [] c.kernel = "applyGain" -> c.value * In
          [] c.kernel = "applyGainSpan" -> Gained * In
          [] c.kernel = "multiplyAdd" -> Out + Gained * In
          [] c.kernel \in {"cos", "sin"} -> Math(c.kernel, In)

\* The buffers after that call.
Effect(x, c) ==
    LET s == c.spans["out"]
    IN  [x EXCEPT ![s.buffer] =
            [i \in DOMAIN @ |-> IF i \in s.from .. s.from + s.length - 1
                                THEN Made(x, c, i - s.from) ELSE @[i]]]

\* A program leads from some buffers to others.
Runs(p, x, y) ==
    \E f : /\ f[0] = x /\ f[Len(p)] = y
           /\ \A k \in 1 .. Len(p) : f[k] = Effect(f[k - 1], p[k])

LEMMA NothingRuns == \A x, y : Runs(<< >>, x, y) <=> x = y
<1>1. Len(<< >>) = 0
  OBVIOUS
<1>2. \A x : Runs(<< >>, x, x)
  <2> TAKE x
  <2> DEFINE f == [k \in 0 .. 0 |-> x]
  <2>1. f[0] = x /\ \A k \in 1 .. 0 : f[k] = Effect(f[k - 1], << >>[k])
    OBVIOUS
  <2> HIDE DEF f
  <2> QED BY <1>1, <2>1 DEF Runs
<1>3. \A x, y : Runs(<< >>, x, y) => x = y
  BY <1>1 DEF Runs
<1> QED BY <1>2, <1>3

LEMMA OneRuns ==
    ASSUME NEW c, NEW x, NEW y, Runs(<<c>>, x, y)
    PROVE  y = Effect(x, c)
<1>1. Len(<<c>>) = 1 /\ <<c>>[1] = c /\ 1 \in 1 .. 1 /\ 1 - 1 = 0
  OBVIOUS
<1>2. PICK f : f[0] = x /\ f[1] = y /\ \A k \in 1 .. 1 : f[k] = Effect(f[k - 1], <<c>>[k])
  BY <1>1 DEF Runs
<1> QED BY <1>1, <1>2

\* Two programs, one after the other.
LEMMA BothRun ==
    ASSUME NEW p, NEW q, IsProgram(p), IsProgram(q), NEW x, NEW z, Runs(p \o q, x, z)
    PROVE  \E y : Runs(p, x, y) /\ Runs(q, y, z)
<1>1. PICK S : p \in Seq(S)
  BY DEF IsProgram
<1>2. PICK T : q \in Seq(T)
  BY DEF IsProgram
<1>3. p \in Seq(S \cup T) /\ q \in Seq(S \cup T)
  <2>1. S \subseteq S \cup T /\ T \subseteq S \cup T
    OBVIOUS
  <2> QED BY <1>1, <1>2, <2>1
<1>4. PICK m \in Nat, n \in Nat : m = Len(p) /\ n = Len(q)
  BY <1>3
<1>5. Len(p \o q) = m + n
  BY <1>3, <1>4, ConcatProperties
<1>6. \A k \in 1 .. m + n : (p \o q)[k] = IF k <= m THEN p[k] ELSE q[k - m]
  BY <1>3, <1>4, <1>5, ConcatProperties
<1>7. PICK f : /\ f[0] = x /\ f[m + n] = z
               /\ \A k \in 1 .. m + n : f[k] = Effect(f[k - 1], (p \o q)[k])
  BY <1>5 DEF Runs
<1> DEFINE g == [k \in 0 .. n |-> f[m + k]]
<1>8. Runs(p, x, f[m])
  <2>1. \A k \in 1 .. m : f[k] = Effect(f[k - 1], p[k])
    <3> TAKE k \in 1 .. m
    <3>1. k \in 1 .. m + n /\ k <= m
      OBVIOUS
    <3> QED BY <1>6, <1>7, <3>1
  <2> QED BY <1>4, <1>7, <2>1 DEF Runs
<1>9. Runs(q, f[m], z)
  <2>1. g[0] = f[m] /\ g[n] = z
    BY <1>7
  <2>2. \A k \in 1 .. n : g[k] = Effect(g[k - 1], q[k])
    <3> TAKE k \in 1 .. n
    <3>1. m + k \in 1 .. m + n /\ ~ (m + k <= m) /\ (m + k) - m = k /\ (m + k) - 1 = m + (k - 1)
      OBVIOUS
    <3>2. g[k] = f[m + k] /\ g[k - 1] = f[m + (k - 1)]
      OBVIOUS
    <3>3. f[m + k] = Effect(f[(m + k) - 1], (p \o q)[m + k])
      BY <1>7, <3>1
    <3>4. (p \o q)[m + k] = q[k]
      BY <1>6, <3>1
    <3> QED BY <3>1, <3>2, <3>3, <3>4
  <2> HIDE DEF g
  <2> QED BY <1>4, <2>1, <2>2 DEF Runs
<1> QED BY <1>8, <1>9

\* The first call, and then the rest.
LEMMA RunsOn ==
    ASSUME NEW p, IsProgram(p), p # << >>, NEW x, NEW y, Runs(Tail(p), Effect(x, Head(p)), y)
    PROVE  Runs(p, x, y)
<1>1. PICK S : p \in Seq(S)
  BY DEF IsProgram
<1>2. PICK n \in Nat : Len(p) = n + 1
  <2>1. Len(p) \in Nat /\ Len(p) # 0
    BY <1>1
  <2>2. PICK m \in Int : m = Len(p) - 1
    BY <2>1
  <2>3. m \in Nat /\ Len(p) = m + 1
    BY <2>1, <2>2
  <2> QED BY <2>3
<1>3. /\ Len(Tail(p)) = n /\ Head(p) = p[1]
      /\ \A k \in 1 .. n : Tail(p)[k] = p[k + 1]
  BY <1>1, <1>2, HeadTailProperties
<1>4. PICK f : /\ f[0] = Effect(x, p[1]) /\ f[n] = y
               /\ \A k \in 1 .. n : f[k] = Effect(f[k - 1], p[k + 1])
  <2>1. PICK f : /\ f[0] = Effect(x, Head(p)) /\ f[n] = y
                 /\ \A k \in 1 .. n : f[k] = Effect(f[k - 1], Tail(p)[k])
    BY <1>3 DEF Runs
  <2> QED BY <1>3, <2>1
<1> DEFINE g == [k \in 0 .. n + 1 |-> IF k = 0 THEN x ELSE f[k - 1]]
<1>5. g[0] = x /\ \A k \in 1 .. n + 1 : g[k] = f[k - 1]
  OBVIOUS
<1> HIDE DEF g
<1>6. g[n + 1] = y
  <2>1. n + 1 \in 1 .. n + 1 /\ (n + 1) - 1 = n
    OBVIOUS
  <2> QED BY <1>4, <1>5, <2>1
<1>7. \A k \in 1 .. n + 1 : g[k] = Effect(g[k - 1], p[k])
  <2> TAKE k \in 1 .. n + 1
  <2>1. CASE k = 1
    <3>1. k - 1 = 0
      BY <2>1
    <3> QED BY <1>4, <1>5, <2>1, <3>1
  <2>2. CASE k # 1
    <3>1. k - 1 \in 1 .. n + 1 /\ k - 1 \in 1 .. n /\ (k - 1) + 1 = k
      BY <2>2
    <3>2. g[k] = f[k - 1] /\ g[k - 1] = f[(k - 1) - 1]
      BY <1>5, <3>1
    <3> QED BY <1>4, <3>1, <3>2
  <2> QED BY <2>1, <2>2
<1> QED BY <1>2, <1>5, <1>6, <1>7 DEF Runs

\* Four programs, one after the other.
LEMMA FourRun ==
    ASSUME NEW p, NEW q, NEW r, NEW s, IsProgram(p), IsProgram(q), IsProgram(r), IsProgram(s),
           NEW x, NEW y, Runs(p \o q \o r \o s, x, y)
    PROVE  \E a, b, c : Runs(p, x, a) /\ Runs(q, a, b) /\ Runs(r, b, c) /\ Runs(s, c, y)
<1>1. IsProgram(p \o q) /\ IsProgram(p \o q \o r)
  BY ProgramsJoin, Zenon
<1>2. PICK c : Runs(p \o q \o r, x, c) /\ Runs(s, c, y)
  BY <1>1, BothRun
<1>3. PICK b : Runs(p \o q, x, b) /\ Runs(r, b, c)
  BY <1>1, <1>2, BothRun
<1>4. PICK a : Runs(p, x, a) /\ Runs(q, a, b)
  BY <1>3, BothRun
<1> QED BY <1>2, <1>3, <1>4

-----------------------------------------------------------------------------
(* What each call does to a frame of the block.                              *)

\* The buffers of a voice.
AreBuffers(x) ==
    /\ DOMAIN x = Names
    /\ \A b \in Names : DOMAIN x[b] = 0 .. SamplesPerBlock - 1

\* A frame of one buffer is set.
Sets(x, y, b, i, v) ==
    /\ AreBuffers(y)
    /\ \A d \in Names : y[d][i] = IF d = b THEN v ELSE x[d][i]

\* A call changes what its output spans, to what it makes.
LEMMA EffectIs ==
    ASSUME NEW x, AreBuffers(x), NEW c, NEW b \in Names, NEW from \in Nat, NEW n \in Nat,
           c.spans["out"] = [buffer |-> b, from |-> from, length |-> n],
           NEW i \in 0 .. SamplesPerBlock - 1
    PROVE  Sets(x, Effect(x, c), b, i,
                IF i >= from /\ i < from + n THEN Made(x, c, i - from) ELSE x[b][i])
<1> DEFINE over == [k \in DOMAIN x[b] |-> IF k \in from .. from + n - 1
                                         THEN Made(x, c, k - from) ELSE x[b][k]]
<1>1. Effect(x, c) = [x EXCEPT ![b] = over]
  BY DEF Effect
<1>2. DOMAIN over = 0 .. SamplesPerBlock - 1
  BY DEF AreBuffers
<1>3. i \in from .. from + n - 1 <=> i >= from /\ i < from + n
  <2>1. SamplesPerBlock \in Nat /\ i \in Int
    BY VoiceAssumption DEF VoiceAssumption
  <2> QED BY <2>1
<1>4. over[i] = IF i >= from /\ i < from + n THEN Made(x, c, i - from) ELSE x[b][i]
  BY <1>2, <1>3
<1> HIDE DEF over
<1>5. DOMAIN Effect(x, c) = Names
  BY <1>1 DEF AreBuffers
<1>6. \A d \in Names : Effect(x, c)[d] = IF d = b THEN over ELSE x[d]
  BY <1>1 DEF AreBuffers
<1>7. AreBuffers(Effect(x, c))
  BY <1>2, <1>5, <1>6 DEF AreBuffers
<1> QED BY <1>4, <1>6, <1>7 DEF Sets

\* A call on a whole buffer.
LEMMA CallSets ==
    ASSUME NEW x, AreBuffers(x), NEW c, NEW b \in Names, NEW n \in Nat, NEW y,
           c.spans["out"] = Span(b, n), Runs(<<c>>, x, y),
           NEW i \in 0 .. n - 1, n <= SamplesPerBlock
    PROVE  Sets(x, y, b, i, Made(x, c, i))
<1>1. SamplesPerBlock \in Nat
  BY VoiceAssumption DEF VoiceAssumption
<1>2. i \in 0 .. SamplesPerBlock - 1 /\ i >= 0 /\ i < 0 + n /\ i - 0 = i
  BY <1>1
<1>3. c.spans["out"] = [buffer |-> b, from |-> 0, length |-> n]
  BY DEF Span
<1>4. Sets(x, Effect(x, c), b, i,
           IF i >= 0 /\ i < 0 + n THEN Made(x, c, i - 0) ELSE x[b][i])
  BY <1>2, <1>3, EffectIs
<1>5. y = Effect(x, c)
  BY OneRuns
<1> QED BY <1>2, <1>4, <1>5

LEMMA FrameOfSpan ==
    \A x, b, n : \A i \in Int : Frame(x, Span(b, n), i) = x[b][i]
<1> TAKE x, b, n
<1> TAKE i \in Int
<1>1. Span(b, n).buffer = b /\ Span(b, n).from = 0 /\ 0 + i = i
  BY DEF Span
<1> QED BY <1>1 DEF Frame

\* What each call of a block makes of a frame.
LEMMA CallsSet ==
    ASSUME NEW n \in Nat, n <= SamplesPerBlock, NEW i \in 0 .. n - 1,
           NEW x, AreBuffers(x), NEW y, NEW a \in Names, NEW b \in Names, NEW g \in Names,
           NEW v
    PROVE  /\ Runs(Fill(v, Span(b, n)), x, y) => Sets(x, y, b, i, v)
           /\ Runs(Copy(Span(a, n), Span(b, n)), x, y) => Sets(x, y, b, i, x[a][i])
           /\ Runs(Add(Span(a, n), Span(b, n)), x, y) => Sets(x, y, b, i, x[b][i] + x[a][i])
           /\ Runs(Subtract(Span(a, n), Span(b, n)), x, y) =>
                 Sets(x, y, b, i, x[b][i] - x[a][i])
           /\ Runs(ApplyGain(v, Span(b, n)), x, y) => Sets(x, y, b, i, v * x[b][i])
           /\ Runs(ApplyGainSpan(Span(g, n), Span(b, n)), x, y) =>
                 Sets(x, y, b, i, x[g][i] * x[b][i])
           /\ Runs(MultiplyAdd(Span(g, n), Span(a, n), Span(b, n)), x, y) =>
                 Sets(x, y, b, i, x[b][i] + x[g][i] * x[a][i])
           /\ Runs(Cos(Span(a, n), Span(b, n)), x, y) =>
                 Sets(x, y, b, i, Math("cos", x[a][i]))
           /\ Runs(Sin(Span(a, n), Span(b, n)), x, y) =>
                 Sets(x, y, b, i, Math("sin", x[a][i]))
           /\ \A k \in {"left", "right", "egEnvelope"} :
                 Runs(Outside(k, Span(b, n)), x, y) => Sets(x, y, b, i, FromOutside(k, i))
<1>1. \A d \in Names : Frame(x, Span(d, n), i) = x[d][i]
  BY FrameOfSpan
<1>2. ASSUME NEW k, NEW w, NEW s, s["out"] = Span(b, n), Runs(Do(k, w, 0, s), x, y)
      PROVE  Sets(x, y, b, i, Made(x, [kernel |-> k, value |-> w, start |-> 0, spans |-> s], i))
  <2> DEFINE c == [kernel |-> k, value |-> w, start |-> 0, spans |-> s]
  <2>1. c.spans["out"] = Span(b, n) /\ Do(k, w, 0, s) = <<c>>
    BY <1>2 DEF Do
  <2> HIDE DEF c
  <2>2. Sets(x, y, b, i, Made(x, c, i))
    BY <1>2, <2>1, CallSets
  <2> QED BY <2>2 DEF c
<1> DEFINE Result(k, w, s) == Made(x, [kernel |-> k, value |-> w, start |-> 0, spans |-> s], i)
<1>3. Result("fill", v, [out |-> Span(b, n)]) = v
  BY DEF Made
<1>4. /\ Result("copy", 0, [in |-> Span(a, n), out |-> Span(b, n)]) = x[a][i]
      /\ Result("add", 0, [in |-> Span(a, n), out |-> Span(b, n)]) = x[b][i] + x[a][i]
      /\ Result("subtract", 0, [in |-> Span(a, n), out |-> Span(b, n)]) = x[b][i] - x[a][i]
  BY <1>1 DEF Made
<1>5. Result("applyGain", v, [in |-> Span(b, n), out |-> Span(b, n)]) = v * x[b][i]
  BY <1>1 DEF Made
<1>6. /\ Result("cos", 0, [in |-> Span(a, n), out |-> Span(b, n)]) = Math("cos", x[a][i])
      /\ Result("sin", 0, [in |-> Span(a, n), out |-> Span(b, n)]) = Math("sin", x[a][i])
  BY <1>1 DEF Made
<1>7. /\ Result("applyGainSpan", 0, [gain |-> Span(g, n), in |-> Span(b, n), out |-> Span(b, n)])
           = x[g][i] * x[b][i]
      /\ Result("multiplyAdd", 0, [gain |-> Span(g, n), in |-> Span(a, n), out |-> Span(b, n)])
           = x[b][i] + x[g][i] * x[a][i]
  BY <1>1 DEF Made
<1>8. \A k \in {"left", "right", "egEnvelope"} :
          Result(k, 0, [out |-> Span(b, n)]) = FromOutside(k, i)
  BY DEF Made
<1> HIDE DEF Result
<1>9. ASSUME NEW k, NEW w, NEW s, s["out"] = Span(b, n), Runs(Do(k, w, 0, s), x, y)
      PROVE  Sets(x, y, b, i, Result(k, w, s))
  BY <1>2, <1>9 DEF Result
<1>10. [out |-> Span(b, n)]["out"] = Span(b, n)
  OBVIOUS
<1>11. \A s : [in |-> s, out |-> Span(b, n)]["out"] = Span(b, n)
  OBVIOUS
<1>12. \A s, t : [gain |-> t, in |-> s, out |-> Span(b, n)]["out"] = Span(b, n)
  OBVIOUS
<1>13. /\ Runs(Fill(v, Span(b, n)), x, y) => Sets(x, y, b, i, v)
       /\ \A k \in {"left", "right", "egEnvelope"} :
             Runs(Outside(k, Span(b, n)), x, y) => Sets(x, y, b, i, FromOutside(k, i))
  BY <1>3, <1>8, <1>9, <1>10 DEF Fill, Outside
<1>14. /\ Runs(Copy(Span(a, n), Span(b, n)), x, y) => Sets(x, y, b, i, x[a][i])
       /\ Runs(Add(Span(a, n), Span(b, n)), x, y) => Sets(x, y, b, i, x[b][i] + x[a][i])
       /\ Runs(Subtract(Span(a, n), Span(b, n)), x, y) => Sets(x, y, b, i, x[b][i] - x[a][i])
  BY <1>4, <1>9, <1>11 DEF Copy, Add, Subtract
<1>15. /\ Runs(ApplyGain(v, Span(b, n)), x, y) => Sets(x, y, b, i, v * x[b][i])
       /\ Runs(Cos(Span(a, n), Span(b, n)), x, y) => Sets(x, y, b, i, Math("cos", x[a][i]))
       /\ Runs(Sin(Span(a, n), Span(b, n)), x, y) => Sets(x, y, b, i, Math("sin", x[a][i]))
  BY <1>5, <1>6, <1>9, <1>11 DEF ApplyGain, Cos, Sin
<1>16. /\ Runs(ApplyGainSpan(Span(g, n), Span(b, n)), x, y) =>
             Sets(x, y, b, i, x[g][i] * x[b][i])
       /\ Runs(MultiplyAdd(Span(g, n), Span(a, n), Span(b, n)), x, y) =>
             Sets(x, y, b, i, x[b][i] + x[g][i] * x[a][i])
  BY <1>7, <1>9, <1>12 DEF ApplyGainSpan, MultiplyAdd
<1> QED BY <1>13, <1>14, <1>15, <1>16

\* The events of a level that are past, at a frame of a block.
Past(s, n, i) == {k \in DOMAIN s : Min({s[k].time, n}) <= i}

\* LineAt, of a level that begins a block of n frames at v and has the events s.
LineOf(s, v, n, i) ==
    LET Time(k) == Min({s[k].time, n})
        past == {k \in DOMAIN s : Time(k) <= i}
        from == IF past = {} THEN 0 ELSE Time(Max(past))
        x == IF past = {} THEN v ELSE s[Max(past)].value
        next == Min(DOMAIN s \ past)
    IN  IF past = DOMAIN s THEN x
        ELSE x + (i + 1 - from) * ((s[next].value - x) \div (Time(next) - from))

LEMMA MaxOfFirst ==
    ASSUME NEW m \in Nat, m # 0
    PROVE  Max(1 .. m) = m
<1>1. m \in 1 .. m /\ \A y \in 1 .. m : m >= y
  OBVIOUS
<1>2. \A x \in 1 .. m : (\A y \in 1 .. m : x >= y) => x = m
  BY <1>1
<1> QED BY <1>1, <1>2 DEF Max

\* Of the events the first m are past, and the next is not.
Between(s, n, m, i) ==
    /\ m # 0 => Min({s[m].time, n}) <= i
    /\ m < Len(s) => i < Min({s[m + 1].time, n})

\* The events of which the first m are past, at i.
LEMMA PastIs ==
    ASSUME NEW S, NEW s \in Seq(S), InOrder(s), NEW n \in Nat, NEW m \in 0 .. Len(s), NEW i \in Nat,
           Between(s, n, m, i)
    PROVE  /\ Past(s, n, i) = 1 .. m
           /\ DOMAIN s = 1 .. Len(s) /\ Len(s) \in Nat
<1> DEFINE Time(k) == Min({s[k].time, n})
<1>1. DOMAIN s = 1 .. Len(s) /\ Len(s) \in Nat
  OBVIOUS
<1>2. \A k \in 1 .. Len(s) : Time(k) \in Nat
  <2> TAKE k \in 1 .. Len(s)
  <2>1. s[k].time \in Nat
    BY DEF InOrder
  <2> QED BY <2>1, MinOfTwo
<1>3. \A j, k \in 1 .. Len(s) : j <= k => Time(j) <= Time(k)
  <2> TAKE j, k \in 1 .. Len(s)
  <2> HAVE j <= k
  <2>1. PICK a \in Nat, b \in Nat : a = s[j].time /\ b = s[k].time /\ a <= b
    BY DEF InOrder
  <2>2. PICK v \in Nat, w \in Nat : v = Min({a, n}) /\ w = Min({b, n})
    BY <1>2, <2>1
  <2>3. v <= a /\ v <= n /\ w \in {b, n}
    BY <2>2, MinOfTwo
  <2>4. v <= w
    BY <2>1, <2>3
  <2> QED BY <2>1, <2>2, <2>4
<1>4. m # 0 => Time(m) <= i
  BY DEF Between
<1>5. m < Len(s) => i < Time(m + 1)
  BY DEF Between
<1>6. {k \in DOMAIN s : Time(k) <= i} = 1 .. m
  <2> HIDE DEF Time
  <2>1. ASSUME NEW k \in 1 .. Len(s), k <= m PROVE Time(k) <= i
    <3>1. m \in 1 .. Len(s) /\ m # 0
      BY <1>1, <2>1
    <3>2. Time(k) <= Time(m) /\ Time(m) <= i /\ Time(k) \in Nat /\ Time(m) \in Nat
      BY <1>2, <1>3, <1>4, <2>1, <3>1
    <3> QED BY <3>2
  <2>2. ASSUME NEW k \in 1 .. Len(s), k > m PROVE ~ (Time(k) <= i)
    <3>1. m + 1 \in 1 .. Len(s) /\ m < Len(s) /\ m + 1 <= k
      BY <1>1, <2>2
    <3>2. Time(m + 1) <= Time(k) /\ i < Time(m + 1) /\ Time(k) \in Nat /\ Time(m + 1) \in Nat
      BY <1>2, <1>3, <1>5, <3>1
    <3> QED BY <3>2
  <2>3. \A k \in 1 .. Len(s) : Time(k) <= i <=> k <= m
    BY <1>1, <2>1, <2>2
  <2>4. \A k : k \in 1 .. m <=> k \in 1 .. Len(s) /\ k <= m
    BY <1>1
  <2> QED BY <1>1, <2>3, <2>4
<1> QED BY <1>1, <1>6 DEF Past

\* The line that a level is on behind the first m events.
LineAfter(s, v, n, m, i) ==
    LET from == IF m = 0 THEN 0 ELSE Min({s[m].time, n})
        x == IF m = 0 THEN v ELSE s[m].value
    IN  IF m = Len(s) THEN x
        ELSE x + (i + 1 - from) * ((s[m + 1].value - x) \div (Min({s[m + 1].time, n}) - from))

\* Before an event the level is on the line to it, and behind the last one it stays.
LEMMA LineIs ==
    ASSUME NEW S, NEW s \in Seq(S), InOrder(s), NEW n \in Nat, NEW m \in 0 .. Len(s), NEW i \in Nat,
           Between(s, n, m, i), NEW v
    PROVE  LineOf(s, v, n, i) = LineAfter(s, v, n, m, i)
<1> DEFINE past == Past(s, n, i)
<1>1. PICK L \in Nat : L = Len(s) /\ DOMAIN s = 1 .. L /\ m \in 0 .. L
  <2>1. Len(s) \in Nat /\ DOMAIN s = 1 .. Len(s)
    OBVIOUS
  <2> QED BY <2>1
<1>0. past = 1 .. m
  <2>1. Past(s, n, i) = 1 .. m
    BY PastIs
  <2> QED BY <2>1
<1>6. LineOf(s, v, n, i) =
         LET from == IF past = {} THEN 0 ELSE Min({s[Max(past)].time, n})
             x == IF past = {} THEN v ELSE s[Max(past)].value
             next == Min(DOMAIN s \ past)
         IN  IF past = DOMAIN s THEN x
             ELSE x + (i + 1 - from) * ((s[next].value - x) \div (Min({s[next].time, n}) - from))
  BY DEF LineOf, Past
<1> HIDE DEF past
<1>2. past = {} <=> m = 0
  BY <1>0, <1>1
<1>3. m # 0 => Max(past) = m
  BY <1>0, <1>1, MaxOfFirst
<1>4. past = DOMAIN s <=> m = L
  <2>1. m # L => L \in 1 .. L /\ ~ (L \in 1 .. m)
    BY <1>1
  <2> QED BY <1>0, <1>1, <2>1
<1>5. m # L => Min(DOMAIN s \ past) = m + 1
  <2> SUFFICES ASSUME m # L PROVE Min(DOMAIN s \ past) = m + 1
    OBVIOUS
  <2> DEFINE T == DOMAIN s \ past
  <2>1. T = m + 1 .. L /\ m + 1 \in m + 1 .. L
    BY <1>0, <1>1
  <2>2. T \in SUBSET Int /\ T # {} /\ (\A y \in T : m + 1 <= y) /\ m + 1 \in T
    BY <1>1, <2>1
  <2> HIDE DEF T
  <2>3. Min(T) \in T /\ \A y \in T : Min(T) <= y
    <3>1. m + 1 \in Int
      BY <1>1
    <3> QED BY <2>2, <3>1, FirstIsMin
  <2>4. Min(T) = m + 1
    <3>1. PICK k \in Int : k = m + 1
      BY <1>1
    <3>2. PICK z : z = Min(T)
      OBVIOUS
    <3>3. z \in T /\ z <= k
      BY <2>2, <2>3, <3>1, <3>2
    <3>4. z \in Int /\ k <= z
      BY <2>2, <3>1, <3>3
    <3> QED BY <3>1, <3>2, <3>3, <3>4
  <2> QED BY <2>4 DEF T
<1>7. CASE m = 0
  BY <1>1, <1>2, <1>4, <1>5, <1>6, <1>7 DEF LineAfter
<1>8. CASE m # 0
  BY <1>1, <1>2, <1>3, <1>4, <1>5, <1>6, <1>8 DEF LineAfter
<1> QED BY <1>7, <1>8

\* A call on a part of a buffer.
LEMMA PartSets ==
    ASSUME NEW x, AreBuffers(x), NEW k, NEW w, NEW first, NEW b \in Names,
           NEW n \in Nat, n <= SamplesPerBlock, NEW from \in Nat, NEW length \in Nat,
           from + length <= n, NEW y,
           Runs(Do(k, w, first, [out |-> Subspan(Span(b, n), from, length)]), x, y),
           NEW i \in 0 .. n - 1
    PROVE  Sets(x, y, b, i,
                IF i >= from /\ i < from + length
                THEN Made(x, [kernel |-> k, value |-> w, start |-> first,
                              spans |-> [out |-> Subspan(Span(b, n), from, length)]], i - from)
                ELSE x[b][i])
<1> DEFINE c == [kernel |-> k, value |-> w, start |-> first,
                 spans |-> [out |-> Subspan(Span(b, n), from, length)]]
<1>1. c.spans["out"] = [buffer |-> b, from |-> from, length |-> length]
  BY DEF Subspan, Span
<1>2. Do(k, w, first, [out |-> Subspan(Span(b, n), from, length)]) = <<c>>
  BY DEF Do
<1> HIDE DEF c
<1>3. y = Effect(x, c)
  BY <1>2, OneRuns
<1>4. i \in 0 .. SamplesPerBlock - 1
  BY VoiceAssumption DEF VoiceAssumption
<1>5. Sets(x, y, b, i, IF i >= from /\ i < from + length THEN Made(x, c, i - from) ELSE x[b][i])
  BY <1>1, <1>3, <1>4, EffectIs
<1> QED BY <1>5 DEF c

LEMMA RampSets ==
    ASSUME NEW x, AreBuffers(x), NEW b \in Names,
           NEW n \in Nat, n <= SamplesPerBlock, NEW from \in Nat, NEW length \in Nat,
           from + length <= n, NEW y, NEW v, NEW w,
           NEW i \in 0 .. n - 1
    PROVE  /\ Runs(LinearRamp(Subspan(Span(b, n), from, length), v, w), x, y) =>
                 Sets(x, y, b, i, IF i >= from /\ i < from + length
                                  THEN v + w * ((i - from) + 1) ELSE x[b][i])
           /\ Runs(Fill(v, Subspan(Span(b, n), from, length)), x, y) =>
                 Sets(x, y, b, i, IF i >= from /\ i < from + length THEN v ELSE x[b][i])
<1> DEFINE s == Subspan(Span(b, n), from, length)
<1>1. Made(x, [kernel |-> "linearRamp", value |-> w, start |-> v, spans |-> [out |-> s]], i - from)
        = v + w * ((i - from) + 1)
  BY DEF Made
<1>2. Made(x, [kernel |-> "fill", value |-> v, start |-> 0, spans |-> [out |-> s]], i - from) = v
  BY DEF Made
<1>3. Runs(LinearRamp(s, v, w), x, y) =>
          Sets(x, y, b, i, IF i >= from /\ i < from + length
               THEN Made(x, [kernel |-> "linearRamp", value |-> w, start |-> v,
                             spans |-> [out |-> s]], i - from) ELSE x[b][i])
  BY PartSets DEF LinearRamp
<1>4. Runs(Fill(v, s), x, y) =>
          Sets(x, y, b, i, IF i >= from /\ i < from + length
               THEN Made(x, [kernel |-> "fill", value |-> v, start |-> 0,
                             spans |-> [out |-> s]], i - from) ELSE x[b][i])
  BY PartSets DEF Fill
<1> HIDE DEF s
<1> USE <1>1, <1>2, <1>3, <1>4
<1> QED BY DEF s

\* A block of a level sets each frame to where the line between its events is.
LEMMA GetBlockSets ==
    ASSUME NEW l, LevelIsPlain(l), NEW n \in Nat, n <= SamplesPerBlock, NEW b \in Names,
           NEW x, AreBuffers(x), NEW y, Runs(GetBlock(l, Span(b, n)), x, y), NEW i \in 0 .. n - 1
    PROVE  /\ Sets(x, y, b, i, LineOf(Taken(l), levels[l], n, i))
           /\ LineOf(Taken(l), levels[l], n, i) \in Int
<1>1. PICK S : events[l] \in Seq(S)
  BY DEF LevelIsPlain, LevelIsInOrder
<1>2. InOrder(events[l]) /\ AreNumbers(l)
  BY DEF LevelIsPlain, LevelIsInOrder
<1>3. PICK s : s = Span(b, n) /\ IsSpan(s, n)
  BY DEF Span, IsSpan
<1>4. PICK e, v : e = Taken(l) /\ v = levels[l]
  OBVIOUS
<1>a. e \in Seq(S) /\ InOrder(e)
  BY <1>1, <1>2, <1>4, SortedStays DEF Taken
<1>5. PICK N \in Nat : N = Len(e)
  <2>1. Len(e) \in Nat
    BY <1>a
  <2> QED BY <2>1
<1>6. PICK f : GoesTo(f, e, v, s, n) /\ GetBlock(l, s) = Leaves(f[N], s, n)
  BY <1>1, <1>2, <1>3, <1>4, <1>5, GetBlockGoes
<1>7. /\ \A k \in 0 .. N :
            /\ f[k].index = IF k = 0 THEN 0 ELSE Min({e[k].time, n})
            /\ f[k].value = IF k = 0 THEN v ELSE e[k].value
            /\ f[k].index \in 0 .. n /\ f[k].value \in Int /\ IsProgram(f[k].calls)
      /\ f[0].calls = << >>
      /\ \A k \in 1 .. N :
            LET r == f[k - 1]
                length == f[k].index - r.index
            IN  /\ r.index <= f[k].index
                /\ f[k].calls = IF length = 0 THEN r.calls
                                ELSE r.calls \o LinearRamp(Subspan(s, r.index, length), r.value,
                                                          (f[k].value - r.value) \div length)
  BY <1>5, <1>6 DEF GoesTo
<1>8. i \in Nat /\ i < n
  OBVIOUS
<1> DEFINE line == LineOf(e, v, n, i)
\* The line from one event to the next, and behind the last.
<1>9. ASSUME NEW k \in 1 .. N, f[k - 1].index <= i, i < f[k].index
      PROVE  line = f[k - 1].value + (i + 1 - f[k - 1].index)
                       * ((f[k].value - f[k - 1].value) \div (f[k].index - f[k - 1].index))
  <2>1. PICK m \in 0 .. N : m = k - 1 /\ m + 1 = k /\ m # N /\ k # 0 /\ k \in 0 .. N
    BY <1>5
  <2>2. /\ f[k].index = Min({e[k].time, n}) /\ f[k].value = e[k].value
        /\ f[m].index = IF m = 0 THEN 0 ELSE Min({e[m].time, n})
        /\ f[m].value = IF m = 0 THEN v ELSE e[m].value
    BY <1>7, <2>1
  <2>3. Between(e, n, m, i)
    BY <1>9, <2>1, <2>2 DEF Between
  <2>4. line = LineAfter(e, v, n, m, i)
    BY <1>a, <1>5, <1>8, <2>3, LineIs, SMTT(30)
  <2> HIDE DEF line
  <2> QED BY <1>5, <2>1, <2>2, <2>4 DEF LineAfter
<1>10. ASSUME f[N].index <= i PROVE line = f[N].value
  <2>1. N \in 0 .. N
    BY <1>5
  <2>2. Between(e, n, N, i)
    <3>1. f[N].index = IF N = 0 THEN 0 ELSE Min({e[N].time, n})
      BY <1>7, <2>1
    <3>2. ~ (N < Len(e))
      BY <1>5
    <3> QED BY <1>10, <3>1, <3>2 DEF Between
  <2>3. line = LineAfter(e, v, n, N, i)
    BY <1>a, <1>5, <1>8, <2>1, <2>2, LineIs, SMTT(30)
  <2> HIDE DEF line
  <2> QED BY <1>5, <1>7, <2>1, <2>3 DEF LineAfter
<1> HIDE DEF line
<1> DEFINE Done(k) == /\ i < f[k].index => line \in Int
                      /\ \A z : Runs(f[k].calls, x, z) =>
                            Sets(x, z, b, i, IF i < f[k].index THEN line ELSE x[b][i])
           T == {k \in 0 .. N : Done(k)}
<1>11. 0 \in T
  <2>4. 0 \in 0 .. N
    BY <1>5
  <2>1. 0 \in 0 .. N /\ f[0].index = 0 /\ f[0].calls = << >>
    BY <1>7, <2>4
  <2>2. ~ (i < 0)
    BY <1>8
  <2>3. Sets(x, x, b, i, x[b][i])
    BY DEF Sets
  <2> QED BY <2>1, <2>2, <2>3, NothingRuns
<1>12. \A k \in 1 .. N : k - 1 \in T => k \in T
  <2> TAKE k \in 1 .. N
  <2> HAVE k - 1 \in T
  <2>1. k \in 0 .. N /\ k - 1 \in 0 .. N
    BY <1>5
  <2>2. PICK r, q : r = f[k - 1] /\ q = f[k]
    OBVIOUS
  <2>3. /\ r.index \in 0 .. n /\ q.index \in 0 .. n /\ r.value \in Int /\ q.value \in Int
        /\ IsProgram(r.calls)
    BY <1>7, <2>1, <2>2
  <2>4. PICK length \in Nat : length = q.index - r.index
    <3>1. r.index <= q.index
      BY <1>7, <2>2
    <3> QED BY <2>3, <3>1
  <2>5. q.calls = IF length = 0 THEN r.calls
                  ELSE r.calls \o LinearRamp(Subspan(s, r.index, length), r.value,
                                            (q.value - r.value) \div length)
    BY <1>7, <2>2, <2>4
  <2>6. /\ i < r.index => line \in Int
        /\ \A z : Runs(r.calls, x, z) =>
              Sets(x, z, b, i, IF i < r.index THEN line ELSE x[b][i])
    BY <2>2
  <2> SUFFICES /\ i < q.index => line \in Int
               /\ \A z : Runs(q.calls, x, z) =>
                     Sets(x, z, b, i, IF i < q.index THEN line ELSE x[b][i])
    BY <2>1, <2>2
  <2>7. CASE length = 0
    <3>1. q.index = r.index /\ q.calls = r.calls
      BY <2>3, <2>4, <2>5, <2>7
    <3> QED BY <2>6, <3>1
  <2>8. CASE length # 0
    <3>1. PICK w \in Int : w = (q.value - r.value) \div length
      <4>1. (q.value - r.value) \div length \in Int
        BY <2>3, <2>8
      <4> QED BY <4>1
    <3>2. r.index \in Nat /\ r.index + length <= n /\ r.index + length = q.index
      BY <2>3, <2>4
    <3>3. r.index <= i /\ i < q.index => line = r.value + w * ((i - r.index) + 1)
      <4> HAVE r.index <= i /\ i < q.index
      <4>1. line = r.value + (i + 1 - r.index) * ((q.value - r.value) \div length)
        BY <1>9, <2>2, <2>4
      <4>2. PICK a \in Int : a = r.index
        BY <2>3
      <4>3. (i + 1 - a) * w = w * ((i - a) + 1)
        BY <1>8
      <4> QED BY <3>1, <4>1, <4>2, <4>3
    <3>4. i < q.index => line \in Int
      <4>1. CASE i < r.index
        BY <2>6, <4>1
      <4>2. CASE ~ (i < r.index)
        <5>1. PICK a \in Int : a = r.index
          BY <2>3
        <5>2. r.value + w * ((i - a) + 1) \in Int /\ a <= i
          BY <1>8, <2>3, <4>2, <5>1
        <5> QED BY <3>3, <5>1, <5>2
      <4> QED BY <4>1, <4>2
    <3>5. ASSUME NEW z, Runs(q.calls, x, z)
          PROVE  Sets(x, z, b, i, IF i < q.index THEN line ELSE x[b][i])
      <4>1. q.calls = r.calls \o LinearRamp(Subspan(s, r.index, length), r.value, w)
        BY <2>5, <2>8, <3>1
      <4>2. IsProgram(LinearRamp(Subspan(s, r.index, length), r.value, w))
        <5>1. IsSpan(Subspan(s, r.index, length), length)
          BY <1>3, <3>2, SubspanIsSpan
        <5> QED BY <2>3, <5>1, CallsOnSpans
      <4>3. PICK u : /\ Runs(r.calls, x, u)
                     /\ Runs(LinearRamp(Subspan(s, r.index, length), r.value, w), u, z)
        BY <2>3, <3>5, <4>1, <4>2, BothRun
      <4>4. Sets(x, u, b, i, IF i < r.index THEN line ELSE x[b][i])
        BY <2>6, <4>3
      <4>5. AreBuffers(u) /\ u[b][i] = IF i < r.index THEN line ELSE x[b][i]
        BY <4>4 DEF Sets
      <4>6. Sets(u, z, b, i, IF i >= r.index /\ i < r.index + length
                             THEN r.value + w * ((i - r.index) + 1) ELSE u[b][i])
        BY <1>3, <3>2, <4>3, <4>5, RampSets
      <4>7. (IF i >= r.index /\ i < r.index + length
             THEN r.value + w * ((i - r.index) + 1) ELSE u[b][i])
              = IF i < q.index THEN line ELSE x[b][i]
        <5>1. PICK c \in Int, d \in Int : c = r.index /\ d = q.index
          BY <2>3
        <5>2. r.index + length = d /\ c <= d
          BY <2>4, <3>2, <5>1
        <5>3. CASE i < c
          BY <1>8, <4>5, <5>1, <5>2, <5>3
        <5>4. CASE c <= i /\ i < d
          BY <1>8, <3>3, <5>1, <5>2, <5>4
        <5>5. CASE d <= i
          BY <1>8, <4>5, <5>1, <5>2, <5>5
        <5> QED BY <1>8, <5>3, <5>4, <5>5
      <4> QED BY <4>4, <4>6, <4>7 DEF Sets
    <3> QED BY <3>4, <3>5
  <2> QED BY <2>7, <2>8
<1> HIDE DEF T
<1>13. 0 .. N \subseteq T
  BY <1>5, <1>11, <1>12, UpTo
<1>14. Done(N)
  <2>1. N \in 0 .. N
    BY <1>5
  <2> QED BY <1>13, <2>1 DEF T
<1>15. PICK r : r = f[N] /\ r.index \in 0 .. n /\ r.value \in Int /\ IsProgram(r.calls)
  <2>1. N \in 0 .. N
    BY <1>5
  <2> QED BY <1>7, <2>1
<1>16. /\ i < r.index => line \in Int
       /\ \A z : Runs(r.calls, x, z) =>
             Sets(x, z, b, i, IF i < r.index THEN line ELSE x[b][i])
  BY <1>14, <1>15
<1>17. line \in Int
  BY <1>8, <1>10, <1>15, <1>16
<1>18. Runs(Leaves(r, s, n), x, y)
  BY <1>3, <1>6, <1>15
<1>19. Sets(x, y, b, i, line)
  <2>1. CASE ~ (r.index < n)
    <3>1. i < r.index /\ Leaves(r, s, n) = r.calls
      BY <1>8, <1>15, <2>1 DEF Leaves
    <3> QED BY <1>16, <1>18, <3>1
  <2>2. CASE r.index < n
    <3>1. PICK length \in Nat : length = n - r.index
      BY <1>15, <2>2
    <3>2. r.index \in Nat /\ r.index + length = n /\ n <= n
      BY <1>15, <3>1
    <3>3. Leaves(r, s, n) = r.calls \o Fill(r.value, Subspan(s, r.index, length))
      BY <2>2, <3>1 DEF Leaves
    <3>4. IsProgram(Fill(r.value, Subspan(s, r.index, length)))
      <4>1. IsSpan(Subspan(s, r.index, length), length)
        BY <1>3, <3>2, SubspanIsSpan
      <4> QED BY <4>1, CallsOnSpans
    <3>5. PICK u : Runs(r.calls, x, u) /\ Runs(Fill(r.value, Subspan(s, r.index, length)), u, y)
      BY <1>15, <1>18, <3>3, <3>4, BothRun
    <3>6. Sets(x, u, b, i, IF i < r.index THEN line ELSE x[b][i])
      BY <1>16, <3>5
    <3>7. AreBuffers(u) /\ u[b][i] = IF i < r.index THEN line ELSE x[b][i]
      BY <3>6 DEF Sets
    <3>8. r.index + length <= n
      BY <3>2
    <3>9. Sets(u, y, b, i, IF i >= r.index /\ i < r.index + length THEN r.value ELSE u[b][i])
      BY <1>3, <3>2, <3>5, <3>7, <3>8, RampSets
    <3>10. (IF i >= r.index /\ i < r.index + length THEN r.value ELSE u[b][i]) = line
      <4>1. CASE i < r.index
        BY <1>8, <1>15, <3>7, <4>1
      <4>2. CASE ~ (i < r.index)
        BY <1>8, <1>10, <1>15, <3>2, <4>2
      <4> QED BY <4>1, <4>2
    <3> QED BY <3>6, <3>9, <3>10 DEF Sets
  <2> QED BY <2>1, <2>2
<1> QED BY <1>4, <1>17, <1>19 DEF line

\* Three programs, one after the other.
LEMMA ThreeRun ==
    ASSUME NEW p, NEW q, NEW r, IsProgram(p), IsProgram(q), IsProgram(r),
           NEW x, NEW y, Runs(p \o q \o r, x, y)
    PROVE  \E a, b : Runs(p, x, a) /\ Runs(q, a, b) /\ Runs(r, b, y)
<1>1. IsProgram(p \o q)
  BY ProgramsJoin, Zenon
<1>2. PICK b : Runs(p \o q, x, b) /\ Runs(r, b, y)
  BY <1>1, BothRun
<1>3. PICK a : Runs(p, x, a) /\ Runs(q, a, b)
  BY <1>2, BothRun
<1> QED BY <1>2, <1>3

\* What comes from outside, and a sine or a cosine of a number, are numbers.
LEMMA TheseAreNumbers ==
    ASSUME NEW i \in Int
    PROVE  /\ \A k \in {"left", "right", "egEnvelope"} : FromOutside(k, i) \in Int
           /\ \A f \in {"sin", "cos"} : Math(f, i) \in Int
<1>1. \A k \in {"left", "right", "egEnvelope"} : FromOutside(k, i) \in Int
  <2>1. i % 2 \in Int /\ 1 + i \in Int /\ 3 - i \in Int
    OBVIOUS
  <2> QED BY <2>1 DEF FromOutside
<1>2. \A k \in 1 .. 8 : Sine[k] \in Int
  BY DEF Sine
<1>3. 1 + (i % 8) \in 1 .. 8 /\ 1 + ((i + 2) % 8) \in 1 .. 8
  OBVIOUS
<1>4. Math("sin", i) \in Int
  BY <1>2, <1>3 DEF Math, TwoPi, PiFour
<1>5. Math("cos", i) \in Int
  <2>1. Math("cos", i) = Sine[1 + ((i + 2 * 1) % 8)]
    BY DEF Math, TwoPi, PiFour
  <2>2. i + 2 * 1 = i + 2
    OBVIOUS
  <2> QED BY <1>2, <1>3, <2>1, <2>2
<1> QED BY <1>1, <1>4, <1>5

\* The two gains for a level.
LEMMA GainsSet ==
    ASSUME NEW l, LevelIsPlain(l), NEW n \in Nat, n <= SamplesPerBlock,
           NEW a \in Names, NEW b \in Names, a # b,
           NEW x, AreBuffers(x), NEW y, Runs(Gains(l, Span(a, n), Span(b, n)), x, y),
           NEW i \in 0 .. n - 1
    PROVE  LET turn == PiFour * (1 + LineOf(Taken(l), levels[l], n, i))
           IN  /\ AreBuffers(y) /\ turn \in Int
               /\ y[a][i] = Math("cos", turn) /\ y[b][i] = Math("sin", turn)
               /\ \A d \in Names \ {a, b} : y[d][i] = x[d][i]
<1>1. PICK s, t : s = Span(a, n) /\ t = Span(b, n)
  OBVIOUS
<1>2. IsSpan(s, n) /\ IsSpan(t, n)
  BY <1>1 DEF Span, IsSpan
<1>3. IsProgram(GetBlock(l, s))
  BY <1>2, LevelIsProgram
<1>4. /\ IsProgram(Fill(1, t)) /\ IsProgram(Add(s, t)) /\ IsProgram(ApplyGain(PiFour, t))
      /\ IsProgram(Cos(t, s)) /\ IsProgram(Sin(t, t))
  BY <1>2, CallsOnSpans
<1>5. IsProgram(GetBlock(l, s) \o Fill(1, t) \o Add(s, t))
  BY <1>3, <1>4, ProgramsJoin, Zenon
<1>6. Runs(GetBlock(l, s) \o Fill(1, t) \o Add(s, t) \o ApplyGain(PiFour, t)
           \o Cos(t, s) \o Sin(t, t), x, y)
  BY <1>1 DEF Gains
<1>7. PICK x3, x4, x5 : /\ Runs(GetBlock(l, s) \o Fill(1, t) \o Add(s, t), x, x3)
                        /\ Runs(ApplyGain(PiFour, t), x3, x4)
                        /\ Runs(Cos(t, s), x4, x5) /\ Runs(Sin(t, t), x5, y)
  BY <1>4, <1>5, <1>6, FourRun, Zenon
<1>8. PICK x1, x2 : /\ Runs(GetBlock(l, s), x, x1) /\ Runs(Fill(1, t), x1, x2)
                    /\ Runs(Add(s, t), x2, x3)
  BY <1>3, <1>4, <1>7, ThreeRun, Zenon
<1>9. PICK line \in Int : line = LineOf(Taken(l), levels[l], n, i) /\ Sets(x, x1, a, i, line)
  BY <1>1, <1>8, GetBlockSets
<1>10. AreBuffers(x1) /\ x1[a][i] = line /\ \A d \in Names \ {a} : x1[d][i] = x[d][i]
  BY <1>9 DEF Sets
<1>11. Sets(x1, x2, b, i, 1)
  BY <1>1, <1>8, <1>10, CallsSet
<1>12. AreBuffers(x2) /\ x2[a][i] = line /\ x2[b][i] = 1
       /\ \A d \in Names \ {a, b} : x2[d][i] = x[d][i]
  BY <1>10, <1>11 DEF Sets
<1>13. Sets(x2, x3, b, i, 1 + line)
  <2>1. Sets(x2, x3, b, i, x2[b][i] + x2[a][i])
    BY <1>1, <1>8, <1>12, CallsSet
  <2> QED BY <1>12, <2>1
<1>14. AreBuffers(x3) /\ x3[b][i] = 1 + line
       /\ \A d \in Names \ {a, b} : x3[d][i] = x[d][i]
  BY <1>12, <1>13 DEF Sets
<1>15. PICK turn \in Int : turn = PiFour * (1 + line)
  BY DEF PiFour
<1>16. Sets(x3, x4, b, i, turn)
  <2>1. Sets(x3, x4, b, i, PiFour * x3[b][i])
    BY <1>1, <1>7, <1>14, CallsSet
  <2> QED BY <1>14, <1>15, <2>1
<1>17. AreBuffers(x4) /\ x4[b][i] = turn
       /\ \A d \in Names \ {a, b} : x4[d][i] = x[d][i]
  BY <1>14, <1>16 DEF Sets
<1>18. Sets(x4, x5, a, i, Math("cos", turn))
  <2>1. Sets(x4, x5, a, i, Math("cos", x4[b][i]))
    BY <1>1, <1>7, <1>17, CallsSet
  <2> QED BY <1>17, <2>1
<1>19. AreBuffers(x5) /\ x5[a][i] = Math("cos", turn) /\ x5[b][i] = turn
       /\ \A d \in Names \ {a, b} : x5[d][i] = x[d][i]
  BY <1>17, <1>18 DEF Sets
<1>20. Sets(x5, y, b, i, Math("sin", turn))
  <2>1. Sets(x5, y, b, i, Math("sin", x5[b][i]))
    BY <1>1, <1>7, <1>19, CallsSet
  <2> QED BY <1>19, <2>1
<1>21. AreBuffers(y) /\ y[a][i] = Math("cos", turn) /\ y[b][i] = Math("sin", turn)
       /\ \A d \in Names \ {a, b} : y[d][i] = x[d][i]
  BY <1>19, <1>20 DEF Sets
<1> QED BY <1>9, <1>15, <1>21

\* The product of a frame with the three gains of a block.
LEMMA GainsMultiply ==
    ASSUME NEW s \in Int, NEW a \in Int, NEW e \in Int, NEW v \in Int
    PROVE  v * (e * (a * s)) = s * a * e * v /\ s * a * e * v \in Int
  OBVIOUS

\* What a mono sound is after its gains and its pan.
LEMMA MonoSets ==
    ASSUME NEW n \in Nat, n <= SamplesPerBlock, NEW i \in 0 .. n - 1,
           \A l \in {"amplitude", "volume", "pan"} : LevelIsPlain(l),
           NEW x, AreBuffers(x), x["left"][i] \in Int, NEW y,
           Runs(ProcessMono(Span("left", n), Span("right", n), Span("temp1", n), Span("temp2", n)),
                x, y)
    PROVE  LET Line(l) == LineOf(Taken(l), levels[l], n, i)
               loud == x["left"][i] * Line("amplitude") * FromOutside("egEnvelope", i)
                           * Line("volume")
           IN  /\ y["left"][i] = loud * Math("cos", PiFour * (1 + Line("pan")))
               /\ y["right"][i] = loud * Math("sin", PiFour * (1 + Line("pan")))
<1>1. PICK left, right, s, t : /\ left = Span("left", n) /\ right = Span("right", n)
                               /\ s = Span("temp1", n) /\ t = Span("temp2", n)
  OBVIOUS
<1>2. IsSpan(left, n) /\ IsSpan(right, n) /\ IsSpan(s, n) /\ IsSpan(t, n)
  BY <1>1 DEF Span, IsSpan
<1>3. "left" \in Names /\ "right" \in Names /\ "temp1" \in Names /\ "temp2" \in Names
  BY DEF Names
<1>4. /\ IsProgram(GetBlock("amplitude", s)) /\ IsProgram(GetBlock("volume", s))
      /\ IsProgram(Gains("pan", s, t))
  BY <1>2, LevelIsProgram, GainsIsProgram
<1>5. /\ IsProgram(ApplyGainSpan(s, left)) /\ IsProgram(ApplyGainSpan(t, right))
      /\ IsProgram(Copy(left, right))
  BY <1>2, CallsOnSpans
<1>6. IsProgram(Outside("egEnvelope", s))
  BY OutsideIsProgram
<1> DEFINE first == GetBlock("amplitude", s) \o ApplyGainSpan(s, left)
                    \o Outside("egEnvelope", s) \o ApplyGainSpan(s, left)
           then == first \o GetBlock("volume", s) \o ApplyGainSpan(s, left) \o Copy(left, right)
<1>7. Runs(then \o Gains("pan", s, t) \o ApplyGainSpan(s, left) \o ApplyGainSpan(t, right), x, y)
  BY <1>1 DEF ProcessMono
<1>8. IsProgram(first)
  BY <1>4, <1>5, <1>6, ProgramsJoin, Zenon
<1>9. ASSUME NEW z, Runs(first, x, z)
      PROVE  \E x1, x2, x3 : /\ Runs(GetBlock("amplitude", s), x, x1)
                            /\ Runs(ApplyGainSpan(s, left), x1, x2)
                            /\ Runs(Outside("egEnvelope", s), x2, x3)
                            /\ Runs(ApplyGainSpan(s, left), x3, z)
  BY <1>4, <1>5, <1>6, <1>9, FourRun
<1> HIDE DEF first
<1>10. IsProgram(then)
  BY <1>4, <1>5, <1>8, ProgramsJoin, Zenon
<1>11. ASSUME NEW z, Runs(then, x, z)
       PROVE  \E x4, x5, x6 : /\ Runs(first, x, x4) /\ Runs(GetBlock("volume", s), x4, x5)
                             /\ Runs(ApplyGainSpan(s, left), x5, x6)
                             /\ Runs(Copy(left, right), x6, z)
  BY <1>4, <1>5, <1>8, <1>11, FourRun, Zenon
<1> HIDE DEF then
<1>12. PICK x7, x8, x9 : /\ Runs(then, x, x7) /\ Runs(Gains("pan", s, t), x7, x8)
                         /\ Runs(ApplyGainSpan(s, left), x8, x9)
                         /\ Runs(ApplyGainSpan(t, right), x9, y)
  BY <1>4, <1>5, <1>7, <1>10, FourRun, Zenon
<1>13. PICK x4, x5, x6 : /\ Runs(first, x, x4) /\ Runs(GetBlock("volume", s), x4, x5)
                         /\ Runs(ApplyGainSpan(s, left), x5, x6) /\ Runs(Copy(left, right), x6, x7)
  BY <1>11, <1>12
<1>14. PICK x1, x2, x3 : /\ Runs(GetBlock("amplitude", s), x, x1)
                         /\ Runs(ApplyGainSpan(s, left), x1, x2)
                         /\ Runs(Outside("egEnvelope", s), x2, x3)
                         /\ Runs(ApplyGainSpan(s, left), x3, x4)
  BY <1>9, <1>13
<1>15. PICK frame \in Int : frame = x["left"][i]
  OBVIOUS
<1>16. PICK amplitude \in Int :
          /\ amplitude = LineOf(Taken("amplitude"), levels["amplitude"], n, i)
          /\ Sets(x, x1, "temp1", i, amplitude)
  BY <1>1, <1>3, <1>14, GetBlockSets
<1>17. AreBuffers(x1) /\ x1["temp1"][i] = amplitude /\ x1["left"][i] = frame
  BY <1>3, <1>15, <1>16 DEF Sets
<1>18. Sets(x1, x2, "left", i, x1["temp1"][i] * x1["left"][i])
  BY <1>1, <1>3, <1>14, <1>17, CallsSet
<1>19. AreBuffers(x2) /\ x2["left"][i] = amplitude * frame
  BY <1>3, <1>17, <1>18 DEF Sets
<1>20. PICK envelope \in Int : envelope = FromOutside("egEnvelope", i)
  BY TheseAreNumbers
<1>21. Sets(x2, x3, "temp1", i, envelope)
  BY <1>1, <1>3, <1>14, <1>19, <1>20, CallsSet
<1>22. AreBuffers(x3) /\ x3["temp1"][i] = envelope /\ x3["left"][i] = amplitude * frame
  BY <1>3, <1>19, <1>21 DEF Sets
<1>23. Sets(x3, x4, "left", i, x3["temp1"][i] * x3["left"][i])
  BY <1>1, <1>3, <1>14, <1>22, CallsSet
<1>24. AreBuffers(x4) /\ x4["left"][i] = envelope * (amplitude * frame)
  BY <1>3, <1>22, <1>23 DEF Sets
<1>25. PICK volume \in Int :
          /\ volume = LineOf(Taken("volume"), levels["volume"], n, i)
          /\ Sets(x4, x5, "temp1", i, volume)
  BY <1>1, <1>3, <1>13, <1>24, GetBlockSets
<1>26. AreBuffers(x5) /\ x5["temp1"][i] = volume
       /\ x5["left"][i] = envelope * (amplitude * frame)
  BY <1>3, <1>24, <1>25 DEF Sets
<1>27. Sets(x5, x6, "left", i, x5["temp1"][i] * x5["left"][i])
  BY <1>1, <1>3, <1>13, <1>26, CallsSet
<1>28. PICK loud \in Int : /\ loud = frame * amplitude * envelope * volume
                          /\ loud = volume * (envelope * (amplitude * frame))
  BY GainsMultiply
<1>29. AreBuffers(x6) /\ x6["left"][i] = loud
  BY <1>3, <1>26, <1>27, <1>28 DEF Sets
<1>30. Sets(x6, x7, "right", i, x6["left"][i])
  BY <1>1, <1>3, <1>13, <1>29, CallsSet
<1>31. AreBuffers(x7) /\ x7["left"][i] = loud /\ x7["right"][i] = loud
  BY <1>3, <1>29, <1>30 DEF Sets
<1>32. PICK turn \in Int : /\ turn = PiFour * (1 + LineOf(Taken("pan"), levels["pan"], n, i))
                           /\ AreBuffers(x8)
                           /\ x8["temp1"][i] = Math("cos", turn)
                           /\ x8["temp2"][i] = Math("sin", turn)
                           /\ \A d \in Names \ {"temp1", "temp2"} : x8[d][i] = x7[d][i]
  BY <1>1, <1>3, <1>12, <1>31, GainsSet
<1>33. PICK c \in Int, z \in Int : c = Math("cos", turn) /\ z = Math("sin", turn)
  BY TheseAreNumbers
<1>34. /\ x8["temp1"][i] = c /\ x8["temp2"][i] = z
       /\ x8["left"][i] = loud /\ x8["right"][i] = loud
  BY <1>31, <1>32, <1>33 DEF Names
<1>35. Sets(x8, x9, "left", i, c * loud)
  <2>1. Sets(x8, x9, "left", i, x8["temp1"][i] * x8["left"][i])
    BY <1>1, <1>3, <1>12, <1>32, CallsSet
  <2> QED BY <1>34, <2>1
<1>36. /\ AreBuffers(x9) /\ x9["temp2"][i] = z /\ x9["left"][i] = c * loud
       /\ x9["right"][i] = loud
  BY <1>3, <1>34, <1>35 DEF Sets
<1>37. Sets(x9, y, "right", i, z * loud)
  <2>1. Sets(x9, y, "right", i, x9["temp2"][i] * x9["right"][i])
    BY <1>1, <1>3, <1>12, <1>36, CallsSet
  <2> QED BY <1>36, <2>1
<1>38. y["left"][i] = c * loud /\ y["right"][i] = z * loud
  BY <1>3, <1>36, <1>37 DEF Sets
<1>39. c * loud = loud * c /\ z * loud = loud * z
  OBVIOUS
<1> QED BY <1>15, <1>16, <1>20, <1>25, <1>28, <1>32, <1>33, <1>38, <1>39

\* One gain, or one factor, for both channels.
BothGain(s, left, right) == ApplyGainSpan(s, left) \o ApplyGainSpan(s, right)
BothTimes(v, left, right) == ApplyGain(v, left) \o ApplyGain(v, right)

\* One gain on both channels.
LEMMA GainOnBothSets ==
    ASSUME NEW n \in Nat, n <= SamplesPerBlock, NEW i \in 0 .. n - 1, NEW x, AreBuffers(x), NEW y,
           Runs(BothGain(Span("temp1", n), Span("left", n), Span("right", n)), x, y)
    PROVE  /\ AreBuffers(y)
           /\ y["left"][i] = x["temp1"][i] * x["left"][i] /\ y["right"][i] = x["temp1"][i] * x["right"][i]
<1>1. PICK left, right, s :
          left = Span("left", n) /\ right = Span("right", n) /\ s = Span("temp1", n)
  OBVIOUS
<1>2. IsSpan(left, n) /\ IsSpan(right, n) /\ IsSpan(s, n)
  BY <1>1 DEF Span, IsSpan
<1>3. "left" \in Names /\ "right" \in Names /\ "temp1" \in Names
  BY DEF Names
<1>4. IsProgram(ApplyGainSpan(s, left)) /\ IsProgram(ApplyGainSpan(s, right))
  BY <1>2, CallsOnSpans
<1>5. Runs(ApplyGainSpan(s, left) \o ApplyGainSpan(s, right), x, y)
  BY <1>1 DEF BothGain
<1>6. PICK z : Runs(ApplyGainSpan(s, left), x, z) /\ Runs(ApplyGainSpan(s, right), z, y)
  BY <1>4, <1>5, BothRun
<1>7. Sets(x, z, "left", i, x["temp1"][i] * x["left"][i])
  BY <1>1, <1>3, <1>6, CallsSet
<1>8. AreBuffers(z)
  BY <1>7 DEF Sets
<1>9. Sets(z, y, "right", i, z["temp1"][i] * z["right"][i])
  BY <1>1, <1>3, <1>6, <1>8, CallsSet
<1>10. /\ z["left"][i] = x["temp1"][i] * x["left"][i]
       /\ z["right"][i] = x["right"][i] /\ z["temp1"][i] = x["temp1"][i]
  BY <1>3, <1>7, Zenon DEF Sets
<1>11. AreBuffers(y) /\ y["left"][i] = z["left"][i]
  BY <1>3, <1>9, Zenon DEF Sets
<1>12. y["right"][i] = z["temp1"][i] * z["right"][i]
  BY <1>3, <1>9, Zenon DEF Sets
<1> QED BY <1>10, <1>11, <1>12

\* One factor on both channels.
LEMMA FactorOnBothSets ==
    ASSUME NEW n \in Nat, n <= SamplesPerBlock, NEW i \in 0 .. n - 1, NEW x, AreBuffers(x), NEW y, NEW v,
           Runs(BothTimes(v, Span("left", n), Span("right", n)), x, y)
    PROVE  /\ AreBuffers(y)
           /\ y["left"][i] = v * x["left"][i] /\ y["right"][i] = v * x["right"][i]
<1>1. PICK left, right, s :
          left = Span("left", n) /\ right = Span("right", n) /\ s = Span("temp1", n)
  OBVIOUS
<1>2. IsSpan(left, n) /\ IsSpan(right, n) /\ IsSpan(s, n)
  BY <1>1 DEF Span, IsSpan
<1>3. "left" \in Names /\ "right" \in Names /\ "temp1" \in Names
  BY DEF Names
<1>4. IsProgram(ApplyGain(v, left)) /\ IsProgram(ApplyGain(v, right))
  BY <1>2, CallsOnSpans
<1>5. Runs(ApplyGain(v, left) \o ApplyGain(v, right), x, y)
  BY <1>1 DEF BothTimes
<1>6. PICK z : Runs(ApplyGain(v, left), x, z) /\ Runs(ApplyGain(v, right), z, y)
  BY <1>4, <1>5, BothRun
<1>7. Sets(x, z, "left", i, v * x["left"][i])
  BY <1>1, <1>3, <1>6, CallsSet
<1>8. AreBuffers(z)
  BY <1>7 DEF Sets
<1>9. Sets(z, y, "right", i, v * z["right"][i])
  BY <1>1, <1>3, <1>6, <1>8, CallsSet
<1>10. /\ z["left"][i] = v * x["left"][i]
       /\ z["right"][i] = x["right"][i] /\ z["temp1"][i] = x["temp1"][i]
  BY <1>3, <1>7, Zenon DEF Sets
<1>11. AreBuffers(y) /\ y["left"][i] = z["left"][i]
  BY <1>3, <1>9, Zenon DEF Sets
<1>12. y["right"][i] = v * z["right"][i]
  BY <1>3, <1>9, Zenon DEF Sets
<1> QED BY <1>10, <1>11, <1>12

\* The three gains of a stereo sound, up to the copy of the right channel.
Louder(left, right, s) ==
    GetBlock("amplitude", s) \o BothGain(s, left, right)
    \o Outside("egEnvelope", s) \o BothGain(s, left, right)
    \o GetBlock("volume", s) \o BothGain(s, left, right) \o Copy(right, s)

LEMMA LouderSets ==
    ASSUME NEW n \in Nat, n <= SamplesPerBlock, NEW i \in 0 .. n - 1,
           LevelIsPlain("amplitude"), LevelIsPlain("volume"),
           NEW x, AreBuffers(x), x["left"][i] \in Int, x["right"][i] \in Int, NEW y,
           Runs(Louder(Span("left", n), Span("right", n), Span("temp1", n)), x, y)
    PROVE  LET Line(l) == LineOf(Taken(l), levels[l], n, i)
               Amplified(c) == x[c][i] * Line("amplitude") * FromOutside("egEnvelope", i)
                             * Line("volume")
           IN  /\ AreBuffers(y) /\ Amplified("left") \in Int /\ Amplified("right") \in Int
               /\ y["left"][i] = Amplified("left") /\ y["right"][i] = Amplified("right")
               /\ y["temp1"][i] = Amplified("right")
<1>1. PICK left, right, s : left = Span("left", n) /\ right = Span("right", n) /\ s = Span("temp1", n)
  OBVIOUS
<1>2. IsSpan(left, n) /\ IsSpan(right, n) /\ IsSpan(s, n)
  BY <1>1 DEF Span, IsSpan
<1>3. "left" \in Names /\ "right" \in Names /\ "temp1" \in Names
      /\ "temp1" \in Names \ {"left", "right"}
  BY DEF Names
<1>4. IsProgram(GetBlock("amplitude", s)) /\ IsProgram(GetBlock("volume", s))
  BY <1>2, LevelIsProgram
<1>5. IsProgram(BothGain(s, left, right))
  <2>1. IsProgram(ApplyGainSpan(s, left)) /\ IsProgram(ApplyGainSpan(s, right))
    BY <1>2, CallsOnSpans
  <2> QED BY <2>1, ProgramsJoin DEF BothGain
<1>6. IsProgram(Outside("egEnvelope", s)) /\ IsProgram(Copy(right, s))
  BY <1>2, OutsideIsProgram, CallsOnSpans
<1> DEFINE first == GetBlock("amplitude", s) \o BothGain(s, left, right)
                    \o Outside("egEnvelope", s) \o BothGain(s, left, right)
<1>7. Runs(first \o GetBlock("volume", s) \o BothGain(s, left, right) \o Copy(right, s), x, y)
  BY <1>1 DEF Louder
<1>8. IsProgram(first)
  BY <1>4, <1>5, <1>6, ProgramsJoin, Zenon
<1>9. ASSUME NEW z, Runs(first, x, z)
      PROVE  \E x1, x2, x3 : /\ Runs(GetBlock("amplitude", s), x, x1)
                            /\ Runs(BothGain(s, left, right), x1, x2)
                            /\ Runs(Outside("egEnvelope", s), x2, x3)
                            /\ Runs(BothGain(s, left, right), x3, z)
  BY <1>4, <1>5, <1>6, <1>9, FourRun
<1> HIDE DEF first
<1>10. PICK x4, x5, x6 : /\ Runs(first, x, x4) /\ Runs(GetBlock("volume", s), x4, x5)
                         /\ Runs(BothGain(s, left, right), x5, x6) /\ Runs(Copy(right, s), x6, y)
  BY <1>4, <1>5, <1>6, <1>7, <1>8, FourRun
<1>11. PICK x1, x2, x3 : /\ Runs(GetBlock("amplitude", s), x, x1)
                         /\ Runs(BothGain(s, left, right), x1, x2)
                         /\ Runs(Outside("egEnvelope", s), x2, x3)
                         /\ Runs(BothGain(s, left, right), x3, x4)
  BY <1>9, <1>10
<1>12. PICK a \in Int, b \in Int : a = x["left"][i] /\ b = x["right"][i]
  OBVIOUS
<1>13. PICK amplitude \in Int :
          /\ amplitude = LineOf(Taken("amplitude"), levels["amplitude"], n, i)
          /\ Sets(x, x1, "temp1", i, amplitude)
  BY <1>1, <1>3, <1>11, GetBlockSets
<1>14. AreBuffers(x1) /\ x1["temp1"][i] = amplitude /\ x1["left"][i] = a /\ x1["right"][i] = b
  BY <1>3, <1>12, <1>13 DEF Sets
<1>a. PICK c \in Int, d \in Int : c = amplitude * a /\ d = amplitude * b
  OBVIOUS
<1>15. AreBuffers(x2) /\ x2["left"][i] = c /\ x2["right"][i] = d
  <2>1. /\ AreBuffers(x2) /\ x2["left"][i] = x1["temp1"][i] * x1["left"][i]
        /\ x2["right"][i] = x1["temp1"][i] * x1["right"][i]
    <3>1. Runs(BothGain(Span("temp1", n), Span("left", n), Span("right", n)), x1, x2)
      BY <1>1, <1>11
    <3> QED BY <3>1, <1>14, GainOnBothSets
  <2> QED BY <1>14, <1>a, <2>1
<1>16. PICK envelope \in Int : envelope = FromOutside("egEnvelope", i)
  BY TheseAreNumbers
<1>17. Sets(x2, x3, "temp1", i, envelope)
  BY <1>1, <1>3, <1>11, <1>15, <1>16, CallsSet
<1>18. AreBuffers(x3) /\ x3["temp1"][i] = envelope /\ x3["left"][i] = c /\ x3["right"][i] = d
  BY <1>3, <1>15, <1>17 DEF Sets
<1>b. PICK e \in Int, f \in Int : e = envelope * c /\ f = envelope * d
  OBVIOUS
<1>19. AreBuffers(x4) /\ x4["left"][i] = e /\ x4["right"][i] = f
  <2>1. AreBuffers(x3)
    BY <1>18
  <2>2. /\ AreBuffers(x4) /\ x4["left"][i] = x3["temp1"][i] * x3["left"][i]
        /\ x4["right"][i] = x3["temp1"][i] * x3["right"][i]
    <3>1. Runs(BothGain(Span("temp1", n), Span("left", n), Span("right", n)), x3, x4)
      BY <1>1, <1>11
    <3> QED BY <3>1, <2>1, GainOnBothSets
  <2> QED BY <1>18, <1>b, <2>2
<1>20. PICK volume \in Int :
          /\ volume = LineOf(Taken("volume"), levels["volume"], n, i)
          /\ Sets(x4, x5, "temp1", i, volume)
  BY <1>1, <1>3, <1>10, <1>19, GetBlockSets
<1>21. AreBuffers(x5) /\ x5["temp1"][i] = volume /\ x5["left"][i] = e /\ x5["right"][i] = f
  BY <1>3, <1>19, <1>20 DEF Sets
<1>22. AreBuffers(x6) /\ x6["left"][i] = volume * e /\ x6["right"][i] = volume * f
  <2>1. AreBuffers(x5)
    BY <1>21
  <2>2. /\ AreBuffers(x6) /\ x6["left"][i] = x5["temp1"][i] * x5["left"][i]
        /\ x6["right"][i] = x5["temp1"][i] * x5["right"][i]
    <3>1. Runs(BothGain(Span("temp1", n), Span("left", n), Span("right", n)), x5, x6)
      BY <1>1, <1>10
    <3> QED BY <3>1, <2>1, GainOnBothSets
  <2> QED BY <1>21, <2>2
<1>23. PICK v \in Int, w \in Int :
          /\ v = a * amplitude * envelope * volume /\ v = volume * e
          /\ w = b * amplitude * envelope * volume /\ w = volume * f
  <2>1. /\ volume * (envelope * (amplitude * a)) = a * amplitude * envelope * volume
        /\ volume * (envelope * (amplitude * b)) = b * amplitude * envelope * volume
        /\ a * amplitude * envelope * volume \in Int
        /\ b * amplitude * envelope * volume \in Int
    BY GainsMultiply
  <2> QED BY <1>a, <1>b, <2>1
<1>24. Sets(x6, y, "temp1", i, x6["right"][i])
  BY <1>1, <1>3, <1>10, <1>22, CallsSet
<1>25. AreBuffers(y) /\ y["left"][i] = v /\ y["right"][i] = w /\ y["temp1"][i] = w
  BY <1>3, <1>22, <1>23, <1>24 DEF Sets
<1> QED BY <1>12, <1>13, <1>16, <1>20, <1>23, <1>25

\* What a stereo sound is after its gains, its width and its position.
LEMMA StereoSets ==
    ASSUME NEW n \in Nat, n <= SamplesPerBlock, NEW i \in 0 .. n - 1,
           \A l \in {"amplitude", "volume", "width", "position"} : LevelIsPlain(l),
           NEW x, AreBuffers(x), x["left"][i] \in Int, x["right"][i] \in Int, NEW y,
           Runs(ProcessStereo(Span("left", n), Span("right", n), Span("temp1", n),
                              Span("temp2", n), Span("temp3", n)), x, y)
    PROVE  LET Line(l) == LineOf(Taken(l), levels[l], n, i)
               Amplified(c) == x[c][i] * Line("amplitude") * FromOutside("egEnvelope", i)
                                  * Line("volume")
               Turn(l) == PiFour * (1 + Line(l))
               side == SqrtTwoInv * (Amplified("left") - Amplified("right"))
                          * Math("cos", Turn("width"))
               mid == SqrtTwoInv * (Amplified("left") + Amplified("right"))
                         * Math("sin", Turn("width"))
           IN  /\ y["left"][i] = SqrtTwoInv * (mid + Math("cos", Turn("position")) * side)
               /\ y["right"][i] = SqrtTwoInv * (mid + Math("sin", Turn("position")) * side)
<1>1. PICK left, right, s, t, u :
          /\ left = Span("left", n) /\ right = Span("right", n)
          /\ s = Span("temp1", n) /\ t = Span("temp2", n) /\ u = Span("temp3", n)
  OBVIOUS
<1>2. IsSpan(left, n) /\ IsSpan(right, n) /\ IsSpan(s, n) /\ IsSpan(t, n) /\ IsSpan(u, n)
  BY <1>1 DEF Span, IsSpan
<1>3. "left" \in Names /\ "right" \in Names /\ "temp1" \in Names /\ "temp2" \in Names
      /\ "temp3" \in Names
  BY DEF Names
<1>4. IsProgram(Gains("width", s, t)) /\ IsProgram(Gains("position", s, t))
  BY <1>2, GainsIsProgram
<1>5. /\ IsProgram(ApplyGainSpan(s, left)) /\ IsProgram(ApplyGainSpan(t, right))
      /\ IsProgram(Copy(right, s)) /\ IsProgram(Add(left, right)) /\ IsProgram(Subtract(s, left))
      /\ IsProgram(Copy(left, u)) /\ IsProgram(Copy(right, left))
      /\ IsProgram(MultiplyAdd(s, u, left)) /\ IsProgram(MultiplyAdd(t, u, right))
  BY <1>2, CallsOnSpans
<1>6. IsProgram(Louder(left, right, s))
  <2>1. IsProgram(GetBlock("amplitude", s)) /\ IsProgram(GetBlock("volume", s))
    BY <1>2, LevelIsProgram
  <2>3. IsProgram(BothGain(s, left, right))
    <3>1. IsProgram(ApplyGainSpan(s, right))
      BY <1>2, CallsOnSpans
    <3> QED BY <1>5, <3>1, ProgramsJoin DEF BothGain
  <2>4. IsProgram(Outside("egEnvelope", s))
    BY OutsideIsProgram
  <2>5. IsProgram(GetBlock("amplitude", s) \o BothGain(s, left, right)
                  \o Outside("egEnvelope", s) \o BothGain(s, left, right)
                  \o GetBlock("volume", s) \o BothGain(s, left, right) \o Copy(right, s))
    BY <1>5, <2>1, <2>3, <2>4, ProgramsJoin, Zenon
  <2> QED BY <2>5 DEF Louder
<1> DEFINE Halve == BothTimes(SqrtTwoInv, left, right)
           wide == Louder(left, right, s) \o Add(left, right) \o Subtract(s, left) \o Halve
           sides == wide \o Gains("width", s, t) \o ApplyGainSpan(s, left) \o ApplyGainSpan(t, right)
           placed == sides \o Gains("position", s, t) \o Copy(left, u) \o Copy(right, left)
<1>7. Runs(placed \o MultiplyAdd(s, u, left) \o MultiplyAdd(t, u, right) \o Halve, x, y)
  BY <1>1 DEF ProcessStereo, Louder, BothGain, BothTimes
<1>8. IsProgram(Halve)
  <2>1. IsProgram(ApplyGain(SqrtTwoInv, left)) /\ IsProgram(ApplyGain(SqrtTwoInv, right))
    BY <1>2, CallsOnSpans
  <2> QED BY <2>1, ProgramsJoin DEF BothTimes
<1>9. Halve = BothTimes(SqrtTwoInv, left, right)
  OBVIOUS
<1> HIDE DEF Halve
<1>10. IsProgram(wide)
  BY <1>5, <1>6, <1>8, ProgramsJoin, Zenon
<1>11. ASSUME NEW z, Runs(wide, x, z)
       PROVE  \E x1, x2, x3 : /\ Runs(Louder(left, right, s), x, x1)
                             /\ Runs(Add(left, right), x1, x2)
                             /\ Runs(Subtract(s, left), x2, x3) /\ Runs(Halve, x3, z)
  BY <1>5, <1>6, <1>8, <1>11, FourRun
<1> HIDE DEF wide
<1>12. IsProgram(sides)
  BY <1>4, <1>5, <1>10, ProgramsJoin, Zenon
<1>13. ASSUME NEW z, Runs(sides, x, z)
       PROVE  \E x4, x5, x6 : /\ Runs(wide, x, x4) /\ Runs(Gains("width", s, t), x4, x5)
                             /\ Runs(ApplyGainSpan(s, left), x5, x6)
                             /\ Runs(ApplyGainSpan(t, right), x6, z)
  BY <1>4, <1>5, <1>10, <1>13, FourRun
<1> HIDE DEF sides
<1>14. IsProgram(placed)
  BY <1>4, <1>5, <1>12, ProgramsJoin, Zenon
<1>15. ASSUME NEW z, Runs(placed, x, z)
       PROVE  \E x7, x8, x9 : /\ Runs(sides, x, x7) /\ Runs(Gains("position", s, t), x7, x8)
                             /\ Runs(Copy(left, u), x8, x9) /\ Runs(Copy(right, left), x9, z)
  BY <1>4, <1>5, <1>12, <1>15, FourRun
<1> HIDE DEF placed
<1>16. PICK xa, xb, xc : /\ Runs(placed, x, xa) /\ Runs(MultiplyAdd(s, u, left), xa, xb)
                         /\ Runs(MultiplyAdd(t, u, right), xb, xc) /\ Runs(Halve, xc, y)
  BY <1>5, <1>7, <1>8, <1>14, FourRun
<1>17. PICK x7, x8, x9 : /\ Runs(sides, x, x7) /\ Runs(Gains("position", s, t), x7, x8)
                         /\ Runs(Copy(left, u), x8, x9) /\ Runs(Copy(right, left), x9, xa)
  BY <1>15, <1>16
<1>18. PICK x4, x5, x6 : /\ Runs(wide, x, x4) /\ Runs(Gains("width", s, t), x4, x5)
                         /\ Runs(ApplyGainSpan(s, left), x5, x6)
                         /\ Runs(ApplyGainSpan(t, right), x6, x7)
  BY <1>13, <1>17
<1>19. PICK x1, x2, x3 : /\ Runs(Louder(left, right, s), x, x1)
                         /\ Runs(Add(left, right), x1, x2)
                         /\ Runs(Subtract(s, left), x2, x3) /\ Runs(Halve, x3, x4)
  BY <1>11, <1>18
<1> DEFINE Line(l) == LineOf(Taken(l), levels[l], n, i)
           Amplified(c) == x[c][i] * Line("amplitude") * FromOutside("egEnvelope", i)
                              * Line("volume")
<1>20. PICK a \in Int, b \in Int :
          /\ a = Amplified("left") /\ b = Amplified("right")
          /\ AreBuffers(x1) /\ x1["left"][i] = a /\ x1["right"][i] = b /\ x1["temp1"][i] = b
  BY <1>1, <1>19, LouderSets
<1>21. Sets(x1, x2, "right", i, x1["right"][i] + x1["left"][i])
  BY <1>1, <1>3, <1>19, <1>20, CallsSet
<1>22. AreBuffers(x2) /\ x2["right"][i] = b + a /\ x2["left"][i] = a /\ x2["temp1"][i] = b
  BY <1>3, <1>20, <1>21 DEF Sets
<1>23. Sets(x2, x3, "left", i, x2["left"][i] - x2["temp1"][i])
  BY <1>1, <1>3, <1>19, <1>22, CallsSet
<1>24. AreBuffers(x3) /\ x3["left"][i] = a - b /\ x3["right"][i] = b + a
  BY <1>3, <1>22, <1>23 DEF Sets
<1>25. PICK d \in Int, e \in Int : d = SqrtTwoInv * (a - b) /\ e = SqrtTwoInv * (a + b)
  BY DEF SqrtTwoInv
<1>26. AreBuffers(x4) /\ x4["left"][i] = d /\ x4["right"][i] = e
  <2>1. /\ AreBuffers(x4) /\ x4["left"][i] = SqrtTwoInv * x3["left"][i]
        /\ x4["right"][i] = SqrtTwoInv * x3["right"][i]
    <3>1. Runs(BothTimes(SqrtTwoInv, Span("left", n), Span("right", n)), x3, x4)
      BY <1>1, <1>9, <1>19
    <3>2. AreBuffers(x3)
      BY <1>24
    <3> QED BY <3>1, <3>2, FactorOnBothSets
  <2>2. b + a = a + b
    OBVIOUS
  <2> QED BY <1>24, <1>25, <2>1, <2>2
<1>27. PICK turn \in Int : /\ turn = PiFour * (1 + Line("width"))
                           /\ AreBuffers(x5)
                           /\ x5["temp1"][i] = Math("cos", turn)
                           /\ x5["temp2"][i] = Math("sin", turn)
                           /\ \A k \in Names \ {"temp1", "temp2"} : x5[k][i] = x4[k][i]
  BY <1>1, <1>3, <1>18, <1>26, GainsSet
<1>28. PICK f \in Int, g \in Int : f = Math("cos", turn) /\ g = Math("sin", turn)
  BY TheseAreNumbers
<1>29. /\ x5["temp1"][i] = f /\ x5["temp2"][i] = g
       /\ x5["left"][i] = d /\ x5["right"][i] = e
  BY <1>26, <1>27, <1>28 DEF Names
<1>30. PICK side \in Int, mid \in Int : side = d * f /\ mid = e * g
  OBVIOUS
<1>31. Sets(x5, x6, "left", i, x5["temp1"][i] * x5["left"][i])
  BY <1>1, <1>3, <1>18, <1>27, CallsSet
<1>32. f * d = side /\ g * e = mid
  BY <1>30
<1>33. /\ AreBuffers(x6) /\ x6["temp2"][i] = g /\ x6["left"][i] = side /\ x6["right"][i] = e
  BY <1>3, <1>29, <1>31, <1>32 DEF Sets
<1>34. Sets(x6, x7, "right", i, x6["temp2"][i] * x6["right"][i])
  BY <1>1, <1>3, <1>18, <1>33, CallsSet
<1>35. AreBuffers(x7) /\ x7["left"][i] = side /\ x7["right"][i] = mid
  BY <1>3, <1>32, <1>33, <1>34 DEF Sets
<1>36. PICK bend \in Int : /\ bend = PiFour * (1 + Line("position"))
                           /\ AreBuffers(x8)
                           /\ x8["temp1"][i] = Math("cos", bend)
                           /\ x8["temp2"][i] = Math("sin", bend)
                           /\ \A k \in Names \ {"temp1", "temp2"} : x8[k][i] = x7[k][i]
  BY <1>1, <1>3, <1>17, <1>35, GainsSet
<1>37. PICK p \in Int, q \in Int : p = Math("cos", bend) /\ q = Math("sin", bend)
  BY TheseAreNumbers
<1>38. /\ x8["temp1"][i] = p /\ x8["temp2"][i] = q
       /\ x8["left"][i] = side /\ x8["right"][i] = mid
  BY <1>35, <1>36, <1>37 DEF Names
<1>39. Sets(x8, x9, "temp3", i, x8["left"][i])
  BY <1>1, <1>3, <1>17, <1>36, CallsSet
<1>40. /\ AreBuffers(x9) /\ x9["temp1"][i] = p /\ x9["temp2"][i] = q
       /\ x9["temp3"][i] = side /\ x9["right"][i] = mid
  BY <1>3, <1>38, <1>39 DEF Sets
<1>41. Sets(x9, xa, "left", i, x9["right"][i])
  BY <1>1, <1>3, <1>17, <1>40, CallsSet
<1>42. /\ AreBuffers(xa) /\ xa["temp1"][i] = p /\ xa["temp2"][i] = q
       /\ xa["temp3"][i] = side /\ xa["right"][i] = mid /\ xa["left"][i] = mid
  BY <1>3, <1>40, <1>41 DEF Sets
<1>43. Sets(xa, xb, "left", i, xa["left"][i] + xa["temp1"][i] * xa["temp3"][i])
  BY <1>1, <1>3, <1>16, <1>42, CallsSet
<1>44. /\ AreBuffers(xb) /\ xb["temp2"][i] = q /\ xb["temp3"][i] = side
       /\ xb["right"][i] = mid /\ xb["left"][i] = mid + p * side
  BY <1>3, <1>42, <1>43 DEF Sets
<1>45. Sets(xb, xc, "right", i, xb["right"][i] + xb["temp2"][i] * xb["temp3"][i])
  BY <1>1, <1>3, <1>16, <1>44, CallsSet
<1>46. AreBuffers(xc) /\ xc["left"][i] = mid + p * side /\ xc["right"][i] = mid + q * side
  BY <1>3, <1>44, <1>45 DEF Sets
<1>47. /\ y["left"][i] = SqrtTwoInv * (mid + p * side)
       /\ y["right"][i] = SqrtTwoInv * (mid + q * side)
  <2>1. /\ y["left"][i] = SqrtTwoInv * xc["left"][i] /\ y["right"][i] = SqrtTwoInv * xc["right"][i]
    <3>1. AreBuffers(xc)
      BY <1>46
    <3>2. Runs(BothTimes(SqrtTwoInv, Span("left", n), Span("right", n)), xc, y)
      BY <1>1, <1>9, <1>16
    <3> QED BY <3>1, <3>2, FactorOnBothSets
  <2> QED BY <1>46, <2>1
<1>48. /\ side = SqrtTwoInv * (a - b) * Math("cos", PiFour * (1 + Line("width")))
       /\ mid = SqrtTwoInv * (a + b) * Math("sin", PiFour * (1 + Line("width")))
  BY <1>25, <1>27, <1>28, <1>30
<1> QED BY <1>20, <1>36, <1>37, <1>47, <1>48

\* Sound, of a voice that begins a block of n frames.
SoundOf(channel, n, i) ==
    IF i < Delayed(n) THEN 0
    ELSE IF sound.generator THEN Math("sin", sinePhase + SineStep * (i - Delayed(n) + 1))
    ELSE FromOutside(channel, i - Delayed(n))

\* The frames of the generator, behind the delay.
LEMMA GeneratorSets ==
    ASSUME NEW n \in Nat, n <= SamplesPerBlock, NEW i \in 0 .. n - 1, NEW d \in 0 .. n,
           NEW x, AreBuffers(x), sinePhase \in Int, NEW y,
           Runs(FillWithGenerator(Subspan(Span("left", n), d, n - d),
                                  Subspan(Span("right", n), d, n - d)), x, y)
    PROVE  LET tone == Math("sin", sinePhase + SineStep * (i - d + 1))
           IN  /\ AreBuffers(y)
               /\ y["left"][i] = IF i < d THEN x["left"][i] ELSE tone
               /\ y["right"][i] = IF i < d THEN x["right"][i] ELSE tone
<1>1. PICK rest \in Nat : rest = n - d
  OBVIOUS
<1>2. PICK left, right : left = Subspan(Span("left", n), d, rest)
                         /\ right = Subspan(Span("right", n), d, rest)
  OBVIOUS
<1>3. /\ left.length = rest /\ left.from = 0 + d /\ left.buffer = "left"
      /\ left = [buffer |-> "left", from |-> 0 + d, length |-> rest]
      /\ right = [buffer |-> "right", from |-> 0 + d, length |-> rest]
  BY <1>2 DEF Subspan, Span
<1>4. SamplesPerBlock \in Nat /\ i \in 0 .. SamplesPerBlock - 1 /\ i \in Nat /\ i < n
      /\ 0 + d = d /\ d + rest = n /\ d \in Nat
  BY <1>1, VoiceAssumption DEF VoiceAssumption
<1>5. "left" \in Names /\ "right" \in Names /\ "temp1" \in Names
  BY DEF Names
<1>6. CASE rest = 0
  <2>1. FillWithGenerator(left, right) = << >>
    BY <1>3, <1>6 DEF FillWithGenerator
  <2>2. y = x
    BY <1>1, <1>2, <2>1, NothingRuns
  <2> QED BY <1>4, <1>6, <2>2
<1>7. CASE rest # 0
  <2> DEFINE whole == Span("temp1", SamplesPerBlock)
             part == Span("temp1", rest)
  <2>1. IsSpan(whole, SamplesPerBlock) /\ IsSpan(part, rest) /\ IsSpan(left, rest)
        /\ IsSpan(right, rest)
    BY <1>3, <1>4 DEF Span, IsSpan
  <2>2. IsProgram(LinearRamp(whole, sinePhase, SineStep))
    <3>1. SineStep \in Int
      BY DEF SineStep
    <3> QED BY <1>4, <2>1, <3>1, CallsOnSpans
  <2>3. IsProgram(Sin(part, left)) /\ IsProgram(Copy(left, right))
    BY <2>1, CallsOnSpans
  <2>4. Runs(LinearRamp(whole, sinePhase, SineStep) \o Sin(part, left) \o Copy(left, right), x, y)
    BY <1>1, <1>2, <1>3, <1>7 DEF FillWithGenerator
  <2> HIDE DEF whole, part
  <2>5. PICK w, z : /\ Runs(LinearRamp(whole, sinePhase, SineStep), x, w)
                    /\ Runs(Sin(part, left), w, z) /\ Runs(Copy(left, right), z, y)
    BY <2>2, <2>3, <2>4, ThreeRun
  <2>6. ASSUME NEW j \in 0 .. SamplesPerBlock - 1
        PROVE  Sets(x, w, "temp1", j, sinePhase + SineStep * (j + 1))
    <3> DEFINE c == [kernel |-> "linearRamp", value |-> SineStep, start |-> sinePhase,
                     spans |-> [out |-> whole]]
    <3>1. c.spans["out"] = Span("temp1", SamplesPerBlock)
      BY DEF whole
    <3>2. Runs(<<c>>, x, w)
      BY <2>5 DEF LinearRamp, Do
    <3>3. Made(x, c, j) = sinePhase + SineStep * (j + 1)
      BY DEF Made
    <3> HIDE DEF c
    <3>4. SamplesPerBlock <= SamplesPerBlock
      BY <1>4
    <3>5. Sets(x, w, "temp1", j, Made(x, c, j))
      BY <1>4, <1>5, <3>1, <3>2, <3>4, CallSets
    <3> QED BY <3>3, <3>5
  <2>7. AreBuffers(w) /\ w["left"][i] = x["left"][i] /\ w["right"][i] = x["right"][i]
    BY <1>4, <1>5, <2>6 DEF Sets
  <2> DEFINE c == [kernel |-> "sin", value |-> 0, start |-> 0, spans |-> [in |-> part, out |-> left]]
             e == [kernel |-> "copy", value |-> 0, start |-> 0, spans |-> [in |-> left, out |-> right]]
  <2>8. /\ c.spans["out"] = [buffer |-> "left", from |-> d, length |-> rest]
        /\ e.spans["out"] = [buffer |-> "right", from |-> d, length |-> rest]
    BY <1>3, <1>4
  <2>9. Runs(<<c>>, w, z) /\ Runs(<<e>>, z, y)
    BY <2>5 DEF Sin, Copy, Do
  <2>10. ~ (i < d) => /\ Made(w, c, i - d) = Math("sin", sinePhase + SineStep * (i - d + 1))
                      /\ Made(z, e, i - d) = z["left"][i]
    <3> HAVE ~ (i < d)
    <3>1. PICK j \in Nat : j = i - d /\ j \in 0 .. SamplesPerBlock - 1 /\ d + j = i
      BY <1>4
    <3>2. Made(w, c, j) = Math("sin", Frame(w, part, j))
      BY DEF Made
    <3>3. Frame(w, part, j) = w["temp1"][j]
      BY FrameOfSpan DEF part
    <3>4. w["temp1"][j] = sinePhase + SineStep * (j + 1)
      BY <1>5, <2>6, <3>1 DEF Sets
    <3>5. Made(z, e, j) = Frame(z, left, j)
      BY DEF Made
    <3>6. Frame(z, left, j) = z["left"][i]
      BY <1>3, <1>4, <3>1 DEF Frame
    <3> QED BY <3>1, <3>2, <3>3, <3>4, <3>5, <3>6
  <2> HIDE DEF c, e
  <2>11. i >= d /\ i < d + rest <=> ~ (i < d)
    BY <1>4
  <2>12. Sets(w, z, "left", i, IF ~ (i < d) THEN Made(w, c, i - d) ELSE w["left"][i])
    <3>1. z = Effect(w, c)
      BY <2>9, OneRuns
    <3>2. Sets(w, Effect(w, c), "left", i,
               IF i >= d /\ i < d + rest THEN Made(w, c, i - d) ELSE w["left"][i])
      BY <1>4, <1>5, <2>7, <2>8, EffectIs
    <3> QED BY <2>11, <3>1, <3>2
  <2>13. AreBuffers(z)
    BY <2>12 DEF Sets
  <2>14. Sets(z, y, "right", i, IF ~ (i < d) THEN Made(z, e, i - d) ELSE z["right"][i])
    <3>1. y = Effect(z, e)
      BY <2>9, OneRuns
    <3>2. Sets(z, Effect(z, e), "right", i,
               IF i >= d /\ i < d + rest THEN Made(z, e, i - d) ELSE z["right"][i])
      BY <1>4, <1>5, <2>8, <2>13, EffectIs
    <3> QED BY <2>11, <3>1, <3>2
  <2>15. /\ z["left"][i] = IF ~ (i < d) THEN Made(w, c, i - d) ELSE w["left"][i]
         /\ z["right"][i] = w["right"][i]
    BY <1>5, <2>12 DEF Sets
  <2>16. /\ AreBuffers(y) /\ y["left"][i] = z["left"][i]
         /\ y["right"][i] = IF ~ (i < d) THEN Made(z, e, i - d) ELSE z["right"][i]
    BY <1>5, <2>14 DEF Sets
  <2> QED BY <2>7, <2>10, <2>15, <2>16
<1> QED BY <1>6, <1>7

\* Frames from outside, behind the delay.
LEMMA OutsideSets ==
    ASSUME NEW n \in Nat, n <= SamplesPerBlock, NEW i \in 0 .. n - 1, NEW d \in 0 .. n,
           NEW x, AreBuffers(x), NEW k \in {"left", "right"}, NEW y,
           Runs(Outside(k, Subspan(Span(k, n), d, n - d)), x, y)
    PROVE  Sets(x, y, k, i, IF i < d THEN x[k][i] ELSE FromOutside(k, i - d))
<1>1. PICK rest \in Nat : rest = n - d /\ d + rest <= n /\ d \in Nat
  OBVIOUS
<1>2. k \in Names
  BY DEF Names
<1> DEFINE s == Subspan(Span(k, n), d, rest)
<1>3. Runs(Do(k, 0, 0, [out |-> s]), x, y)
  BY <1>1 DEF Outside
<1>4. Sets(x, y, k, i,
           IF i >= d /\ i < d + rest
           THEN Made(x, [kernel |-> k, value |-> 0, start |-> 0, spans |-> [out |-> s]], i - d)
           ELSE x[k][i])
  BY <1>1, <1>2, <1>3, PartSets
<1>5. Made(x, [kernel |-> k, value |-> 0, start |-> 0, spans |-> [out |-> s]], i - d)
        = FromOutside(k, i - d)
  BY DEF Made
<1> HIDE DEF s
<1>6. i >= d /\ i < d + rest <=> ~ (i < d)
  BY <1>1
<1> QED BY <1>4, <1>5, <1>6

\* The frames of the sound, over silence.
LEMMA FilledSets ==
    ASSUME NEW n \in Nat, n <= SamplesPerBlock, NEW i \in 0 .. n - 1, Delayed(n) \in 0 .. n,
           sinePhase \in Int, NEW x, AreBuffers(x), x["left"][i] = 0, x["right"][i] = 0, NEW y,
           NEW left, left = Subspan(Span("left", n), Delayed(n), n - Delayed(n)),
           NEW right, right = Subspan(Span("right", n), Delayed(n), n - Delayed(n)),
           Runs(IF sound.generator THEN FillWithGenerator(left, right)
                ELSE FillWithData(left, right), x, y)
    PROVE  /\ AreBuffers(y)
           /\ \A k \in {"left", "right"} : SoundOf(k, n, i) \in Int
           /\ y["left"][i] = SoundOf("left", n, i)
           /\ IsStereo => y["right"][i] = SoundOf("right", n, i)
<1>1. PICK d \in 0 .. n : d = Delayed(n)
  OBVIOUS
<1>2. /\ left = Subspan(Span("left", n), d, n - d)
      /\ right = Subspan(Span("right", n), d, n - d)
  BY <1>1
<1>3. PICK turn \in Int : turn = sinePhase + SineStep * (i - d + 1)
  BY DEF SineStep
<1>4. i - d \in Int
  OBVIOUS
<1>5. \A k : SoundOf(k, n, i) = IF i < d THEN 0
                               ELSE IF sound.generator THEN Math("sin", turn)
                               ELSE FromOutside(k, i - d)
  BY <1>1, <1>3 DEF SoundOf
<1>6. Math("sin", turn) \in Int /\ \A k \in {"left", "right"} : FromOutside(k, i - d) \in Int
  BY <1>3, <1>4, TheseAreNumbers
<1>7. \A k \in {"left", "right"} : SoundOf(k, n, i) \in Int
  BY <1>5, <1>6
<1>8. "left" \in Names /\ "right" \in Names
  BY DEF Names
<1>9. CASE sound.generator
  <2>1. Runs(FillWithGenerator(left, right), x, y)
    BY <1>9
  <2>2. /\ AreBuffers(y)
        /\ y["left"][i] = IF i < d THEN x["left"][i] ELSE Math("sin", turn)
        /\ y["right"][i] = IF i < d THEN x["right"][i] ELSE Math("sin", turn)
    BY <1>2, <1>3, <2>1, GeneratorSets
  <2> QED BY <1>5, <1>7, <1>9, <2>2
<1>10. CASE ~ sound.generator /\ sound.stereo
  <2>1. Runs(Outside("left", left) \o Outside("right", right), x, y)
    BY <1>10 DEF FillWithData
  <2>2. IsProgram(Outside("left", left)) /\ IsProgram(Outside("right", right))
    BY OutsideIsProgram
  <2>3. PICK z : Runs(Outside("left", left), x, z) /\ Runs(Outside("right", right), z, y)
    BY <2>1, <2>2, BothRun
  <2>4. Sets(x, z, "left", i, IF i < d THEN x["left"][i] ELSE FromOutside("left", i - d))
    BY <1>2, <2>3, OutsideSets
  <2>5. AreBuffers(z)
    BY <2>4 DEF Sets
  <2>6. Sets(z, y, "right", i, IF i < d THEN z["right"][i] ELSE FromOutside("right", i - d))
    BY <1>2, <2>3, <2>5, OutsideSets
  <2>7. /\ z["left"][i] = IF i < d THEN 0 ELSE FromOutside("left", i - d)
        /\ z["right"][i] = 0
    BY <1>8, <2>4 DEF Sets
  <2>8. /\ AreBuffers(y) /\ y["left"][i] = z["left"][i]
        /\ y["right"][i] = IF i < d THEN 0 ELSE FromOutside("right", i - d)
    BY <1>8, <2>6, <2>7 DEF Sets
  <2> QED BY <1>5, <1>7, <1>10, <2>7, <2>8
<1>11. CASE ~ sound.generator /\ ~ sound.stereo
  <2>1. Runs(Outside("left", left), x, y)
    BY <1>11 DEF FillWithData
  <2>2. Sets(x, y, "left", i, IF i < d THEN x["left"][i] ELSE FromOutside("left", i - d))
    BY <1>2, <2>1, OutsideSets
  <2>3. AreBuffers(y) /\ y["left"][i] = IF i < d THEN 0 ELSE FromOutside("left", i - d)
    BY <1>8, <2>2 DEF Sets
  <2>4. ~ IsStereo
    BY <1>11 DEF IsStereo
  <2> QED BY <1>5, <1>7, <1>11, <2>3, <2>4
<1> QED BY <1>9, <1>10, <1>11

\* What a frame of a block should be, of a voice that begins a block of n frames.
MixOf(y, n, i) ==
    LET Line(l) == LineOf(Taken(l), levels[l], n, i)
        LoudOf(c) == SoundOf(c, n, i) * Line("amplitude") * FromOutside("egEnvelope", i)
                         * Line("volume")
        Turned(f, l) == Math(f, PiFour * (1 + Line(l)))
        side == SqrtTwoInv * (LoudOf("left") - LoudOf("right")) * Turned("cos", "width")
        mid == SqrtTwoInv * (LoudOf("left") + LoudOf("right")) * Turned("sin", "width")
    IN  IF IsStereo
        THEN /\ y["left"][i] = SqrtTwoInv * (mid + Turned("cos", "position") * side)
             /\ y["right"][i] = SqrtTwoInv * (mid + Turned("sin", "position") * side)
        ELSE /\ y["left"][i] = LoudOf("left") * Turned("cos", "pan")
             /\ y["right"][i] = LoudOf("left") * Turned("sin", "pan")

\* The program of a block makes that of each.
LEMMA ProgramSets ==
    ASSUME NEW n \in Nat, n <= SamplesPerBlock, NEW i \in 0 .. n - 1,
           initialDelay \in Nat, sinePhase \in Int, \A l \in LevelsRead : LevelIsPlain(l),
           NEW x, AreBuffers(x), NEW y, Runs(Program(n), x, y)
    PROVE  MixOf(y, n, i)
<1>1. /\ Program(n) = Fill(0, Span("left", n)) \o Fill(0, Span("right", n))
                        \o FilledBlock(n) \o MixedBlock(n)
      /\ Delayed(n) \in 0 .. n
      /\ IsProgram(Fill(0, Span("left", n))) /\ IsProgram(Fill(0, Span("right", n)))
      /\ IsProgram(FilledBlock(n)) /\ IsProgram(MixedBlock(n))
  BY BlockParts
<1>2. PICK x1, x2, x3 :
          /\ Runs(Fill(0, Span("left", n)), x, x1) /\ Runs(Fill(0, Span("right", n)), x1, x2)
          /\ Runs(FilledBlock(n), x2, x3) /\ Runs(MixedBlock(n), x3, y)
  BY <1>1, FourRun
<1>6. "left" \in Names /\ "right" \in Names
  BY DEF Names
<1>7. Sets(x, x1, "left", i, 0)
  BY <1>2, <1>6, CallsSet
<1>8. AreBuffers(x1) /\ x1["left"][i] = 0
  BY <1>6, <1>7 DEF Sets
<1>9. Sets(x1, x2, "right", i, 0)
  BY <1>2, <1>6, <1>8, CallsSet
<1>10. AreBuffers(x2) /\ x2["left"][i] = 0 /\ x2["right"][i] = 0
  BY <1>6, <1>8, <1>9 DEF Sets
<1>11. PICK left, right : /\ left = Subspan(Span("left", n), Delayed(n), n - Delayed(n))
                          /\ right = Subspan(Span("right", n), Delayed(n), n - Delayed(n))
  OBVIOUS
<1>12. /\ AreBuffers(x3)
       /\ \A k \in {"left", "right"} : SoundOf(k, n, i) \in Int
       /\ x3["left"][i] = SoundOf("left", n, i)
       /\ IsStereo => x3["right"][i] = SoundOf("right", n, i)
  <2>1. Runs(IF sound.generator THEN FillWithGenerator(left, right)
             ELSE FillWithData(left, right), x2, x3)
    BY <1>2, <1>11 DEF FilledBlock
  <2> QED BY <1>1, <1>10, <1>11, <2>1, FilledSets
<1>13. CASE IsStereo
  <2>1. \A l \in {"amplitude", "volume", "width", "position"} : LevelIsPlain(l)
    BY <1>13 DEF LevelsRead
  <2>2. Runs(ProcessStereo(Span("left", n), Span("right", n), Span("temp1", n),
                           Span("temp2", n), Span("temp3", n)), x3, y)
    BY <1>2, <1>13 DEF MixedBlock
  <2>3. /\ x3["left"][i] = SoundOf("left", n, i) /\ x3["right"][i] = SoundOf("right", n, i)
        /\ x3["left"][i] \in Int /\ x3["right"][i] \in Int
    BY <1>12, <1>13
  <2> DEFINE Line(l) == LineOf(Taken(l), levels[l], n, i)
             Amplified(c) == x3[c][i] * Line("amplitude") * FromOutside("egEnvelope", i)
                                * Line("volume")
             Turn(l) == PiFour * (1 + Line(l))
             side == SqrtTwoInv * (Amplified("left") - Amplified("right"))
                        * Math("cos", Turn("width"))
             mid == SqrtTwoInv * (Amplified("left") + Amplified("right"))
                       * Math("sin", Turn("width"))
  <2>4. /\ y["left"][i] = SqrtTwoInv * (mid + Math("cos", Turn("position")) * side)
        /\ y["right"][i] = SqrtTwoInv * (mid + Math("sin", Turn("position")) * side)
    BY <1>12, <2>1, <2>2, <2>3, StereoSets
  <2> QED BY <1>13, <2>3, <2>4, Zenon DEF MixOf
<1>14. CASE ~ IsStereo
  <2>1. \A l \in {"amplitude", "volume", "pan"} : LevelIsPlain(l)
    BY <1>14 DEF LevelsRead
  <2>2. Runs(ProcessMono(Span("left", n), Span("right", n), Span("temp1", n), Span("temp2", n)),
             x3, y)
    BY <1>2, <1>14 DEF MixedBlock
  <2>3. x3["left"][i] = SoundOf("left", n, i) /\ x3["left"][i] \in Int
    BY <1>12
  <2> DEFINE Line(l) == LineOf(Taken(l), levels[l], n, i)
             loud == x3["left"][i] * Line("amplitude") * FromOutside("egEnvelope", i)
                         * Line("volume")
  <2>4. /\ y["left"][i] = loud * Math("cos", PiFour * (1 + Line("pan")))
        /\ y["right"][i] = loud * Math("sin", PiFour * (1 + Line("pan")))
    BY <1>12, <2>1, <2>2, <2>3, MonoSets
  <2> QED BY <1>14, <2>3, <2>4, Zenon DEF MixOf
<1> QED BY <1>13, <1>14

-----------------------------------------------------------------------------
(* The steps of a block.                                                     *)

\* What BlockIsMixed says of a block, of some buffers.
IsMixed(y) ==
    \A i \in 0 .. block.frames - 1 :
        IF IsStereo
        THEN /\ y["left"][i] = SqrtTwoInv * (MidAt(i) + CosAt("position", i) * SideAt(i))
             /\ y["right"][i] = SqrtTwoInv * (MidAt(i) + SinAt("position", i) * SideAt(i))
        ELSE /\ y["left"][i] = Loud("left", i) * CosAt("pan", i)
             /\ y["right"][i] = Loud("left", i) * SinAt("pan", i)

\* The kernel that runs is the one of the next call, with what is in the buffers now; and
\* what is left of a program makes of them what BlockIsMixed says.
BlockInv ==
    /\ Running /\ program # << >> => call = CallOf(Head(program))
    /\ block # NoBlock => \A y : Runs(program, buffers, y) => IsMixed(y)

LEMMA LineAtIs ==
    \A l, i : LineAt(l, i) = LineOf(Sorted(block.events[l]), block.levels[l], block.frames, i)
  BY DEF LineAt, LineOf

\* A block stays what it should be, while its sound and what it began with stay.
LEMMA MixedStays ==
    ASSUME sound' = sound, block' = block, NEW y
    PROVE  IsMixed(y)' <=> IsMixed(y)
<1>1. \A l, i : LineAt(l, i)' = LineAt(l, i)
  BY DEF LineAt
<1>2. IsStereo' = IsStereo
  BY DEF IsStereo
<1>3. \A c, i : Loud(c, i)' = Loud(c, i)
  BY <1>1 DEF Loud, Sound
<1>4. \A l, i : CosAt(l, i)' = CosAt(l, i) /\ SinAt(l, i)' = SinAt(l, i)
  BY <1>1 DEF CosAt, SinAt
<1>5. \A i : SideAt(i)' = SideAt(i) /\ MidAt(i)' = MidAt(i)
  BY <1>3, <1>4 DEF SideAt, MidAt
<1> QED BY <1>2, <1>3, <1>4, <1>5 DEF IsMixed

\* What a voice is to make of a block when it begins is what BlockIsMixed says of it then.
LEMMA BlockBegins ==
    ASSUME NEW n \in Nat, RenderBlock(n), \A l \in LevelsRead : LevelIsPlain(l),
           NEW y, \A i \in 0 .. n - 1 : MixOf(y, n, i)
    PROVE  IsMixed(y)'
<1>1. /\ sound' = sound
      /\ block' = [frames |-> n, delay |-> Delayed(n), phase |-> sinePhase,
                   levels |-> levels, events |-> events]
  BY DEF RenderBlock
<1>2. /\ block'.frames = n /\ block'.delay = Delayed(n) /\ block'.phase = sinePhase
      /\ block'.levels = levels /\ block'.events = events
  BY <1>1
<1>3. IsStereo' = IsStereo
  BY <1>1 DEF IsStereo
<1>4. ASSUME NEW l \in LevelsRead, NEW i
      PROVE  LineAt(l, i)' = LineOf(Taken(l), levels[l], n, i)
  <2>1. LineAt(l, i)' = LineOf(Sorted(block'.events[l]), block'.levels[l], block'.frames, i)
    BY DEF LineAt, LineOf
  <2> QED BY <1>2, <2>1 DEF Taken
<1>5. "amplitude" \in LevelsRead /\ "volume" \in LevelsRead
  BY DEF LevelsRead
<1>6. \A c, i : Sound(c, i)' = SoundOf(c, n, i)
  BY <1>1, <1>2 DEF Sound, SoundOf
<1>7. \A c, i : Loud(c, i)' = SoundOf(c, n, i) * LineOf(Taken("amplitude"), levels["amplitude"], n, i)
                                 * FromOutside("egEnvelope", i)
                                 * LineOf(Taken("volume"), levels["volume"], n, i)
  BY <1>4, <1>5, <1>6 DEF Loud
<1>8. \A l \in LevelsRead : \A i :
          /\ CosAt(l, i)' = Math("cos", PiFour * (1 + LineOf(Taken(l), levels[l], n, i)))
          /\ SinAt(l, i)' = Math("sin", PiFour * (1 + LineOf(Taken(l), levels[l], n, i)))
  BY <1>4 DEF CosAt, SinAt
<1> SUFFICES ASSUME NEW i \in 0 .. n - 1
             PROVE  IF IsStereo
                    THEN /\ y["left"][i] =
                              SqrtTwoInv * (MidAt(i)' + CosAt("position", i)' * SideAt(i)')
                         /\ y["right"][i] =
                              SqrtTwoInv * (MidAt(i)' + SinAt("position", i)' * SideAt(i)')
                    ELSE /\ y["left"][i] = Loud("left", i)' * CosAt("pan", i)'
                         /\ y["right"][i] = Loud("left", i)' * SinAt("pan", i)'
  BY <1>2, <1>3 DEF IsMixed
<1>9. MixOf(y, n, i)
  OBVIOUS
<1>10. CASE IsStereo
  <2>1. "width" \in LevelsRead /\ "position" \in LevelsRead
    BY <1>10 DEF LevelsRead
  <2>2. /\ SideAt(i)' = SqrtTwoInv * (Loud("left", i)' - Loud("right", i)') * CosAt("width", i)'
        /\ MidAt(i)' = SqrtTwoInv * (Loud("left", i)' + Loud("right", i)') * SinAt("width", i)'
    BY DEF SideAt, MidAt
  <2> QED BY <1>7, <1>8, <1>9, <1>10, <2>1, <2>2, ZenonT(60) DEF MixOf
<1>11. CASE ~ IsStereo
  <2>1. "pan" \in LevelsRead
    BY <1>11 DEF LevelsRead
  <2> QED BY <1>7, <1>8, <1>9, <1>11, <2>1, Zenon DEF MixOf
<1> QED BY <1>10, <1>11

LEMMA RenderBegins ==
    ASSUME MixingInv, NEW n \in Frames, RenderBlock(n)
    PROVE  BlockInv'
<1>1. n \in Nat /\ n <= SamplesPerBlock /\ SamplesPerBlock \in Nat
  BY VoiceAssumption DEF VoiceAssumption
<1>2. /\ program' = Program(n) /\ phase' = "none"
      /\ buffers' = [b \in Names |-> [i \in 0 .. SamplesPerBlock - 1 |-> Unwritten]]
  BY DEF RenderBlock, BetweenBlocks, kernelVars
<1>3. AreBuffers(buffers')
  BY <1>2 DEF AreBuffers
<1>4. /\ initialDelay \in Nat /\ sinePhase \in Int
      /\ \A l \in LevelsRead : LevelIsPlain(l)
  BY DEF MixingInv, VoiceInv, Numbers, LevelsInOrder, LevelIsPlain
<1>5. ASSUME NEW y, Runs(program', buffers', y)
      PROVE  IsMixed(y)'
  <2>1. \A i \in 0 .. n - 1 : MixOf(y, n, i)
    BY <1>1, <1>2, <1>3, <1>4, <1>5, ProgramSets
  <2> QED BY <1>1, <1>4, <2>1, BlockBegins
<1>6. ~ Running'
  BY <1>2 DEF Running
<1> QED BY <1>5, <1>6 DEF BlockInv, Runs, Effect, Made, Frame

\* What a kernel is to write is what the call makes of the buffers.
LEMMA CallMakes ==
    ASSUME NEW c, LegalStep(c), c.kernel \in Kernels, call = CallOf(c),
           NEW n \in Nat, \A o \in Operands(c.kernel) : c.spans[o].length = n,
           NEW i \in 0 .. n - 1
    PROVE  Written("out", i) = Made(buffers, c, i)
<1>1. c.kernel \in Played /\ DOMAIN c.spans = Operands(c.kernel)
  BY DEF LegalStep
<1>2. /\ kernel = c.kernel /\ value = c.value /\ start = c.start
      /\ given = [o \in DOMAIN c.spans |-> [j \in 0 .. c.spans[o].length - 1 |->
                     buffers[c.spans[o].buffer][c.spans[o].from + j]]]
  BY DEF CallOf, kernel, value, start, given
<1>3. \A o \in Operands(c.kernel) : G(o, i) = Frame(buffers, c.spans[o], i)
  BY <1>1, <1>2 DEF G, Frame
<1>4. CASE c.kernel \in {"fill", "linearRamp"}
  BY <1>2, <1>4 DEF Written, Made, MathFunctions
<1>5. CASE c.kernel \in {"copy", "add", "subtract", "applyGain"}
  <2>1. "in" \in Operands(c.kernel) /\ "out" \in Operands(c.kernel)
    BY <1>5 DEF Operands, Inputs, Outputs, Ramps, Means, Indexings
  <2> QED BY <1>2, <1>3, <1>5, <2>1 DEF Written, Made, MathFunctions
<1>6. CASE c.kernel \in {"applyGainSpan", "multiplyAdd"}
  <2>1. "in" \in Operands(c.kernel) /\ "out" \in Operands(c.kernel)
        /\ "gain" \in Operands(c.kernel)
    BY <1>6 DEF Operands, Inputs, Outputs, Ramps, Means, Indexings
  <2> QED BY <1>2, <1>3, <1>6, <2>1 DEF Written, Made, MathFunctions
<1>7. CASE c.kernel \in {"cos", "sin"}
  <2>1. "in" \in Operands(c.kernel)
    BY <1>7 DEF Operands, Inputs, Outputs, Ramps, Means, Indexings
  <2> QED BY <1>2, <1>3, <1>7, <2>1 DEF Written, Made, MathFunctions
<1> QED BY <1>1, <1>4, <1>5, <1>6, <1>7 DEF Played

\* What is taken back is what the call makes.
LEMMA TakenBackIs ==
    ASSUME MixingInv, BlockInv, TakeBack
    PROVE  buffers' = Effect(buffers, Head(program))
<1>1. PICK c : c = Head(program)
  OBVIOUS
<1>2. /\ phase = "returned" /\ program # << >>
      /\ buffers' = [buffers EXCEPT ![c.spans["out"].buffer] =
            [i \in DOMAIN @ |-> IF i \in c.spans["out"].from ..
                                          c.spans["out"].from + c.spans["out"].length - 1
                                THEN memory["out"][i - c.spans["out"].from] ELSE @[i]]]
  BY <1>1 DEF TakeBack
<1>3. Running /\ call = CallOf(c) /\ LegalCall(call)
  BY <1>1, <1>2 DEF BlockInv, Running, MixingInv, CallInv
<1>4. LegalStep(c)
  BY <1>1, <1>2, ProgramGoesOn DEF MixingInv
<1>5. kernel = c.kernel /\ c.kernel \in Kernels /\ lanes = (c.kernel \in SIMDConfig)
      /\ size = [o \in DOMAIN c.spans |-> c.spans[o].length]
  BY <1>3 DEF CallOf, kernel, lanes, size, LegalCall
<1>6. PICK n \in Nat : \A o \in Operands(c.kernel) :
          c.spans[o].length = n /\ c.spans[o].from \in Nat
  BY <1>4, <1>5 DEF LegalStep, IsSpan
<1>7. DOMAIN c.spans = Operands(c.kernel) /\ c.kernel \in Played
  BY <1>4, <1>5 DEF LegalStep
<1>8. c.kernel \notin Interleaved /\ Outputs(c.kernel) = {"out"} /\ "out" \in Operands(c.kernel)
  BY <1>7, PlayedAre
<1>9. Common = n
  <2>1. \A o \in Operands(kernel) : Room(o) = n
    <3> TAKE o \in Operands(kernel)
    <3>1. size[o] = n /\ Stride(kernel, o) = 1
      BY <1>5, <1>6, <1>7, <1>8 DEF Stride, Interleaved
    <3>2. n \div 1 = n
      OBVIOUS
    <3> QED BY <3>1, <3>2 DEF Room
  <2> QED BY <1>3, <2>1, CommonIsShortest
<1>10. ASSUME NEW i \in 0 .. n - 1
       PROVE  memory["out"][i] = Made(buffers, c, i)
  <2>1. MatchesReference
    BY MatchIsRight DEF MixingInv
  <2>2. KnownWrong(i) \/ ElementIsRight(i)
    BY <1>2, <1>9, <2>1 DEF MatchesReference
  <2>3. ~ KnownWrong(i)
    BY <1>5, <1>7 DEF KnownWrong, SIMDConfig, Played
  <2>4. memory["out"][i] = Written("out", i)
    <3>1. kernel \notin Means /\ kernel # "writeInterleaved"
          /\ kernel \notin Indexings \cup {"sfzInterpolationCast"}
      BY <1>5, <1>7 DEF Means, Indexings, Played
    <3> QED BY <1>5, <1>8, <2>2, <2>3, <3>1 DEF ElementIsRight
  <2> QED BY <1>3, <1>4, <1>5, <1>6, <2>4, CallMakes
<1>11. PICK from \in Nat : from = c.spans["out"].from /\ c.spans["out"].length = n
  BY <1>6, <1>8
<1> DEFINE b == c.spans["out"].buffer
<1>12. \A i : i \in from .. from + n - 1 => i - from \in 0 .. n - 1
  OBVIOUS
<1>13. \A i : (IF i \in from .. from + n - 1 THEN memory["out"][i - from] ELSE buffers[b][i])
              = (IF i \in from .. from + n - 1 THEN Made(buffers, c, i - from) ELSE buffers[b][i])
  BY <1>10, <1>12
<1>14. Effect(buffers, c) = [buffers EXCEPT ![b] =
            [i \in DOMAIN @ |-> IF i \in from .. from + n - 1
                                THEN Made(buffers, c, i - from) ELSE @[i]]]
  BY <1>11, Zenon DEF Effect
<1> QED BY <1>1, <1>2, <1>11, <1>13, <1>14

\* And what is brought from outside too.
LEMMA BroughtIs ==
    ASSUME Bring
    PROVE  buffers' = Effect(buffers, Head(program))
<1>1. PICK c : c = Head(program)
  OBVIOUS
<1>2. /\ c.kernel \in {"left", "right", "egEnvelope"}
      /\ buffers' = [buffers EXCEPT ![c.spans["out"].buffer] =
            [i \in DOMAIN @ |-> IF i \in c.spans["out"].from ..
                                          c.spans["out"].from + c.spans["out"].length - 1
                                THEN FromOutside(c.kernel, i - c.spans["out"].from) ELSE @[i]]]
  BY <1>1 DEF Bring
<1>3. \A i : Made(buffers, c, i) = FromOutside(c.kernel, i)
  BY <1>2 DEF Made
<1> QED BY <1>1, <1>2, <1>3 DEF Effect

\* What is left after a call that is done.
LEMMA CallIsDone ==
    ASSUME MixingInv, BlockInv, program # << >>, program' = Tail(program),
           buffers' = Effect(buffers, Head(program)), sound' = sound, block' = block,
           phase' = "none"
    PROVE  BlockInv'
<1>1. IsProgram(program)
  BY DEF MixingInv
<1>2. ASSUME block # NoBlock, NEW y, Runs(program', buffers', y)
      PROVE  IsMixed(y)'
  <2>1. Runs(program, buffers, y)
    BY <1>1, <1>2, RunsOn
  <2>2. IsMixed(y)
    BY <1>2, <2>1 DEF BlockInv
  <2> QED BY <2>2, MixedStays
<1>3. ~ Running'
  BY DEF Running
<1> QED BY <1>2, <1>3 DEF BlockInv, Runs, Effect, Made, Frame

LEMMA InitIsBlockInv == Init => BlockInv
<1> SUFFICES ASSUME Init PROVE BlockInv
  OBVIOUS
<1>1. program = << >> /\ block = NoBlock
  BY DEF Init, VoiceInit
<1> QED BY <1>1 DEF BlockInv

LEMMA StepKeepsBlock == MixingInv /\ BlockInv /\ [Next]_vars => BlockInv'
<1> SUFFICES ASSUME MixingInv, BlockInv, [Next]_vars PROVE BlockInv'
  OBVIOUS
<1>1. ASSUME block' = NoBlock, ~ Running'
      PROVE  BlockInv'
  BY <1>1 DEF BlockInv
<1>2. ASSUME sound' = sound, block' = block, buffers' = buffers, program' = program,
             (Running /\ program # << >> => call = CallOf(Head(program)))'
      PROVE  BlockInv'
  <2>1. ASSUME block # NoBlock, NEW y, Runs(program', buffers', y)
        PROVE  IsMixed(y)'
    <3>1. IsMixed(y)
      BY <1>2, <2>1 DEF BlockInv
    <3> QED BY <1>2, <3>1, MixedStays
  <2> QED BY <1>2, <2>1 DEF BlockInv, Runs, Effect, Made, Frame
<1>3. ASSUME call' = call, buffers' = buffers, program' = program, Running' => Running
      PROVE  (Running /\ program # << >> => call = CallOf(Head(program)))'
  BY <1>3 DEF BlockInv, CallOf
<1>4. ASSUME NEW region \in Sounds, NEW strike \in Strikes, NEW duration \in Durations,
             NEW delay \in StartDelays, StartVoice(region, strike, duration, delay)
      PROVE  BlockInv'
  <2>1. block' = NoBlock /\ phase' = "none"
    BY <1>4 DEF StartVoice, BetweenBlocks, kernelVars
  <2> QED BY <1>1, <2>1 DEF Running
<1>5. ASSUME NEW n \in CCs, NEW x \in CCValues, NEW delay \in Delays, CC(n, x, delay)
      PROVE  BlockInv'
  <2>1. block' = NoBlock /\ phase' = "none"
    BY <1>5 DEF CC, BetweenBlocks, kernelVars
  <2> QED BY <1>1, <2>1 DEF Running
<1>6. ASSUME NEW n \in Frames, RenderBlock(n)
      PROVE  BlockInv'
  BY <1>6, RenderBegins
<1>7. CASE Bring
  <2>1. /\ program # << >> /\ program' = Tail(program) /\ phase' = "none"
        /\ sound' = sound /\ block' = block
    BY <1>7 DEF Bring, kernelVars, voiceVars
  <2> QED BY <1>7, <2>1, BroughtIs, CallIsDone
<1>8. CASE CallNext
  <2>1. /\ call' = CallOf(Head(program)) /\ program' = program /\ buffers' = buffers
        /\ sound' = sound /\ block' = block
    <3>1. PICK c : c = CallOf(Head(program))
      OBVIOUS
    <3> QED BY <1>8, <3>1 DEF CallNext, voiceVars
  <2>2. (Running /\ program # << >> => call = CallOf(Head(program)))'
    BY <2>1 DEF CallOf
  <2> QED BY <1>2, <2>1, <2>2
<1>9. CASE RunKernel
  <2>1. /\ KernelStep /\ program' = program /\ buffers' = buffers
        /\ sound' = sound /\ block' = block
    BY <1>9 DEF RunKernel, voiceVars
  <2>2. call' = call /\ Running
    BY <2>1 DEF KernelStep, Loop, First, Single, Four, Return, InHead, InRest, InFours, Running
  <2> QED BY <1>2, <1>3, <2>1, <2>2
<1>10. CASE TakeBack
  <2>1. /\ program # << >> /\ program' = Tail(program) /\ phase' = "none"
        /\ sound' = sound /\ block' = block
    BY <1>10 DEF TakeBack, voiceVars
  <2> QED BY <1>10, <2>1, TakenBackIs, CallIsDone
<1>11. CASE Heard
  <2>1. block' = NoBlock /\ phase' = "none"
    BY <1>11 DEF Heard, kernelVars
  <2> QED BY <1>1, <2>1 DEF Running
<1>12. CASE UNCHANGED vars
  <2>1. /\ call' = call /\ phase' = phase /\ program' = program /\ buffers' = buffers
        /\ sound' = sound /\ block' = block
    BY <1>12 DEF vars, kernelVars, voiceVars
  <2>2. Running' => Running
    BY <2>1 DEF Running
  <2> QED BY <1>2, <1>3, <2>1, <2>2
<1> QED BY <1>4, <1>5, <1>6, <1>7, <1>8, <1>9, <1>10, <1>11, <1>12 DEF Next

-----------------------------------------------------------------------------
(* Theorems.                                                                 *)

\* Every call of a kernel is legal and has done what is before its pointers right, every
\* program is made of such calls, the events of a level are in order, and what moves it
\* are numbers.
THEOREM MixingInvariant == Spec => []MixingInv
  BY InitIsInv, StepKeepsInv, PTL DEF Spec

\* Every access of a kernel is to what its loop may touch: a register is loaded from and
\* stored to aligned memory, and no loop leaves the shortest span but those of the four
\* kernels that are known to (the loops of SIMDSSE.cpp), for spans of any length
\* and alignment, called for themselves or by a voice with any events in its block.
THEOREM AccessesAreLegalHolds == Spec => []AccessesAreLegal
<1>1. MixingInv => AccessesAreLegal
  BY StepsAreLegal DEF MixingInv
<1> QED BY <1>1, MixingInvariant, PTL

\* Whatever way the elements of a call fall into a head, fours and a rest, each is written
\* with what the scalar definition of its kernel gives for it, and the sums, ramps and
\* positions go on from one to the next (SIMDHelpers.h and SIMDSSE.cpp), for spans of any
\* length and alignment, called for themselves or by a voice, but for the head and the
\* rest of three functions and the fours of pan.
THEOREM MatchesReferenceHolds == Spec => []MatchesReference
<1>1. MixingInv => MatchesReference
  BY MatchIsRight DEF MixingInv
<1> QED BY <1>1, MixingInvariant, PTL

\* Between blocks a level is where the present value of its controller would put it in
\* a voice that starts (Voice::registerCC and LinearEnvelope), for any number of blocks,
\* events and places in a list, unless the list was full or the sound has a controller
\* of the volume.
THEOREM LevelsFollowControllersHolds == Spec => []LevelsFollowControllers
<1>1. MixingInv => LevelsFollowControllers
  BY DEF MixingInv, VoiceInv, LevelsFollow, LevelsFollowControllers
<1> QED BY <1>1, MixingInvariant, PTL

\* Each frame of a block that is through (Voice::renderBlock) is what its sound, the
\* gains of the ADSR and its levels at that frame make of it, in mono and stereo, for
\* blocks of any length up to that of the buffers, a voice that begins anywhere in it,
\* and any events in the order of their times: whatever kernels the block is made of and
\* however their elements fall into a head, fours and a rest.
THEOREM BlockIsMixedHolds == Spec => []BlockIsMixed
<1>1. MixingInv /\ BlockInv => BlockIsMixed
  <2> SUFFICES ASSUME BlockInv, block # NoBlock, program = << >>
               PROVE  IsMixed(buffers)
    BY DEF BlockIsMixed, IsMixed
  <2>1. Runs(program, buffers, buffers)
    BY NothingRuns
  <2> QED BY <2>1 DEF BlockInv
<1>2. Spec => []BlockInv
  BY MixingInvariant, InitIsBlockInv, StepKeepsBlock, PTL DEF Spec
<1> QED BY <1>1, <1>2, MixingInvariant, PTL

=================================================================================
