------------------------------- MODULE QueueProofs -------------------------------
(*****************************************************************************)
(* The two counts of the semaphore are one, so that it implements Tokens; no *)
(* slot of the queue is written over or read unwritten, no assertion of its  *)
(* code fails, the queue is a mailbox: it implements Mailbox, and refuses no *)
(* element before it holds maxSize of them, for queues of any size.          *)
(*****************************************************************************)
EXTENDS Queue, FiniteSetTheorems, SequenceTheorems, NaturalsInduction, WellFoundedInduction, TLAPS

-----------------------------------------------------------------------------
(* The semaphore.                                                            *)

USE DEF semaphoreVars, Patiences, SemaphoreType, Owes, Available, Posted, WaiterTo

LEMMA SemaphoreInitInv == SemaphoreInit => SemaphoreInv
BY DEF SemaphoreInit, SemaphoreInv

LEMMA SignallerKeepsInv == SemaphoreInv /\ (Signal \/ Post) => SemaphoreInv'
<1> SUFFICES ASSUME SemaphoreInv, Signal \/ Post
             PROVE  SemaphoreInv'
    OBVIOUS
<1>1. CASE Signal
      BY <1>1 DEF Signal, SemaphoreInv
<1>2. CASE Post
      BY <1>2 DEF Post, SemaphoreInv
<1> QED BY <1>1, <1>2

LEMMA WaiterKeepsInv ==
    SemaphoreInv /\ (WaiterStep \/ Return \/ \E p \in Patiences : Wait(p)) => SemaphoreInv'
<1> SUFFICES ASSUME SemaphoreInv, WaiterStep \/ Return \/ \E p \in Patiences : Wait(p)
             PROVE  SemaphoreInv'
    OBVIOUS
<1> USE DEF SemaphoreInv
<1>1. CASE TakeOne BY <1>1 DEF TakeOne
<1>2. CASE SpinSees BY <1>2 DEF SpinSees
<1>3. CASE SpinEnds BY <1>3 DEF SpinEnds
<1>4. CASE Commit BY <1>4 DEF Commit
<1>5. CASE Wake BY <1>5 DEF Wake
<1>6. CASE TimeOut BY <1>6 DEF TimeOut
<1>7. CASE Restore BY <1>7 DEF Restore
<1>8. CASE Retake BY <1>8 DEF Retake
<1>9. CASE PollFinds BY <1>9 DEF PollFinds
<1>10. CASE PollMisses BY <1>10 DEF PollMisses
<1>11. CASE Return BY <1>11 DEF Return
<1>12. ASSUME NEW p \in Patiences, Wait(p)
       PROVE  SemaphoreInv'
       BY <1>12 DEF Wait
<1> QED BY <1>1, <1>2, <1>3, <1>4, <1>5, <1>6, <1>7, <1>8, <1>9, <1>10, <1>11, <1>12
        DEF WaiterStep

LEMMA SemaphoreStutterKeepsInv == SemaphoreInv /\ UNCHANGED semaphoreVars => SemaphoreInv'
BY DEF SemaphoreInv

\* The invariant of the semaphore: a post is there or on its way exactly if one is owed,
\* for LightweightSemaphore with one thread that signals and one that waits.
THEOREM SemaphoreInvariant == SemaphoreSpec => []SemaphoreInv
<1>1. SemaphoreInv /\ [SemaphoreNext]_semaphoreVars => SemaphoreInv'
      BY SignallerKeepsInv, WaiterKeepsInv, SemaphoreStutterKeepsInv DEF SemaphoreNext
<1> QED BY SemaphoreInitInv, <1>1, PTL DEF SemaphoreSpec

\* The assertion of signal(): the count is never below minus one.
THEOREM OneWaits == SemaphoreSpec => []AtMostOneWaits
<1>1. SemaphoreInv => AtMostOneWaits
      BY DEF SemaphoreInv, AtMostOneWaits
<1> QED BY SemaphoreInvariant, <1>1, PTL

-----------------------------------------------------------------------------
(* The refinement, a step at a time.                                         *)

LEMMA SignallerGives ==
    SemaphoreInv /\ (Signal \/ Post) => [Abstract!Next]_Available
<1> SUFFICES ASSUME SemaphoreInv, Signal \/ Post
             PROVE  Abstract!Give \/ Available' = Available
    BY DEF Abstract!Next
<1>1. CASE Signal
      BY <1>1 DEF Signal, SemaphoreInv, Abstract!Give
<1>2. CASE Post
      BY <1>2 DEF Post, SemaphoreInv
<1> QED BY <1>1, <1>2

LEMMA WaiterTakes ==
    SemaphoreInv /\ (WaiterStep \/ Return \/ \E p \in Patiences : Wait(p))
        => [Abstract!Next]_Available
<1> SUFFICES ASSUME SemaphoreInv, WaiterStep \/ Return \/ \E p \in Patiences : Wait(p)
             PROVE  Abstract!Take \/ Available' = Available
    BY DEF Abstract!Next
<1> USE DEF SemaphoreInv, Abstract!Take
<1>1. CASE TakeOne BY <1>1 DEF TakeOne
<1>2. CASE SpinSees BY <1>2 DEF SpinSees
<1>3. CASE SpinEnds BY <1>3 DEF SpinEnds
<1>4. CASE Commit BY <1>4 DEF Commit
<1>5. CASE Wake BY <1>5 DEF Wake
<1>6. CASE TimeOut BY <1>6 DEF TimeOut
<1>7. CASE Restore BY <1>7 DEF Restore
<1>8. CASE Retake BY <1>8 DEF Retake
<1>9. CASE PollFinds BY <1>9 DEF PollFinds
<1>10. CASE PollMisses BY <1>10 DEF PollMisses
<1>11. CASE Return BY <1>11 DEF Return
<1>12. ASSUME NEW p \in Patiences, Wait(p)
       PROVE  Available' = Available
       BY <1>12 DEF Wait
<1> QED BY <1>1, <1>2, <1>3, <1>4, <1>5, <1>6, <1>7, <1>8, <1>9, <1>10, <1>11, <1>12
        DEF WaiterStep

\* waitWithPartialSpinning and signal grant exactly what was given: every behaviour of
\* the semaphore is one of Tokens, of which a wait takes one.
THEOREM Refinement == SemaphoreSpec => Abstract!Spec
<1>1. SemaphoreInit => Abstract!Init
      BY DEF SemaphoreInit, Abstract!Init
<1>2. SemaphoreInv /\ [SemaphoreNext]_semaphoreVars => [Abstract!Next]_Available
      BY SignallerGives, WaiterTakes DEF SemaphoreNext
<1> QED BY <1>1, <1>2, SemaphoreInvariant, PTL DEF SemaphoreSpec, Abstract!Spec

HIDE DEF semaphoreVars, Patiences, SemaphoreType, Owes, Available, Posted, WaiterTo

-----------------------------------------------------------------------------
(* Blocks.                                                                   *)

BlockFields == {"size", "front", "localTail", "tail", "localFront", "next", "data"}

Slots(k) == 0 .. k.size - 1

\* The slot after i, and how far j is behind i, in a circular buffer of s slots.
Succ(i, s) == IF i + 1 = s THEN 0 ELSE i + 1
Behind(i, j, s) == IF i <= j THEN j - i ELSE j - i + s

Filled(k) == Behind(k.front, k.tail, k.size)
Holds(k, i) == Behind(k.front, i, k.size) < Filled(k)

\* The indices of a block: each thread's copy of the other's lags behind it.
Indices(s, front, tail, localFront, localTail) ==
    /\ s \in Nat /\ s >= 2
    /\ front \in 0 .. s - 1 /\ tail \in 0 .. s - 1
    /\ localFront \in 0 .. s - 1 /\ localTail \in 0 .. s - 1
    /\ Behind(localFront, front, s) <= Behind(localFront, tail, s)
    /\ Behind(front, localTail, s) <= Behind(front, tail, s)

BlockInv(k) ==
    /\ k = [f \in BlockFields |-> k[f]]
    /\ Indices(k.size, k.front, k.tail, k.localFront, k.localTail)
    /\ k.data \in [Slots(k) -> Values \cup {Raw}]

-----------------------------------------------------------------------------
(* Circular buffers.                                                         *)

LEMMA LookAtFront ==
    ASSUME NEW s, NEW f, NEW t, NEW lf, NEW lt, Indices(s, f, t, lf, lt)
    PROVE  Indices(s, f, t, f, lt)
  BY DEF Indices, Behind

LEMMA LookAtTail ==
    ASSUME NEW s, NEW f, NEW t, NEW lf, NEW lt, Indices(s, f, t, lf, lt)
    PROVE  Indices(s, f, t, lf, t)
  BY DEF Indices, Behind

\* There is a slot after the tail: the tail moves on.
LEMMA MoveTail ==
    ASSUME NEW s, NEW f, NEW t, NEW lf, NEW lt, Indices(s, f, t, lf, lt),
           Succ(t, s) # lf
    PROVE  /\ Indices(s, f, Succ(t, s), lf, lt)
           /\ Behind(f, Succ(t, s), s) = Behind(f, t, s) + 1
           /\ \A i \in 0 .. s - 1 :
                 Behind(f, i, s) < Behind(f, Succ(t, s), s)
                     <=> Behind(f, i, s) < Behind(f, t, s) \/ i = t
<1>1. Indices(s, f, Succ(t, s), lf, lt)
  BY DEF Indices, Behind, Succ
<1>2. Behind(f, Succ(t, s), s) = Behind(f, t, s) + 1
  BY DEF Indices, Behind, Succ
<1>3. \A i \in 0 .. s - 1 :
          Behind(f, i, s) < Behind(f, t, s) + 1 <=> Behind(f, i, s) < Behind(f, t, s) \/ i = t
  BY DEF Indices, Behind
<1> QED BY <1>1, <1>2, <1>3

\* There is an element at the front: the front moves on.
LEMMA MoveFront ==
    ASSUME NEW s, NEW f, NEW t, NEW lf, NEW lt, Indices(s, f, t, lf, lt),
           f # lt
    PROVE  /\ Indices(s, Succ(f, s), t, lf, lt)
           /\ Behind(Succ(f, s), t, s) = Behind(f, t, s) - 1
           /\ \A i \in 0 .. s - 1 :
                 Behind(Succ(f, s), i, s) < Behind(Succ(f, s), t, s)
                     <=> Behind(f, i, s) < Behind(f, t, s) /\ i # f
<1>1. Indices(s, Succ(f, s), t, lf, lt)
  BY DEF Indices, Behind, Succ
<1>2. Behind(Succ(f, s), t, s) = Behind(f, t, s) - 1
  BY DEF Indices, Behind, Succ
<1>3. \A i \in 0 .. s - 1 :
          Behind(Succ(f, s), i, s) < Behind(f, t, s) - 1
              <=> Behind(f, i, s) < Behind(f, t, s) /\ i # f
  BY DEF Indices, Behind, Succ
<1> QED BY <1>1, <1>2, <1>3

LEMMA EmptyIndices ==
    ASSUME NEW s, NEW f, NEW t, NEW lf, NEW lt, Indices(s, f, t, lf, lt)
    PROVE  /\ Behind(f, t, s) \in Nat /\ Behind(f, t, s) < s
           /\ f = t <=> Behind(f, t, s) = 0
           /\ f # lt => f # t
           /\ Behind(f, f, s) < Behind(f, t, s) <=> f # t
           /\ ~ (Behind(f, t, s) < Behind(f, t, s))
  BY DEF Indices, Behind

-----------------------------------------------------------------------------
(* A block.                                                                  *)

LEMMA AfterIs ==
    ASSUME NEW b, BlockInv(blocks[b]), NEW i \in Slots(blocks[b])
    PROVE  After(b, i) = Succ(i, blocks[b].size)
<1> DEFINE s == blocks[b].size
<1>1. s \in Nat /\ s >= 2 /\ i \in 0 .. s - 1
  BY DEF BlockInv, Slots, Indices
<1> HIDE DEF s
<1>2. (i + 1) % s = Succ(i, s)
  BY <1>1 DEF Succ
<1> QED BY <1>2 DEF After, s

\* What a step changes of a block, but for one member.
Others(after, k, field) ==
    /\ after = [f \in BlockFields |-> after[f]]
    /\ \A f \in BlockFields \ {field} : after[f] = k[f]

\* The front is read again.
LEMMA FrontIsRead ==
    ASSUME NEW k, BlockInv(k)
    PROVE  LET after == [k EXCEPT !.localFront = k.front]
           IN  BlockInv(after) /\ Others(after, k, "localFront") /\ after.localFront = k.front
<1> DEFINE after == [k EXCEPT !.localFront = k.front]
<1>1. /\ Others(after, k, "localFront") /\ after.localFront = k.front
  BY DEF BlockInv, BlockFields, Others
<1> HIDE DEF after
<1>2. /\ after.size = k.size /\ after.front = k.front /\ after.tail = k.tail
      /\ after.localTail = k.localTail /\ after.data = k.data
  BY <1>1 DEF Others, BlockFields
<1>3. BlockInv(after)
  <2>1. Indices(k.size, k.front, k.tail, k.front, k.localTail)
    BY LookAtFront DEF BlockInv
  <2> QED BY <1>1, <1>2, <2>1 DEF BlockInv, Slots, Others
<1> QED BY <1>1, <1>3 DEF after

\* The tail is read again.
LEMMA TailIsRead ==
    ASSUME NEW k, BlockInv(k)
    PROVE  LET after == [k EXCEPT !.localTail = k.tail]
           IN  BlockInv(after) /\ Others(after, k, "localTail") /\ after.localTail = k.tail
<1> DEFINE after == [k EXCEPT !.localTail = k.tail]
<1>1. /\ Others(after, k, "localTail") /\ after.localTail = k.tail
  BY DEF BlockInv, BlockFields, Others
<1> HIDE DEF after
<1>2. /\ after.size = k.size /\ after.front = k.front /\ after.tail = k.tail
      /\ after.localFront = k.localFront /\ after.data = k.data
  BY <1>1 DEF Others, BlockFields
<1>3. BlockInv(after)
  <2>1. Indices(k.size, k.front, k.tail, k.localFront, k.tail)
    BY LookAtTail DEF BlockInv
  <2> QED BY <1>1, <1>2, <2>1 DEF BlockInv, Slots, Others
<1> QED BY <1>1, <1>3 DEF after

\* An element is constructed or destroyed.
LEMMA SlotIsSet ==
    ASSUME NEW k, BlockInv(k), NEW i \in Slots(k), NEW x \in Values \cup {Raw}
    PROVE  LET after == [k EXCEPT !.data[i] = x]
           IN  /\ BlockInv(after) /\ Others(after, k, "data")
               /\ after.data = [j \in Slots(k) |-> IF j = i THEN x ELSE k.data[j]]
<1> DEFINE after == [k EXCEPT !.data[i] = x]
           data == [j \in Slots(k) |-> IF j = i THEN x ELSE k.data[j]]
<1>1. [k.data EXCEPT ![i] = x] = data /\ data \in [Slots(k) -> Values \cup {Raw}]
  BY DEF BlockInv
<1> HIDE DEF data
<1>2. Others(after, k, "data") /\ after.data = data
  BY <1>1 DEF BlockInv, BlockFields, Others
<1> HIDE DEF after
<1>3. /\ after.size = k.size /\ after.front = k.front /\ after.tail = k.tail
      /\ after.localFront = k.localFront /\ after.localTail = k.localTail
  BY <1>2 DEF Others, BlockFields
<1>4. BlockInv(after)
  BY <1>1, <1>2, <1>3 DEF BlockInv, Slots, Others
<1> QED BY <1>2, <1>4 DEF after, data

\* The tail moves on, where there is room: the block holds the slot that it passes too.
LEMMA TailMoves ==
    ASSUME NEW k, BlockInv(k), Succ(k.tail, k.size) # k.localFront
    PROVE  LET after == [k EXCEPT !.tail = Succ(k.tail, k.size)]
           IN  /\ BlockInv(after) /\ Others(after, k, "tail")
               /\ Filled(after) = Filled(k) + 1
               /\ \A i \in Slots(k) : Holds(after, i) <=> Holds(k, i) \/ i = k.tail
<1> DEFINE after == [k EXCEPT !.tail = Succ(k.tail, k.size)]
<1>1. Others(after, k, "tail") /\ after.tail = Succ(k.tail, k.size)
  BY DEF BlockInv, BlockFields, Others
<1> HIDE DEF after
<1>2. /\ after.size = k.size /\ after.front = k.front /\ after.data = k.data
      /\ after.localFront = k.localFront /\ after.localTail = k.localTail
  BY <1>1 DEF Others, BlockFields
<1>3. /\ Indices(k.size, k.front, after.tail, k.localFront, k.localTail)
      /\ Behind(k.front, after.tail, k.size) = Filled(k) + 1
      /\ \A i \in Slots(k) : Behind(k.front, i, k.size) < Behind(k.front, after.tail, k.size)
                               <=> Holds(k, i) \/ i = k.tail
  BY <1>1, MoveTail DEF BlockInv, Filled, Holds, Slots
<1>4. BlockInv(after)
  BY <1>1, <1>2, <1>3 DEF BlockInv, Slots, Others
<1>5. Filled(after) = Filled(k) + 1
  BY <1>2, <1>3 DEF Filled
<1>6. \A i \in Slots(k) : Holds(after, i) <=> Holds(k, i) \/ i = k.tail
  BY <1>2, <1>3 DEF Filled, Holds
<1> QED BY <1>1, <1>4, <1>5, <1>6 DEF after

\* The front moves on, where there is an element: the block no longer holds its slot.
LEMMA FrontMoves ==
    ASSUME NEW k, BlockInv(k), k.front # k.localTail
    PROVE  LET after == [k EXCEPT !.front = Succ(k.front, k.size)]
           IN  /\ BlockInv(after) /\ Others(after, k, "front")
               /\ Filled(after) = Filled(k) - 1
               /\ \A i \in Slots(k) : Holds(after, i) <=> Holds(k, i) /\ i # k.front
<1> DEFINE after == [k EXCEPT !.front = Succ(k.front, k.size)]
<1>1. Others(after, k, "front") /\ after.front = Succ(k.front, k.size)
  BY DEF BlockInv, BlockFields, Others
<1> HIDE DEF after
<1>2. /\ after.size = k.size /\ after.tail = k.tail /\ after.data = k.data
      /\ after.localFront = k.localFront /\ after.localTail = k.localTail
  BY <1>1 DEF Others, BlockFields
<1>3. /\ Indices(k.size, after.front, k.tail, k.localFront, k.localTail)
      /\ Behind(after.front, k.tail, k.size) = Filled(k) - 1
      /\ \A i \in Slots(k) :
            Behind(after.front, i, k.size) < Behind(after.front, k.tail, k.size)
                <=> Holds(k, i) /\ i # k.front
  BY <1>1, MoveFront DEF BlockInv, Filled, Holds, Slots
<1>4. BlockInv(after)
  BY <1>1, <1>2, <1>3 DEF BlockInv, Slots, Others
<1>5. Filled(after) = Filled(k) - 1
  BY <1>2, <1>3 DEF Filled
<1>6. \A i \in Slots(k) : Holds(after, i) <=> Holds(k, i) /\ i # k.front
  BY <1>2, <1>3 DEF Filled, Holds
<1> QED BY <1>1, <1>4, <1>5, <1>6 DEF after

\* A block is empty if its indices are equal.
LEMMA EmptyOrNot ==
    ASSUME NEW k, BlockInv(k)
    PROVE  /\ Filled(k) \in Nat /\ Filled(k) < k.size
           /\ k.front = k.tail <=> Filled(k) = 0
           /\ k.front # k.localTail => k.front # k.tail
           /\ Holds(k, k.front) <=> k.front # k.tail
           /\ ~ Holds(k, k.tail)
<1>1. Indices(k.size, k.front, k.tail, k.localFront, k.localTail)
  BY DEF BlockInv
<1> QED BY <1>1, EmptyIndices DEF Filled, Holds

-----------------------------------------------------------------------------
(* The inductive invariant.                                                  *)

BlocksInv ==
    /\ \E n \in Nat : DOMAIN blocks = 1 .. n
    /\ blocks = [b \in DOMAIN blocks |-> blocks[b]]
    /\ \A b \in DOMAIN blocks : BlockInv(blocks[b]) /\ blocks[b].next \in DOMAIN blocks
    /\ frontBlock \in DOMAIN blocks /\ tailBlock \in DOMAIN blocks
    /\ into \in DOMAIN blocks /\ from \in DOMAIN blocks
    /\ largestBlockSize \in Nat /\ largestBlockSize >= 2

\* The slots of a block that hold an element: one that is written is not yet before
\* the tail, and one that is read not yet behind the front.
Owned(b) ==
    \A i \in Slots(blocks[b]) :
        blocks[b].data[i] # Raw <=>
            \/ /\ Holds(blocks[b], i)
               /\ ~ (consumer = "leaving" /\ b = from /\ i = blocks[b].front)
            \/ producer = "publishing" /\ b = into /\ i = blocks[b].tail

OwnedInv == \A b \in DOMAIN blocks : Owned(b)

\* No two blocks have the same next one; but for a block that is not linked yet.
Outside(b) == producer = "linking" /\ b = into

Circle ==
    \A b, c \in DOMAIN blocks :
        ~ Outside(b) /\ ~ Outside(c) /\ blocks[b].next = blocks[c].next => b = c

\* The producer is in a block that it has yet to make the last one.
Entering == {"entering", "writing", "publishing", "moving", "linking"}

\* The blocks that the producer has entered and the consumer not left, in the order in
\* which they were entered: only the first may be empty, and all others of the circle
\* are, but for one that is about to be the last.
Chain(live, first, last) ==
    /\ live \in [Nat -> DOMAIN blocks] /\ first \in Nat /\ last \in Nat /\ first <= last
    /\ live[first] = frontBlock /\ live[last] = tailBlock
    /\ \A i \in first .. last - 1 : blocks[live[i]].next = live[i + 1]
    /\ \A i \in first + 1 .. last : NotEmpty(live[i])
    /\ \A i, j \in first .. last : live[i] = live[j] => i = j
    /\ \A b \in DOMAIN blocks :
          NotEmpty(b) => \/ \E i \in first .. last : live[i] = b
                         \/ b = into /\ producer \in {"moving", "linking"}
    /\ into # tailBlock /\ producer \in Entering =>
          \A i \in first .. last : live[i] # into

ChainInv == \E live, first, last : Chain(live, first, last)

ProducerInv ==
    /\ producer \in {"idle", "checking", "full", "signalling"} \cup Entering
    /\ producer # "idle" => item \in Values
    /\ producer \in {"checking", "full", "signalling"} => into = tailBlock
    /\ producer \in {"entering", "moving", "linking"} => into # tailBlock
    /\ producer \in {"entering", "writing", "publishing", "moving"} /\ into # tailBlock =>
          blocks[tailBlock].next = into
    /\ producer \in {"entering", "writing", "publishing"} /\ into # tailBlock =>
          ~ NotEmpty(into)
    /\ producer \in {"writing", "publishing"} => HasRoom(into, blocks[into].localFront)
    /\ producer \in {"moving", "linking"} => Filled(blocks[into]) = 1
    /\ producer = "linking" =>
          /\ blocks[into].next = blocks[tailBlock].next
          /\ \A b \in DOMAIN blocks : blocks[b].next # into
    /\ signaller = "posting" => producer = "idle"

\* The consumer's copy of the tail says that there is an element.
Wanting(b) == blocks[b].front # blocks[b].localTail

Taking == operation # "peek"

ConsumerInv ==
    /\ consumer \in {"idle", "waiting", "looking", "comparing", "lookingAgain", "advancing",
                     "releasing", "reading", "leaving"}
    /\ operation \in {"none", "peek", "dequeue", "pop"}
    /\ operation = "none" <=> consumer = "idle"
    /\ operation \in {"none", "peek"} => waiter = "idle"
    /\ consumer = "waiting" => waiter # "idle"
    /\ consumer \notin {"waiting", "idle"} /\ Taking => waiter = "granted"
    /\ consumer \in {"waiting", "releasing", "leaving"} => Taking
    /\ consumer \in {"looking", "comparing", "lookingAgain", "advancing", "leaving"} =>
          from = frontBlock
    /\ consumer = "reading" => NotEmpty(from)
    /\ consumer = "reading" /\ Taking => from = frontBlock
    /\ consumer = "reading" /\ from # frontBlock =>
          /\ frontBlock # tailBlock /\ ~ NotEmpty(frontBlock)
          /\ from = blocks[frontBlock].next
    /\ consumer \in {"lookingAgain", "advancing", "releasing"} => frontBlock # tailBlock
    /\ consumer = "comparing" /\ Taking => frontBlock # tailBlock
    /\ consumer \in {"advancing", "releasing"} => ~ NotEmpty(frontBlock)
    /\ consumer = "releasing" => from = blocks[frontBlock].next
    /\ consumer \in {"leaving", "releasing"} => Wanting(from)
    /\ consumer = "reading" /\ Taking => Wanting(from)

\* The elements, wherever they are, are those announced and not taken, the one that the
\* consumer was granted and the one that the producer has yet to announce.
ElemsOf(bs) ==
    UNION {{<<b, i>> : i \in {j \in Slots(bs[b]) : bs[b].data[j] # Raw}} : b \in DOMAIN bs}
Elems == ElemsOf(blocks)

Granting == IF waiter = "granted" /\ consumer # "leaving" THEN 1 ELSE 0

Announcing == IF producer \in {"publishing", "moving", "linking", "signalling"} THEN 1 ELSE 0

Tally == IsFiniteSet(Elems) /\ Cardinality(Elems) = Available + Granting + Announcing

Open ==
    /\ BlocksInv /\ OwnedInv /\ Circle /\ ChainInv
    /\ ProducerInv /\ ConsumerInv /\ Tally

Closed ==
    /\ producer = "destroyed" /\ consumer = "idle" /\ waiter = "idle" /\ signaller = "idle"
    /\ \A b \in DOMAIN blocks : \A i \in DOMAIN blocks[b].data : blocks[b].data[i] = Raw

QueueInv == SemaphoreInv /\ (Open \/ Closed)

-----------------------------------------------------------------------------
(* What a step leaves alone.                                                 *)

\* The members that no block's value changes of.
Kept(fields) ==
    /\ DOMAIN blocks' = DOMAIN blocks
    /\ \A b \in DOMAIN blocks : \A f \in fields : blocks'[b][f] = blocks[b][f]

\* A step that changes one member of one block.
LEMMA BlockChanges ==
    ASSUME BlocksInv, NEW b \in DOMAIN blocks, NEW k, NEW field \in BlockFields,
           BlockInv(k), Others(k, blocks[b], field), k.next \in DOMAIN blocks,
           blocks' = [blocks EXCEPT ![b] = k],
           frontBlock' \in DOMAIN blocks, tailBlock' \in DOMAIN blocks,
           into' \in DOMAIN blocks, from' \in DOMAIN blocks, UNCHANGED largestBlockSize
    PROVE  /\ BlocksInv'
           /\ \A fields : field \notin fields /\ fields \subseteq BlockFields => Kept(fields)
           /\ DOMAIN blocks' = DOMAIN blocks
           /\ blocks'[b] = k /\ \A c \in DOMAIN blocks : c # b => blocks'[c] = blocks[c]
<1>1. blocks' = [c \in DOMAIN blocks |-> IF c = b THEN k ELSE blocks[c]]
  BY DEF BlocksInv
<1>2. Kept(BlockFields \ {field})
  BY <1>1 DEF Kept, Others
<1>3. \A fields : field \notin fields /\ fields \subseteq BlockFields => Kept(fields)
  BY <1>2 DEF Kept
<1>4. DOMAIN blocks' = DOMAIN blocks /\ blocks' = [c \in DOMAIN blocks' |-> blocks'[c]]
  BY <1>1
<1>5. \A c \in DOMAIN blocks' : BlockInv(blocks'[c]) /\ blocks'[c].next \in DOMAIN blocks'
  BY <1>1 DEF BlocksInv
<1>6. BlocksInv'
  BY <1>4, <1>5 DEF BlocksInv
<1> QED BY <1>1, <1>3, <1>4, <1>6

LEMMA OwnedKept ==
    ASSUME OwnedInv, Kept({"size", "front", "tail", "data"}),
           \/ UNCHANGED <<producer, into>>
           \/ producer # "publishing" /\ producer' # "publishing",
           \/ UNCHANGED <<consumer, from>>
           \/ consumer # "leaving" /\ consumer' # "leaving"
    PROVE  OwnedInv'
<1>1. DOMAIN blocks' = DOMAIN blocks
  BY DEF Kept
<1>2. ASSUME NEW b \in DOMAIN blocks
      PROVE  /\ blocks'[b].size = blocks[b].size /\ blocks'[b].front = blocks[b].front
             /\ blocks'[b].tail = blocks[b].tail /\ blocks'[b].data = blocks[b].data
  BY DEF Kept
<1>3. ASSUME NEW b \in DOMAIN blocks, NEW i \in Slots(blocks[b])
      PROVE  blocks'[b].data[i] # Raw <=>
                \/ /\ Holds(blocks'[b], i)
                   /\ ~ (consumer' = "leaving" /\ b = from' /\ i = blocks'[b].front)
                \/ producer' = "publishing" /\ b = into' /\ i = blocks'[b].tail
  <2>1. Holds(blocks'[b], i) <=> Holds(blocks[b], i)
    BY <1>2 DEF Holds, Filled
  <2> QED BY <1>2, <2>1 DEF OwnedInv, Owned
<1> QED BY <1>1, <1>2, <1>3 DEF OwnedInv, Owned, Slots

LEMMA CircleKept ==
    ASSUME Circle, Kept({"next"}),
           \/ UNCHANGED <<producer, into>>
           \/ producer # "linking" /\ producer' # "linking"
    PROVE  Circle'
  BY DEF Circle, Kept, Outside

LEMMA ChainKept ==
    ASSUME ChainInv, Kept({"front", "tail", "next"}), UNCHANGED <<frontBlock, tailBlock>>,
           \/ UNCHANGED <<producer, into>>
           \/ /\ producer \notin {"moving", "linking"}
              /\ into' # tailBlock /\ producer' \in Entering =>
                    into' = into /\ into # tailBlock /\ producer \in Entering
    PROVE  ChainInv'
<1>1. PICK live, first, last : Chain(live, first, last)
  BY DEF ChainInv
<1>2. \A b \in DOMAIN blocks : /\ blocks'[b].front = blocks[b].front
                               /\ blocks'[b].tail = blocks[b].tail
                               /\ blocks'[b].next = blocks[b].next
  BY DEF Kept
<1>3. DOMAIN blocks' = DOMAIN blocks
  BY DEF Kept
<1>4. \A i \in first .. last : live[i] \in DOMAIN blocks
  BY <1>1 DEF Chain
<1>5. Chain(live, first, last)'
  BY <1>1, <1>2, <1>3, <1>4 DEF Chain, NotEmpty, Entering
<1> QED BY <1>5 DEF ChainInv

LEMMA IsElem ==
    ASSUME NEW bs, NEW b \in DOMAIN bs, NEW i
    PROVE  <<b, i>> \in ElemsOf(bs) <=> i \in Slots(bs[b]) /\ bs[b].data[i] # Raw
  BY DEF ElemsOf

LEMMA ElemIsPair ==
    ASSUME NEW bs, NEW e \in ElemsOf(bs)
    PROVE  \E b \in DOMAIN bs : \E i : e = <<b, i>>
  BY DEF ElemsOf

LEMMA SameElems ==
    ASSUME NEW bs, NEW cs, DOMAIN cs = DOMAIN bs,
           \A b \in DOMAIN bs : cs[b].size = bs[b].size /\ cs[b].data = bs[b].data
    PROVE  ElemsOf(cs) = ElemsOf(bs)
<1>1. ASSUME NEW b \in DOMAIN bs, NEW i
      PROVE  <<b, i>> \in ElemsOf(cs) <=> <<b, i>> \in ElemsOf(bs)
  <2>1. cs[b].size = bs[b].size /\ cs[b].data = bs[b].data
    OBVIOUS
  <2> QED BY <2>1, IsElem DEF Slots
<1>2. ASSUME NEW e \in ElemsOf(bs) \cup ElemsOf(cs)
      PROVE  \E b \in DOMAIN bs : \E i : e = <<b, i>>
  BY ElemIsPair
<1> QED BY <1>1, <1>2

LEMMA TallyKept ==
    ASSUME Tally, Kept({"size", "data"}),
           Available' + Granting' + Announcing' = Available + Granting + Announcing
    PROVE  Tally'
<1>1. Elems' = Elems
  BY SameElems DEF Kept, Elems
<1> QED BY <1>1 DEF Tally

\* What the producer does to the consumer's blocks.
LEMMA ConsumerKept ==
    ASSUME BlocksInv, ConsumerInv, UNCHANGED <<consumerVars, waiter, frontBlock>>,
           Kept({"front", "localTail"}),
           \A b \in DOMAIN blocks : NotEmpty(b) => NotEmpty(b)',
           ~ NotEmpty(frontBlock) /\ frontBlock # tailBlock => ~ NotEmpty(frontBlock)',
           frontBlock # tailBlock =>
               frontBlock # tailBlock' /\ blocks'[frontBlock].next = blocks[frontBlock].next
    PROVE  ConsumerInv'
<1>1. \A b \in DOMAIN blocks : Wanting(b)' <=> Wanting(b)
  BY DEF Wanting, Kept
<1>2. from \in DOMAIN blocks /\ frontBlock \in DOMAIN blocks
  BY DEF BlocksInv
<1>3. NotEmpty(from) => NotEmpty(from)'
  BY <1>2 DEF NotEmpty, consumerVars
<1>4. Wanting(from)' <=> Wanting(from)
  BY <1>1, <1>2 DEF Wanting, consumerVars
<1> QED BY <1>3, <1>4 DEF ConsumerInv, consumerVars, Taking, NotEmpty, Wanting

\* What the consumer does to the producer's.
LEMMA ProducerKept ==
    ASSUME BlocksInv, ProducerInv, UNCHANGED <<producerVars, signaller, tailBlock>>,
           Kept({"size", "tail", "localFront", "next"}),
           into # tailBlock /\ producer \in Entering => blocks'[into].front = blocks[into].front
    PROVE  ProducerInv'
<1>1. into \in DOMAIN blocks /\ tailBlock \in DOMAIN blocks
  BY DEF BlocksInv
<1>2. /\ blocks'[into].size = blocks[into].size /\ blocks'[into].tail = blocks[into].tail
      /\ blocks'[into].localFront = blocks[into].localFront
      /\ \A b \in DOMAIN blocks : blocks'[b].next = blocks[b].next
      /\ DOMAIN blocks' = DOMAIN blocks
  BY <1>1 DEF Kept
<1>3. producer \in {"moving", "linking"} => into # tailBlock /\ producer \in Entering
  BY DEF ProducerInv, Entering
<1>4. producer \in {"moving", "linking"} => Filled(blocks'[into]) = Filled(blocks[into])
  BY <1>2, <1>3 DEF Filled
<1>5. into # tailBlock /\ producer \in Entering => (NotEmpty(into)' <=> NotEmpty(into))
  BY <1>2 DEF NotEmpty, producerVars
<1>6. HasRoom(into, blocks[into].localFront)' <=> HasRoom(into, blocks[into].localFront)
  BY <1>2 DEF HasRoom, After, producerVars
<1> QED BY <1>1, <1>2, <1>4, <1>5, <1>6 DEF ProducerInv, producerVars, Entering, NotEmpty, HasRoom,
           After, Filled

LEMMA AllKept ==
    ASSUME UNCHANGED blocks, NEW fields
    PROVE  Kept(fields)
  BY DEF Kept

LEMMA BlocksStay ==
    ASSUME BlocksInv, UNCHANGED <<blocks, largestBlockSize>>,
           frontBlock' \in DOMAIN blocks, tailBlock' \in DOMAIN blocks,
           into' \in DOMAIN blocks, from' \in DOMAIN blocks
    PROVE  BlocksInv'
  BY DEF BlocksInv

\* The consumer does not notice a step of the producer that stores no tail and links no
\* block.
LEMMA ConsumerStays ==
    ASSUME BlocksInv, ConsumerInv, UNCHANGED <<consumerVars, waiter, frontBlock, tailBlock>>,
           Kept({"front", "tail", "localTail", "next"})
    PROVE  ConsumerInv'
<1>1. \A b \in DOMAIN blocks : /\ blocks'[b].front = blocks[b].front
                               /\ blocks'[b].tail = blocks[b].tail
                               /\ blocks'[b].next = blocks[b].next
  BY DEF Kept
<1>2. \A b \in DOMAIN blocks : NotEmpty(b)' <=> NotEmpty(b)
  BY <1>1 DEF NotEmpty
<1>3. NotEmpty(frontBlock)' <=> NotEmpty(frontBlock)
  BY <1>1 DEF NotEmpty, BlocksInv
<1>4. Kept({"front", "localTail"})
  BY DEF Kept
<1>5. frontBlock # tailBlock =>
          frontBlock # tailBlock' /\ blocks'[frontBlock].next = blocks[frontBlock].next
  BY <1>1 DEF BlocksInv
<1> QED BY <1>2, <1>3, <1>4, <1>5, ConsumerKept

-----------------------------------------------------------------------------
(* The producer.                                                             *)

LEMMA EnqueueKeeps ==
    ASSUME Open, NEW x \in Values, NEW alloc \in BOOLEAN, Enqueue(x, alloc)
    PROVE  Open'
<1>1. /\ UNCHANGED <<semaphoreVars, blockVars, consumerVars>>
      /\ producer = "idle" /\ signaller = "idle"
      /\ item' = x /\ into' = tailBlock
      /\ producer' = IF HasRoom(tailBlock, blocks[tailBlock].localFront)
                     THEN "writing" ELSE "checking"
  BY DEF Enqueue
<1>2. /\ UNCHANGED <<blocks, frontBlock, tailBlock, largestBlockSize, from, consumer, waiter,
                     signaller, count, operation>>
      /\ \A fields : Kept(fields)
  BY <1>1, AllKept DEF blockVars, consumerVars, semaphoreVars
<1>3. BlocksInv'
  BY <1>1, <1>2, BlocksStay DEF Open, BlocksInv
<1>4. OwnedInv' /\ Circle' /\ ChainInv'
  BY <1>1, <1>2, OwnedKept, CircleKept, ChainKept DEF Open
<1>5. ProducerInv'
  BY <1>1, <1>2 DEF ProducerInv, Entering, HasRoom, After
<1>6. ConsumerInv'
  BY <1>1, <1>2, ConsumerStays DEF Open, consumerVars
<1>7. Tally'
  BY <1>1, <1>2, TallyKept DEF Open, Available, Owes, Granting, Announcing
<1> QED BY <1>3, <1>4, <1>5, <1>6, <1>7 DEF Open

\* The front of the last block or of the one that is entered is looked at.
LEMMA FrontLooked ==
    ASSUME BlocksInv, NEW b \in DOMAIN blocks,
           blocks' = [blocks EXCEPT ![b].localFront = blocks[b].front],
           UNCHANGED <<frontBlock, tailBlock, largestBlockSize, into, from>>
    PROVE  /\ BlocksInv'
           /\ \A fields : "localFront" \notin fields /\ fields \subseteq BlockFields
                              => Kept(fields)
           /\ blocks'[b].localFront = blocks[b].front
<1> DEFINE k == [blocks[b] EXCEPT !.localFront = blocks[b].front]
<1>1. BlockInv(k) /\ Others(k, blocks[b], "localFront") /\ k.localFront = blocks[b].front
  BY FrontIsRead DEF BlocksInv
<1>2. blocks' = [blocks EXCEPT ![b] = k]
  OBVIOUS
<1> HIDE DEF k
<1>3. k.next = blocks[b].next /\ "localFront" \in BlockFields
  BY <1>1 DEF Others, BlockFields
<1> QED BY <1>1, <1>2, <1>3, BlockChanges DEF BlocksInv

LEMMA CheckFrontKeeps == ASSUME Open, CheckFront PROVE Open'
<1> DEFINE b == tailBlock
<1>1. /\ UNCHANGED <<semaphoreVars, consumerVars, frontBlock, tailBlock, largestBlockSize, into>>
      /\ producer = "checking"
      /\ producer' = IF HasRoom(b, blocks[b].front) THEN "writing" ELSE "full"
      /\ item' = item
      /\ blocks' = [blocks EXCEPT ![b].localFront = blocks[b].front]
  BY DEF CheckFront, ProducerTo
<1>2. UNCHANGED <<from, consumer, waiter, signaller, count, operation>>
  BY <1>1 DEF consumerVars, semaphoreVars
<1>b. b \in DOMAIN blocks /\ into = b /\ item \in Values
  BY <1>1 DEF Open, BlocksInv, ProducerInv
<1>3. /\ BlocksInv'
      /\ \A fields : "localFront" \notin fields /\ fields \subseteq BlockFields
                         => Kept(fields)
      /\ blocks'[b].localFront = blocks[b].front
  BY <1>1, <1>2, <1>b, FrontLooked DEF Open
<1>4. /\ Kept({"size", "front", "tail", "data"}) /\ Kept({"next"})
      /\ Kept({"front", "tail", "next"}) /\ Kept({"front", "tail", "localTail", "next"})
      /\ Kept({"size", "data"}) /\ Kept({"size", "tail"})
  BY <1>3 DEF BlockFields
<1>5. OwnedInv' /\ Circle'
  BY <1>1, <1>2, <1>4, OwnedKept, CircleKept DEF Open
<1>6. ChainInv'
  BY <1>1, <1>2, <1>b, <1>4, ChainKept DEF Open, Entering
<1>7. ProducerInv'
  <2>1. HasRoom(b, blocks[b].front) => HasRoom(into, blocks[into].localFront)'
    BY <1>1, <1>b, <1>3, <1>4 DEF HasRoom, After, Kept
  <2> QED BY <1>1, <1>2, <1>b, <2>1 DEF Open, ProducerInv, Entering, HasRoom
<1>8. ConsumerInv'
  BY <1>1, <1>2, <1>4, ConsumerStays DEF Open
<1>9. Tally'
  BY <1>1, <1>2, <1>4, TallyKept DEF Open, Available, Owes, Granting, Announcing
<1> QED BY <1>3, <1>5, <1>6, <1>7, <1>8, <1>9 DEF Open

\* The next block is none of those that the producer has entered and the consumer not
\* left.
LEMMA NextIsNotLive ==
    ASSUME Open, producer = "full", NextIsFree, NEW live, NEW first, NEW last,
           Chain(live, first, last), NEW i \in first .. last
    PROVE  live[i] # blocks[tailBlock].next
<1>1. CASE i = first
  BY <1>1 DEF Chain, NextIsFree
<1>2. CASE i # first
  <2>1. /\ first \in Nat /\ last \in Nat /\ i \in Nat /\ i - 1 \in first .. last - 1
        /\ i - 1 \in first .. last /\ i - 1 \in Nat /\ last \in first .. last /\ i - 1 + 1 = i
    BY <1>2 DEF Chain
  <2>2. blocks[live[i - 1]].next = live[i]
    BY <2>1 DEF Chain
  <2>3. live[i - 1] \in DOMAIN blocks /\ tailBlock \in DOMAIN blocks
    BY <2>1 DEF Chain, Open, BlocksInv
  <2>4. live[i - 1] # tailBlock
    <3>1. i - 1 # last
      BY <2>1
    <3> QED BY <2>1, <3>1 DEF Chain
  <2>5. ~ Outside(live[i - 1]) /\ ~ Outside(tailBlock)
    BY DEF Outside
  <2> QED BY <2>2, <2>3, <2>4, <2>5 DEF Open, Circle
<1> QED BY <1>1, <1>2

LEMMA UseNextKeeps == ASSUME Open, UseNext PROVE Open'
<1>1. /\ UNCHANGED <<semaphoreVars, blockVars, consumerVars>>
      /\ producer = "full" /\ producer' = "entering" /\ NextIsFree
      /\ item' = item /\ into' = blocks[tailBlock].next
  BY DEF UseNext, ProducerTo
<1>2. /\ UNCHANGED <<blocks, frontBlock, tailBlock, largestBlockSize, from, consumer, waiter,
                     signaller, count, operation>>
      /\ \A fields : Kept(fields)
  BY <1>1, AllKept DEF blockVars, consumerVars, semaphoreVars
<1>3. into' \in DOMAIN blocks /\ item \in Values
  BY <1>1 DEF Open, BlocksInv, ProducerInv
<1>4. BlocksInv'
  BY <1>2, <1>3, BlocksStay DEF Open, BlocksInv
<1>5. OwnedInv' /\ Circle'
  BY <1>1, <1>2, OwnedKept, CircleKept DEF Open
<1>6. PICK live, first, last : Chain(live, first, last)
  BY DEF Open, ChainInv
<1>7. \A i \in first .. last : live[i] # into'
  BY <1>1, <1>6, NextIsNotLive
<1>8. last \in first .. last
  BY <1>6 DEF Chain
<1>9. into' # tailBlock /\ ~ NotEmpty(into')
  BY <1>1, <1>3, <1>6, <1>7, <1>8 DEF Chain
<1>10. ChainInv'
  <2>1. Chain(live, first, last)'
    BY <1>1, <1>2, <1>6, <1>7 DEF Chain, NotEmpty
  <2> QED BY <2>1 DEF ChainInv
<1>11. ProducerInv'
  BY <1>1, <1>2, <1>3, <1>9 DEF Open, ProducerInv, Entering, NotEmpty
<1>12. ConsumerInv'
  BY <1>1, <1>2, ConsumerStays DEF Open, consumerVars
<1>13. Tally'
  BY <1>1, <1>2, TallyKept DEF Open, Available, Owes, Granting, Announcing
<1> QED BY <1>4, <1>5, <1>10, <1>11, <1>12, <1>13 DEF Open

LEMMA EnterKeeps == ASSUME Open, Enter PROVE Open'
<1> DEFINE b == into
<1>1. /\ UNCHANGED <<semaphoreVars, consumerVars, frontBlock, tailBlock, largestBlockSize, into>>
      /\ producer = "entering" /\ producer' = "writing" /\ item' = item
      /\ blocks' = [blocks EXCEPT ![b].localFront = blocks[b].front]
  BY DEF Enter, ProducerTo
<1>2. UNCHANGED <<from, consumer, waiter, signaller, count, operation>>
  BY <1>1 DEF consumerVars, semaphoreVars
<1>b. /\ b \in DOMAIN blocks /\ BlockInv(blocks[b]) /\ item \in Values /\ b # tailBlock
      /\ tailBlock \in DOMAIN blocks /\ ~ NotEmpty(b) /\ blocks[tailBlock].next = b
      /\ signaller # "posting"
  BY <1>1 DEF Open, BlocksInv, ProducerInv
<1>3. /\ BlocksInv'
      /\ \A fields : "localFront" \notin fields /\ fields \subseteq BlockFields
                         => Kept(fields)
      /\ blocks'[b].localFront = blocks[b].front
  BY <1>1, <1>2, <1>b, FrontLooked DEF Open
<1>4. /\ Kept({"size", "front", "tail", "data"}) /\ Kept({"next"})
      /\ Kept({"front", "tail", "next"}) /\ Kept({"front", "tail", "localTail", "next"})
      /\ Kept({"size", "data"}) /\ Kept({"size", "tail"})
  BY <1>3 DEF BlockFields
<1>5. OwnedInv' /\ Circle'
  BY <1>1, <1>2, <1>4, OwnedKept, CircleKept DEF Open
<1>6. ChainInv'
  BY <1>1, <1>2, <1>b, <1>4, ChainKept DEF Open, Entering
<1>7. ProducerInv'
  <2>1. blocks'[b].size = blocks[b].size /\ blocks'[b].tail = blocks[b].tail
        /\ blocks'[b].front = blocks[b].front /\ blocks'[tailBlock].next = blocks[tailBlock].next
    BY <1>b, <1>4 DEF Kept
  <2>2. blocks[b].tail = blocks[b].front /\ blocks[b].tail \in Slots(blocks[b])
    BY <1>b DEF NotEmpty, BlockInv, Indices, Slots
  <2>3. After(b, blocks[b].tail) # blocks[b].tail
    <3>1. blocks[b].size \in Nat /\ blocks[b].size >= 2 /\ blocks[b].tail \in Nat
      BY <1>b, <2>2 DEF BlockInv, Indices, Slots
    <3>2. Succ(blocks[b].tail, blocks[b].size) # blocks[b].tail
      BY <3>1 DEF Succ
    <3> QED BY <1>b, <2>2, <3>2, AfterIs
  <2>4. HasRoom(into, blocks[into].localFront)'
    BY <1>1, <1>3, <2>1, <2>2, <2>3 DEF HasRoom, After
  <2>5. ~ NotEmpty(into)'
    BY <1>1, <1>b, <2>1 DEF NotEmpty
  <2> QED BY <1>1, <1>2, <1>b, <2>1, <2>4, <2>5 DEF ProducerInv, Entering
<1>8. ConsumerInv'
  BY <1>1, <1>2, <1>4, ConsumerStays DEF Open
<1>9. Tally'
  BY <1>1, <1>2, <1>4, TallyKept DEF Open, Available, Owes, Granting, Announcing
<1> QED BY <1>3, <1>5, <1>6, <1>7, <1>8, <1>9 DEF Open

\* An element more; and, read from the other side, one less.
LEMMA OneMoreElem ==
    ASSUME NEW bs, NEW cs, NEW b \in DOMAIN bs, NEW i \in Slots(bs[b]),
           DOMAIN cs = DOMAIN bs, \A c \in DOMAIN bs : cs[c].size = bs[c].size,
           \A c \in DOMAIN bs : \A j \in Slots(bs[c]) :
               ~ (c = b /\ j = i) => cs[c].data[j] = bs[c].data[j],
           bs[b].data[i] = Raw, cs[b].data[i] # Raw
    PROVE  /\ ElemsOf(cs) = ElemsOf(bs) \cup {<<b, i>>} /\ <<b, i>> \notin ElemsOf(bs)
           /\ ElemsOf(bs) = ElemsOf(cs) \ {<<b, i>>} /\ <<b, i>> \in ElemsOf(cs)
<1>1. <<b, i>> \notin ElemsOf(bs) /\ <<b, i>> \in ElemsOf(cs)
  BY IsElem DEF Slots
<1>2. ASSUME NEW c \in DOMAIN bs, NEW j, ~ (c = b /\ j = i)
      PROVE  <<c, j>> \in ElemsOf(cs) <=> <<c, j>> \in ElemsOf(bs)
  <2>1. Slots(cs[c]) = Slots(bs[c])
    BY DEF Slots
  <2>2. <<c, j>> \in ElemsOf(cs) <=> j \in Slots(cs[c]) /\ cs[c].data[j] # Raw
    BY IsElem
  <2>3. <<c, j>> \in ElemsOf(bs) <=> j \in Slots(bs[c]) /\ bs[c].data[j] # Raw
    BY IsElem
  <2> QED BY <1>2, <2>1, <2>2, <2>3
<1>3. ASSUME NEW e \in ElemsOf(bs) \cup ElemsOf(cs)
      PROVE  \E c \in DOMAIN bs : \E j : e = <<c, j>>
  BY ElemIsPair
<1>4. ASSUME NEW e \in ElemsOf(bs) \cup ElemsOf(cs), e # <<b, i>>
      PROVE  e \in ElemsOf(cs) <=> e \in ElemsOf(bs)
  <2>1. PICK c \in DOMAIN bs : \E j : e = <<c, j>>
    BY <1>3
  <2>2. PICK j : e = <<c, j>>
    BY <2>1
  <2>3. ~ (c = b /\ j = i)
    BY <1>4, <2>2
  <2> QED BY <1>2, <2>2, <2>3
<1> QED BY <1>1, <1>4

LEMMA TallyGrows ==
    ASSUME Tally, NEW b \in DOMAIN blocks, NEW i \in Slots(blocks[b]),
           DOMAIN blocks' = DOMAIN blocks, Kept({"size"}),
           \A c \in DOMAIN blocks : \A j \in Slots(blocks[c]) :
               ~ (c = b /\ j = i) => blocks'[c].data[j] = blocks[c].data[j],
           blocks[b].data[i] = Raw, blocks'[b].data[i] # Raw
    PROVE  IsFiniteSet(Elems') /\ Cardinality(Elems') = Cardinality(Elems) + 1
<1>1. \A c \in DOMAIN blocks : blocks'[c].size = blocks[c].size
  BY DEF Kept
<1>2. Elems' = Elems \cup {<<b, i>>} /\ <<b, i>> \notin Elems
  BY <1>1, OneMoreElem DEF Elems
<1> QED BY <1>2, FS_AddElement DEF Tally

LEMMA TallyShrinks ==
    ASSUME Tally, NEW b \in DOMAIN blocks, NEW i \in Slots(blocks[b]),
           DOMAIN blocks' = DOMAIN blocks, Kept({"size"}),
           \A c \in DOMAIN blocks : \A j \in Slots(blocks[c]) :
               ~ (c = b /\ j = i) => blocks'[c].data[j] = blocks[c].data[j],
           blocks[b].data[i] # Raw, blocks'[b].data[i] = Raw
    PROVE  IsFiniteSet(Elems') /\ Cardinality(Elems') = Cardinality(Elems) - 1
<1>1. \A c \in DOMAIN blocks : blocks'[c].size = blocks[c].size
  BY DEF Kept
<1>s. Slots(blocks'[b]) = Slots(blocks[b])
  BY <1>1 DEF Slots
<1>3. \A c \in DOMAIN blocks' : \A j \in Slots(blocks'[c]) :
           ~ (c = b /\ j = i) => blocks[c].data[j] = blocks'[c].data[j]
  BY <1>1 DEF Slots
<1>2. Elems' = Elems \ {<<b, i>>} /\ <<b, i>> \in Elems
  BY <1>1, <1>s, <1>3, OneMoreElem DEF Elems
<1> QED BY <1>2, FS_RemoveElement DEF Tally

LEMMA WriteKeeps == ASSUME Open, SemaphoreInv, Write PROVE Open'
<1> DEFINE b == into
           i == blocks[b].tail
           k == [blocks[b] EXCEPT !.data[i] = item]
<1>1. /\ UNCHANGED <<semaphoreVars, consumerVars, frontBlock, tailBlock, largestBlockSize, into>>
      /\ producer = "writing" /\ producer' = "publishing" /\ item' = item
      /\ blocks' = [blocks EXCEPT ![b] = k]
  BY DEF Write, ProducerTo
<1>2. UNCHANGED <<from, consumer, waiter, signaller, count, operation>>
  BY <1>1 DEF consumerVars, semaphoreVars
<1>b. /\ b \in DOMAIN blocks /\ BlockInv(blocks[b]) /\ item \in Values /\ item # Raw
      /\ blocks[b].next \in DOMAIN blocks
  BY <1>1, SizesAssumption DEF Open, BlocksInv, ProducerInv
<1>s. i \in Slots(blocks[b])
  BY <1>b DEF BlockInv, Indices, Slots
<1>3. /\ BlockInv(k) /\ Others(k, blocks[b], "data")
      /\ k.data = [j \in Slots(blocks[b]) |-> IF j = i THEN item ELSE blocks[b].data[j]]
  BY <1>b, <1>s, SlotIsSet
<1>4. /\ BlocksInv'
      /\ \A fields : "data" \notin fields /\ fields \subseteq BlockFields => Kept(fields)
      /\ DOMAIN blocks' = DOMAIN blocks
      /\ blocks'[b] = k /\ \A c \in DOMAIN blocks : c # b => blocks'[c] = blocks[c]
  <2> HIDE DEF k
  <2>1. "data" \in BlockFields /\ k.next = blocks[b].next
    BY <1>3 DEF BlockFields, Others
  <2> QED BY <1>1, <1>2, <1>b, <1>3, <2>1, BlockChanges DEF Open, BlocksInv
<1> HIDE DEF k
<1>5. /\ Kept({"size", "front", "tail"}) /\ Kept({"next"}) /\ Kept({"size"})
      /\ Kept({"front", "tail", "next"}) /\ Kept({"front", "tail", "localTail", "next"})
      /\ Kept({"size", "tail", "localFront", "next"})
  BY <1>4 DEF BlockFields
<1>6. /\ \A c \in DOMAIN blocks : \A j \in Slots(blocks[c]) :
            ~ (c = b /\ j = i) => blocks'[c].data[j] = blocks[c].data[j]
      /\ blocks'[b].data[i] = item
  BY <1>3, <1>4, <1>s
<1>7. blocks[b].data[i] = Raw /\ ~ Holds(blocks[b], i)
  BY <1>1, <1>b, <1>s, EmptyOrNot DEF Open, OwnedInv, Owned
<1>8. OwnedInv'
  <2>1. ASSUME NEW c \in DOMAIN blocks, NEW j \in Slots(blocks[c])
        PROVE  blocks'[c].data[j] # Raw <=>
                  \/ /\ Holds(blocks'[c], j)
                     /\ ~ (consumer' = "leaving" /\ c = from' /\ j = blocks'[c].front)
                  \/ producer' = "publishing" /\ c = into' /\ j = blocks'[c].tail
    <3>1. Holds(blocks'[c], j) <=> Holds(blocks[c], j)
      BY <1>5 DEF Kept, Holds, Filled
    <3>2. blocks'[c].front = blocks[c].front /\ blocks'[c].tail = blocks[c].tail
      BY <1>5 DEF Kept
    <3>3. CASE c = b /\ j = i
      BY <1>1, <1>2, <1>b, <1>6, <3>2, <3>3
    <3>4. CASE ~ (c = b /\ j = i)
      <4>1. blocks'[c].data[j] = blocks[c].data[j]
        BY <1>6, <3>4
      <4>2. ~ (c = into /\ j = blocks[c].tail)
        BY <3>4
      <4> QED BY <1>1, <1>2, <3>1, <3>2, <4>1, <4>2 DEF Open, OwnedInv, Owned
    <3> QED BY <3>3, <3>4
  <2>2. \A c \in DOMAIN blocks : Slots(blocks'[c]) = Slots(blocks[c])
    BY <1>5 DEF Kept, Slots
  <2> QED BY <1>4, <2>1, <2>2 DEF OwnedInv, Owned
<1>9. Circle'
  BY <1>1, <1>2, <1>5, CircleKept DEF Open
<1>10. ChainInv'
  BY <1>1, <1>2, <1>b, <1>5, ChainKept DEF Open, Entering
<1>11. ProducerInv'
  <2>1. /\ blocks'[b].size = blocks[b].size /\ blocks'[b].tail = blocks[b].tail
        /\ blocks'[b].front = blocks[b].front /\ blocks'[b].localFront = blocks[b].localFront
        /\ \A c \in DOMAIN blocks : blocks'[c].next = blocks[c].next
    BY <1>b, <1>5 DEF Kept
  <2>2. HasRoom(b, blocks[b].localFront)' <=> HasRoom(b, blocks[b].localFront)
    BY <1>1, <2>1 DEF HasRoom, After
  <2>3. NotEmpty(b)' <=> NotEmpty(b)
    BY <1>1, <2>1 DEF NotEmpty
  <2>4. tailBlock \in DOMAIN blocks
    BY DEF Open, BlocksInv
  <2> QED BY <1>1, <1>2, <2>1, <2>2, <2>3, <2>4 DEF Open, ProducerInv, Entering
<1>12. ConsumerInv'
  BY <1>1, <1>2, <1>5, ConsumerStays DEF Open
<1>13. Tally'
  <2>1. IsFiniteSet(Elems') /\ Cardinality(Elems') = Cardinality(Elems) + 1
    BY <1>b, <1>s, <1>4, <1>5, <1>6, <1>7, TallyGrows DEF Open
  <2>2. Announcing = 0 /\ Announcing' = 1
    BY <1>1 DEF Announcing
  <2>3. Available' = Available /\ Granting' = Granting
    BY <1>2 DEF Available, Owes, Granting
  <2>4. Cardinality(Elems) = Available + Granting + 0
    BY <2>2 DEF Open, Tally
  <2>5. Available \in Int /\ Granting \in Int
    BY DEF SemaphoreInv, SemaphoreType, Available, Granting
  <2> QED BY <2>1, <2>2, <2>3, <2>4, <2>5 DEF Tally
<1> QED BY <1>4, <1>8, <1>9, <1>10, <1>11, <1>12, <1>13 DEF Open

\* The consumer is not in the block that the producer enters.
LEMMA EnteredIsNotFront ==
    ASSUME ChainInv, into # tailBlock, producer \in Entering
    PROVE  into # frontBlock
<1>1. PICK live, first, last : Chain(live, first, last)
  BY DEF ChainInv
<1>2. first \in first .. last
  BY <1>1 DEF Chain
<1> QED BY <1>1, <1>2 DEF Chain

LEMMA PublishKeeps == ASSUME Open, Publish PROVE Open'
<1> DEFINE b == into
           i == blocks[b].tail
           k == [blocks[b] EXCEPT !.tail = Succ(i, blocks[b].size)]
<1>b. /\ b \in DOMAIN blocks /\ BlockInv(blocks[b]) /\ blocks[b].next \in DOMAIN blocks
      /\ tailBlock \in DOMAIN blocks /\ frontBlock \in DOMAIN blocks
  BY DEF Open, BlocksInv
<1>s. i \in Slots(blocks[b])
  BY <1>b DEF BlockInv, Indices, Slots
<1>a. After(b, i) = Succ(i, blocks[b].size)
  BY <1>b, <1>s, AfterIs
<1>1. /\ UNCHANGED <<semaphoreVars, consumerVars, frontBlock, tailBlock, largestBlockSize, into>>
      /\ producer = "publishing"
      /\ producer' = IF b = tailBlock THEN "signalling" ELSE "moving"
      /\ item' = item
      /\ blocks' = [blocks EXCEPT ![b] = k]
  BY <1>a DEF Publish, ProducerTo
<1>2. UNCHANGED <<from, consumer, waiter, signaller, count, operation>>
  BY <1>1 DEF consumerVars, semaphoreVars
<1>3. /\ item \in Values /\ HasRoom(b, blocks[b].localFront) /\ signaller # "posting"
      /\ b # tailBlock => ~ NotEmpty(b) /\ blocks[tailBlock].next = b
  BY <1>1 DEF Open, ProducerInv
<1>4. /\ BlockInv(k) /\ Others(k, blocks[b], "tail")
      /\ Filled(k) = Filled(blocks[b]) + 1
      /\ \A j \in Slots(blocks[b]) : Holds(k, j) <=> Holds(blocks[b], j) \/ j = i
  BY <1>a, <1>b, <1>3, TailMoves DEF HasRoom
<1> HIDE DEF k
<1>5. /\ BlocksInv'
      /\ \A fields : "tail" \notin fields /\ fields \subseteq BlockFields => Kept(fields)
      /\ DOMAIN blocks' = DOMAIN blocks
      /\ blocks'[b] = k /\ \A c \in DOMAIN blocks : c # b => blocks'[c] = blocks[c]
  <2>1. "tail" \in BlockFields /\ k.next = blocks[b].next
    BY <1>4 DEF BlockFields, Others
  <2> QED BY <1>1, <1>2, <1>b, <1>4, <2>1, BlockChanges DEF Open, BlocksInv
<1>6. /\ Kept({"size", "front", "data"}) /\ Kept({"next"}) /\ Kept({"size", "data"})
      /\ Kept({"front", "next"}) /\ Kept({"front", "localTail"})
  BY <1>5 DEF BlockFields
<1>7. \A c \in DOMAIN blocks : /\ blocks'[c].size = blocks[c].size
                               /\ blocks'[c].front = blocks[c].front
                               /\ blocks'[c].data = blocks[c].data
                               /\ blocks'[c].next = blocks[c].next
  BY <1>6 DEF Kept
<1>8. NotEmpty(b)' /\ Filled(blocks'[b]) = Filled(blocks[b]) + 1
  <2>1. Filled(k) # 0
    BY <1>b, <1>4, EmptyOrNot
  <2> QED BY <1>1, <1>4, <1>5, <2>1, EmptyOrNot DEF NotEmpty
<1>9. \A c \in DOMAIN blocks : /\ NotEmpty(c) => NotEmpty(c)'
                               /\ c # b => (NotEmpty(c)' <=> NotEmpty(c))
  BY <1>1, <1>5, <1>8 DEF NotEmpty
<1>10. OwnedInv'
  <2>1. ASSUME NEW c \in DOMAIN blocks, NEW j \in Slots(blocks[c])
        PROVE  blocks'[c].data[j] # Raw <=>
                  \/ /\ Holds(blocks'[c], j)
                     /\ ~ (consumer' = "leaving" /\ c = from' /\ j = blocks'[c].front)
                  \/ producer' = "publishing" /\ c = into' /\ j = blocks'[c].tail
    <3>0. /\ producer' # "publishing" /\ blocks'[c].data = blocks[c].data
          /\ blocks'[c].front = blocks[c].front
      BY <1>1, <1>7
    <3>1. CASE c # b
      BY <1>1, <1>2, <1>5, <3>0, <3>1 DEF Open, OwnedInv, Owned
    <3>2. CASE c = b
      <4>1. Holds(blocks'[c], j) <=> Holds(blocks[c], j) \/ j = i
        BY <1>4, <1>5, <3>2
      <4>2. consumer = "leaving" /\ c = from => i # blocks[c].front
        <5>1. consumer = "leaving" => Wanting(from)
          BY DEF Open, ConsumerInv
        <5> QED BY <1>b, <3>2, <5>1, EmptyOrNot DEF Wanting
      <4>3. blocks[c].data[j] # Raw <=>
                \/ /\ Holds(blocks[c], j)
                   /\ ~ (consumer = "leaving" /\ c = from /\ j = blocks[c].front)
                \/ j = i
        BY <1>1, <3>2 DEF Open, OwnedInv, Owned
      <4> QED BY <1>2, <3>0, <4>1, <4>2, <4>3
    <3> QED BY <3>1, <3>2
  <2>2. \A c \in DOMAIN blocks : Slots(blocks'[c]) = Slots(blocks[c])
    BY <1>7 DEF Slots
  <2> QED BY <1>5, <2>1, <2>2 DEF OwnedInv, Owned
<1>11. Circle'
  BY <1>1, <1>2, <1>6, CircleKept DEF Open
<1>12. ChainInv'
  <2>1. PICK live, first, last : Chain(live, first, last)
    BY DEF Open, ChainInv
  <2>2. /\ \A j \in first .. last : live[j] \in DOMAIN blocks
        /\ \A j \in first .. last - 1 : live[j] \in DOMAIN blocks
        /\ \A j \in first + 1 .. last : live[j] \in DOMAIN blocks /\ NotEmpty(live[j])
        /\ last \in first .. last
    BY <2>1 DEF Chain
  <2>3. \A c \in DOMAIN blocks :
            NotEmpty(c)' => \/ \E j \in first .. last : live[j] = c
                            \/ c = into' /\ producer' \in {"moving", "linking"}
    <3>1. SUFFICES ASSUME NEW c \in DOMAIN blocks, NotEmpty(c)'
                   PROVE  \/ \E j \in first .. last : live[j] = c
                          \/ c = into' /\ producer' \in {"moving", "linking"}
      OBVIOUS
    <3>2. CASE c = b /\ b = tailBlock
      BY <2>1, <2>2, <3>2 DEF Chain
    <3>3. CASE c = b /\ b # tailBlock
      BY <1>1, <3>3
    <3>4. CASE c # b
      BY <1>1, <1>9, <2>1, <3>1, <3>4 DEF Chain
    <3> QED BY <3>2, <3>3, <3>4
  <2>4. \A j \in first + 1 .. last : NotEmpty(live[j])'
    BY <1>9, <2>2
  <2>5. \A j \in first .. last - 1 : blocks'[live[j]].next = live[j + 1]
    BY <1>7, <2>1, <2>2 DEF Chain
  <2>6. Chain(live, first, last)'
    BY <1>1, <1>5, <2>1, <2>3, <2>4, <2>5 DEF Chain, Entering
  <2> QED BY <2>6 DEF ChainInv
<1>13. ProducerInv'
  <2>1. b # tailBlock => Filled(blocks'[b]) = 1
    <3>1. b # tailBlock => Filled(blocks[b]) = 0
      BY <1>b, <1>3, EmptyOrNot DEF NotEmpty
    <3> QED BY <1>8, <3>1
  <2>2. blocks'[tailBlock].next = blocks[tailBlock].next
    BY <1>b, <1>7
  <2> QED BY <1>1, <1>2, <1>3, <2>1, <2>2 DEF ProducerInv, Entering
<1>14. ConsumerInv'
  <2>1. frontBlock # tailBlock => b # frontBlock
    BY <1>1, EnteredIsNotFront DEF Open, Entering
  <2>2. ~ NotEmpty(frontBlock) /\ frontBlock # tailBlock => ~ NotEmpty(frontBlock)'
    <3>1. frontBlock # tailBlock => (NotEmpty(frontBlock)' <=> NotEmpty(frontBlock))
      BY <1>1, <1>b, <1>5, <2>1 DEF NotEmpty
    <3> QED BY <3>1
  <2>3. blocks'[frontBlock].next = blocks[frontBlock].next
    BY <1>b, <1>7
  <2>4. \A c \in DOMAIN blocks : NotEmpty(c) => NotEmpty(c)'
    BY <1>9
  <2> QED BY <1>1, <1>2, <1>6, <2>2, <2>3, <2>4, ConsumerKept DEF Open
<1>15. Tally'
  BY <1>1, <1>2, <1>6, TallyKept DEF Open, Available, Owes, Granting, Announcing
<1> QED BY <1>5, <1>10, <1>11, <1>12, <1>13, <1>14, <1>15 DEF Open

LEMMA MoveToBlockKeeps == ASSUME Open, MoveToBlock PROVE Open'
<1>1. /\ UNCHANGED <<semaphoreVars, consumerVars, blocks, frontBlock, largestBlockSize, into>>
      /\ producer = "moving" /\ producer' = "signalling" /\ item' = item
      /\ tailBlock' = into
  BY DEF MoveToBlock, ProducerTo
<1>2. /\ UNCHANGED <<from, consumer, waiter, signaller, count, operation>>
      /\ \A fields : Kept(fields)
  BY <1>1, AllKept DEF consumerVars, semaphoreVars
<1>3. /\ into \in DOMAIN blocks /\ BlockInv(blocks[into]) /\ item \in Values
      /\ into # tailBlock /\ blocks[tailBlock].next = into /\ Filled(blocks[into]) = 1
      /\ signaller # "posting"
  BY <1>1 DEF Open, BlocksInv, ProducerInv
<1>4. NotEmpty(into)
  BY <1>3, EmptyOrNot DEF NotEmpty
<1>5. BlocksInv'
  BY <1>1, <1>2, <1>3, BlocksStay DEF Open, BlocksInv
<1>6. OwnedInv' /\ Circle'
  BY <1>1, <1>2, OwnedKept, CircleKept DEF Open
<1>7. ChainInv'
  <2>1. PICK live, first, last : Chain(live, first, last)
    BY DEF Open, ChainInv
  <2> DEFINE end == last + 1
  <2>2. /\ first \in Nat /\ last \in Nat /\ first <= last /\ end \in Nat /\ first <= end
        /\ live \in [Nat -> DOMAIN blocks] /\ last \in first .. last
        /\ \A j \in first .. end : j = end \/ j \in first .. last
        /\ \A j \in first .. last : j \in Nat /\ j # end /\ j \in first .. end
        /\ end \in first .. end /\ end # first
    BY <2>1 DEF Chain
  <2>3. PICK more \in [Nat -> DOMAIN blocks] :
            more[end] = into /\ \A j \in first .. last : more[j] = live[j]
    <3> DEFINE more == [live EXCEPT ![end] = into]
    <3>1. /\ more \in [Nat -> DOMAIN blocks]
          /\ more[end] = into /\ \A j \in first .. last : more[j] = live[j]
      BY <1>3, <2>2
    <3> QED BY <3>1
  <2>4. more[first] = frontBlock' /\ more[end] = tailBlock'
    BY <1>1, <2>1, <2>2, <2>3 DEF Chain
  <2>5. \A j \in first .. end - 1 : blocks[more[j]].next = more[j + 1]
    <3>1. TAKE j \in first .. end - 1
    <3>2. CASE j = last
      BY <1>3, <2>1, <2>2, <2>3, <3>2 DEF Chain
    <3>3. CASE j # last
      <4>1. j \in first .. last - 1 /\ j \in first .. last /\ j + 1 \in first .. last
        BY <2>2, <3>3
      <4> QED BY <2>1, <2>3, <4>1 DEF Chain
    <3> QED BY <3>2, <3>3
  <2>6. \A j \in first + 1 .. end : NotEmpty(more[j])
    <3>1. TAKE j \in first + 1 .. end
    <3>2. CASE j = end
      BY <1>4, <2>3, <3>2
    <3>3. CASE j # end
      <4>1. j \in first + 1 .. last /\ j \in first .. last
        BY <2>2, <3>3
      <4> QED BY <2>1, <2>3, <4>1 DEF Chain
    <3> QED BY <3>2, <3>3
  <2>7. \A j \in first .. last : live[j] # into
    BY <1>1, <1>3, <2>1 DEF Chain, Entering
  <2>8. \A j, l \in first .. end : more[j] = more[l] => j = l
    BY <2>1, <2>2, <2>3, <2>7 DEF Chain
  <2>9. \A b \in DOMAIN blocks : NotEmpty(b) => \E j \in first .. end : more[j] = b
    BY <2>1, <2>2, <2>3 DEF Chain
  <2>10. NotEmpty(into)' <=> NotEmpty(into)
    BY <1>1 DEF NotEmpty
  <2>11. Chain(more, first, end)'
    BY <1>1, <2>2, <2>3, <2>4, <2>5, <2>6, <2>8, <2>9 DEF Chain, NotEmpty
  <2> QED BY <2>11 DEF ChainInv
<1>8. ProducerInv'
  BY <1>1, <1>2, <1>3 DEF ProducerInv, Entering
<1>9. ConsumerInv'
  <2>1. into # frontBlock
    BY <1>1, <1>3, EnteredIsNotFront DEF Open, Entering
  <2> QED BY <1>1, <1>2, <2>1, ConsumerKept DEF Open, NotEmpty
<1>10. Tally'
  BY <1>1, <1>2, TallyKept DEF Open, Available, Owes, Granting, Announcing
<1> QED BY <1>5, <1>6, <1>7, <1>8, <1>9, <1>10 DEF Open

LEMMA RefuseKeeps == ASSUME Open, Refuse PROVE Open'
<1>1. /\ UNCHANGED <<semaphoreVars, consumerVars, blockVars, into>>
      /\ producer = "full" /\ producer' = "idle"
  BY DEF Refuse, ProducerTo
<1>2. /\ UNCHANGED <<blocks, frontBlock, tailBlock, largestBlockSize, from, consumer, waiter,
                     signaller, count, operation>>
      /\ \A fields : Kept(fields)
  BY <1>1, AllKept DEF blockVars, consumerVars, semaphoreVars
<1>3. BlocksInv'
  BY <1>1, <1>2, BlocksStay DEF Open, BlocksInv
<1>4. OwnedInv' /\ Circle' /\ ChainInv'
  BY <1>1, <1>2, OwnedKept, CircleKept, ChainKept DEF Open, Entering
<1>5. ProducerInv'
  BY <1>1, <1>2 DEF ProducerInv, Entering
<1>6. ConsumerInv'
  BY <1>1, <1>2, ConsumerStays DEF Open
<1>7. Tally'
  BY <1>1, <1>2, TallyKept DEF Open, Available, Owes, Granting, Announcing
<1> QED BY <1>3, <1>4, <1>5, <1>6, <1>7 DEF Open

LEMMA SignalElementKeeps == ASSUME Open, SemaphoreInv, SignalElement PROVE Open'
<1>1. /\ UNCHANGED <<consumerVars, blockVars, into>>
      /\ producer = "signalling" /\ producer' = "idle"
      /\ count' = count + 1 /\ waiter' = waiter
  BY DEF SignalElement, ProducerTo, Signal
<1>2. /\ UNCHANGED <<blocks, frontBlock, tailBlock, largestBlockSize, from, consumer, operation>>
      /\ \A fields : Kept(fields)
  BY <1>1, AllKept DEF blockVars, consumerVars
<1>3. BlocksInv'
  BY <1>1, <1>2, BlocksStay DEF Open, BlocksInv
<1>4. OwnedInv' /\ Circle' /\ ChainInv'
  BY <1>1, <1>2, OwnedKept, CircleKept, ChainKept DEF Open, Entering
<1>5. ProducerInv'
  BY <1>1, <1>2 DEF ProducerInv, Entering
<1>6. ConsumerInv'
  BY <1>1, <1>2, ConsumerStays DEF Open
<1>7. Tally'
  <2>1. count \in Int
    BY DEF SemaphoreInv, SemaphoreType
  <2>2. Available' = Available + 1
    BY <1>1, <2>1 DEF Available, Owes
  <2>3. Granting' = Granting /\ Announcing = 1 /\ Announcing' = 0
    BY <1>1, <1>2 DEF Granting, Announcing
  <2>4. Available \in Int /\ Granting \in Int
    BY <2>1 DEF Available, Granting
  <2>5. Available' + Granting' + Announcing' = Available + Granting + Announcing
    BY <2>2, <2>3, <2>4
  <2> QED BY <1>2, <2>5, TallyKept DEF Open
<1> QED BY <1>3, <1>4, <1>5, <1>6, <1>7 DEF Open

LEMMA PostElementKeeps == ASSUME Open, PostElement PROVE Open'
<1>1. /\ UNCHANGED <<consumerVars, producerVars, blockVars>>
      /\ signaller' = "idle" /\ UNCHANGED <<count, waiter>>
  BY DEF PostElement, Post
<1>2. /\ UNCHANGED <<blocks, frontBlock, tailBlock, largestBlockSize, from, consumer, operation,
                     producer, item, into>>
      /\ \A fields : Kept(fields)
  BY <1>1, AllKept DEF blockVars, consumerVars, producerVars
<1>3. BlocksInv'
  BY <1>1, <1>2, BlocksStay DEF Open, BlocksInv
<1>4. OwnedInv' /\ Circle' /\ ChainInv'
  BY <1>1, <1>2, OwnedKept, CircleKept, ChainKept DEF Open
<1>5. ProducerInv'
  BY <1>1, <1>2 DEF Open, ProducerInv, Entering, HasRoom, After, NotEmpty
<1>6. ConsumerInv'
  BY <1>1, <1>2, ConsumerStays DEF Open
<1>7. Tally'
  BY <1>1, <1>2, TallyKept DEF Open, Available, Owes, Granting, Announcing
<1> QED BY <1>3, <1>4, <1>5, <1>6, <1>7 DEF Open

\* A new block, as Allocate fills it in.
Filling(size, next) ==
    [NewBlock(size, next) EXCEPT !.data[0] = item, !.tail = 1, !.localTail = 1]

LEMMA FillingIsBlock ==
    ASSUME NEW size \in Nat, size >= 2, NEW next, item \in Values
    PROVE  LET k == Filling(size, next)
           IN  /\ BlockInv(k) /\ k.next = next /\ k.size = size /\ k.front = 0 /\ k.tail = 1
               /\ k.data = [i \in 0 .. size - 1 |-> IF i = 0 THEN item ELSE Raw]
               /\ Filled(k) = 1 /\ \A i \in Slots(k) : Holds(k, i) <=> i = 0
<1> DEFINE k == Filling(size, next)
           data == [i \in 0 .. size - 1 |-> Raw]
           more == [i \in 0 .. size - 1 |-> IF i = 0 THEN item ELSE Raw]
<1>1. [data EXCEPT ![0] = item] = more
  OBVIOUS
<1>2. more \in [0 .. size - 1 -> Values \cup {Raw}]
  OBVIOUS
<1> HIDE DEF more
<1>3. /\ k = [f \in BlockFields |-> k[f]]
      /\ k.size = size /\ k.front = 0 /\ k.tail = 1 /\ k.localFront = 0 /\ k.localTail = 1
      /\ k.next = next /\ k.data = more
  BY <1>1 DEF Filling, NewBlock, BlockFields
<1> HIDE DEF k
<1>4. Indices(size, 0, 1, 0, 1) /\ Behind(0, 1, size) = 1
  BY DEF Indices, Behind
<1>5. BlockInv(k)
  BY <1>2, <1>3, <1>4 DEF BlockInv, Slots
<1>6. Filled(k) = 1
  BY <1>3, <1>4 DEF Filled
<1>7. \A i \in Slots(k) : Holds(k, i) <=> i = 0
  <2>1. \A i \in 0 .. size - 1 : Behind(0, i, size) < 1 <=> i = 0
    BY DEF Behind
  <2> QED BY <1>3, <1>6, <2>1 DEF Holds, Slots
<1> QED BY <1>3, <1>5, <1>6, <1>7 DEF k, more

LEMMA AllocateKeeps == ASSUME Open, SemaphoreInv, Allocate PROVE Open'
<1>0. PICK n \in Nat : DOMAIN blocks = 1 .. n
  BY DEF Open, BlocksInv
<1> DEFINE size == IF largestBlockSize >= MaxBlockSize THEN largestBlockSize
                   ELSE largestBlockSize * 2
           new == n + 1
           k == Filling(size, blocks[tailBlock].next)
<1>c. Cardinality(DOMAIN blocks) + 1 = new
  <2>1. Cardinality(1 .. n) = IF 1 > n THEN 0 ELSE n - 1 + 1
    BY FS_Interval
  <2>2. (IF 1 > n THEN 0 ELSE n - 1 + 1) = n
    OBVIOUS
  <2> QED BY <1>0, <2>1, <2>2
<1>1. /\ UNCHANGED <<semaphoreVars, consumerVars, frontBlock, tailBlock>>
      /\ producer = "full" /\ producer' = "linking" /\ item' = item
      /\ blocks' = [b \in DOMAIN blocks \cup {new} |-> IF b = new THEN k ELSE blocks[b]]
      /\ largestBlockSize' = size /\ into' = new
  BY <1>c DEF Allocate, ProducerTo, Filling
<1>2. UNCHANGED <<from, consumer, waiter, signaller, count, operation>>
  BY <1>1 DEF consumerVars, semaphoreVars
<1>3. /\ size \in Nat /\ size >= 2 /\ item \in Values /\ item # Raw
      /\ tailBlock \in DOMAIN blocks /\ frontBlock \in DOMAIN blocks /\ from \in DOMAIN blocks
      /\ \A b \in DOMAIN blocks : blocks[b].next \in DOMAIN blocks
      /\ signaller # "posting"
  <2>1. largestBlockSize \in Nat /\ largestBlockSize >= 2 /\ MaxBlockSize \in Nat
    BY SizesAssumption DEF Open, BlocksInv
  <2>2. size \in Nat /\ size >= 2
    BY <2>1
  <2> QED BY <1>1, <2>2, SizesAssumption DEF Open, BlocksInv, ProducerInv
<1> HIDE DEF size
<1>4. /\ BlockInv(k) /\ k.next = blocks[tailBlock].next /\ k.size = size
      /\ k.front = 0 /\ k.tail = 1
      /\ k.data = [i \in 0 .. size - 1 |-> IF i = 0 THEN item ELSE Raw]
      /\ Filled(k) = 1 /\ \A i \in Slots(k) : Holds(k, i) <=> i = 0
  BY <1>3, FillingIsBlock
<1> HIDE DEF k
<1>5. /\ DOMAIN blocks' = 1 .. n + 1 /\ DOMAIN blocks' = DOMAIN blocks \cup {new}
      /\ new \notin DOMAIN blocks /\ blocks'[new] = k
      /\ \A b \in DOMAIN blocks : b # new /\ b \in DOMAIN blocks' /\ blocks'[b] = blocks[b]
      /\ n + 1 \in Nat
      /\ blocks' = [b \in DOMAIN blocks' |-> blocks'[b]]
  BY <1>0, <1>1
<1> HIDE DEF new
<1>6. BlocksInv'
  <2>1. \A b \in DOMAIN blocks' : BlockInv(blocks'[b]) /\ blocks'[b].next \in DOMAIN blocks'
    BY <1>3, <1>4, <1>5 DEF Open, BlocksInv
  <2> QED BY <1>1, <1>2, <1>3, <1>5, <2>1 DEF BlocksInv
<1>7. OwnedInv'
  <2>1. ASSUME NEW b \in DOMAIN blocks', NEW i \in Slots(blocks'[b])
        PROVE  blocks'[b].data[i] # Raw <=>
                  \/ /\ Holds(blocks'[b], i)
                     /\ ~ (consumer' = "leaving" /\ b = from' /\ i = blocks'[b].front)
                  \/ producer' = "publishing" /\ b = into' /\ i = blocks'[b].tail
    <3>1. CASE b = new
      <4>1. i \in 0 .. size - 1
        BY <1>4, <1>5, <3>1 DEF Slots
      <4>4. k.data[i] = IF i = 0 THEN item ELSE Raw
        BY <1>4, <4>1
      <4>5. blocks'[b].data[i] = k.data[i]
        BY <1>5, <3>1
      <4>2. blocks'[b].data[i] # Raw <=> i = 0
        BY <1>3, <4>4, <4>5
      <4>3. Holds(blocks'[b], i) <=> i = 0
        BY <1>4, <1>5, <3>1
      <4> QED BY <1>1, <1>2, <1>3, <1>5, <3>1, <4>2, <4>3
    <3>2. CASE b # new
      BY <1>1, <1>2, <1>5, <3>2 DEF Open, OwnedInv, Owned
    <3> QED BY <3>1, <3>2
  <2> QED BY <2>1 DEF OwnedInv, Owned
<1>8. Circle'
  BY <1>1, <1>5 DEF Open, Circle, Outside
<1>9. ChainInv'
  <2>1. PICK live, first, last : Chain(live, first, last)
    BY DEF Open, ChainInv
  <2>2. \A j \in first .. last : live[j] \in DOMAIN blocks
    BY <2>1 DEF Chain
  <2>3. live \in [Nat -> DOMAIN blocks']
    BY <1>5, <2>1 DEF Chain
  <2>4. \A b \in DOMAIN blocks : NotEmpty(b)' <=> NotEmpty(b)
    BY <1>5 DEF NotEmpty
  <2>5. \A j \in first .. last - 1 : blocks'[live[j]].next = live[j + 1]
    <3>1. \A j \in first .. last - 1 : live[j] \in DOMAIN blocks
      BY <2>1 DEF Chain
    <3> QED BY <1>5, <2>1, <3>1 DEF Chain
  <2>6. \A j \in first + 1 .. last : NotEmpty(live[j])'
    <3>1. \A j \in first + 1 .. last : live[j] \in DOMAIN blocks
      BY <2>1 DEF Chain
    <3> QED BY <2>1, <2>4, <3>1 DEF Chain
  <2>7. \A b \in DOMAIN blocks' :
           NotEmpty(b)' => \/ \E j \in first .. last : live[j] = b
                           \/ b = into' /\ producer' \in {"moving", "linking"}
    BY <1>1, <1>5, <2>1, <2>4 DEF Chain
  <2>8. \A j \in first .. last : live[j] # into'
    BY <1>1, <1>5, <2>2
  <2>9. Chain(live, first, last)'
    BY <1>1, <2>1, <2>3, <2>5, <2>6, <2>7, <2>8 DEF Chain
  <2> QED BY <2>9 DEF ChainInv
<1>10. ProducerInv'
  <2>1. \A b \in DOMAIN blocks' : blocks'[b].next # new
    BY <1>3, <1>4, <1>5
  <2>2. blocks'[into'].next = blocks'[tailBlock].next
    BY <1>1, <1>3, <1>4, <1>5
  <2>3. Filled(blocks'[into']) = 1 /\ into' # tailBlock
    BY <1>1, <1>3, <1>4, <1>5
  <2> QED BY <1>1, <1>2, <1>3, <2>1, <2>2, <2>3 DEF ProducerInv, Entering
<1>11. ConsumerInv'
  <2>1. blocks'[from] = blocks[from] /\ blocks'[frontBlock] = blocks[frontBlock]
    BY <1>3, <1>5
  <2> QED BY <1>1, <1>2, <2>1 DEF Open, ConsumerInv, Taking, Wanting, NotEmpty
<1>12. Tally'
  <2>1. ASSUME NEW b \in DOMAIN blocks, NEW i
        PROVE  <<b, i>> \in ElemsOf(blocks') <=> <<b, i>> \in ElemsOf(blocks)
    BY <1>5, IsElem
  <2>2. ASSUME NEW i
        PROVE  <<new, i>> \in ElemsOf(blocks') <=> i = 0
    <3>0. new \in DOMAIN blocks'
      BY <1>5
    <3>4. <<new, i>> \in ElemsOf(blocks')
              <=> i \in Slots(blocks'[new]) /\ blocks'[new].data[i] # Raw
      BY <3>0, IsElem
    <3>1. <<new, i>> \in ElemsOf(blocks') <=> i \in 0 .. size - 1 /\ k.data[i] # Raw
      BY <1>4, <1>5, <3>4 DEF Slots
    <3>2. 0 \in 0 .. size - 1
      BY <1>3
    <3> QED BY <1>3, <1>4, <3>1, <3>2
  <2>3. <<new, 0>> \notin ElemsOf(blocks)
    BY <1>5, ElemIsPair
  <2>4. ElemsOf(blocks') = ElemsOf(blocks) \cup {<<new, 0>>}
    <3>1. ASSUME NEW e \in ElemsOf(blocks)
          PROVE  e \in ElemsOf(blocks')
      <4>1. PICK b \in DOMAIN blocks : \E i : e = <<b, i>>
        BY ElemIsPair
      <4>2. PICK i : e = <<b, i>>
        BY <4>1
      <4> QED BY <2>1, <4>2
    <3>2. ASSUME NEW e \in ElemsOf(blocks')
          PROVE  e \in ElemsOf(blocks) \/ e = <<new, 0>>
      <4>1. PICK b \in DOMAIN blocks' : \E i : e = <<b, i>>
        BY ElemIsPair
      <4>2. PICK i : e = <<b, i>>
        BY <4>1
      <4> QED BY <1>5, <2>1, <2>2, <4>2
    <3>3. <<new, 0>> \in ElemsOf(blocks')
      BY <2>2
    <3> QED BY <3>1, <3>2, <3>3
  <2>5. IsFiniteSet(Elems') /\ Cardinality(Elems') = Cardinality(Elems) + 1
    BY <2>3, <2>4, FS_AddElement DEF Open, Tally, Elems
  <2>6. Announcing = 0 /\ Announcing' = 1
    BY <1>1 DEF Announcing
  <2>7. Available' = Available /\ Granting' = Granting
    BY <1>2 DEF Available, Owes, Granting
  <2>8. Cardinality(Elems) = Available + Granting + 0
    BY <2>6 DEF Open, Tally
  <2>9. Available \in Int /\ Granting \in Int
    BY DEF SemaphoreInv, SemaphoreType, Available, Granting
  <2> QED BY <2>5, <2>6, <2>7, <2>8, <2>9 DEF Tally
<1> QED BY <1>6, <1>7, <1>8, <1>9, <1>10, <1>11, <1>12 DEF Open

LEMMA LinkKeeps == ASSUME Open, Link PROVE Open'
<1> DEFINE b == tailBlock
           k == [blocks[b] EXCEPT !.next = into]
<1>1. /\ UNCHANGED <<semaphoreVars, consumerVars, frontBlock, tailBlock, largestBlockSize, into>>
      /\ producer = "linking" /\ producer' = "moving" /\ item' = item
      /\ blocks' = [blocks EXCEPT ![b] = k]
  BY DEF Link, ProducerTo
<1>2. UNCHANGED <<from, consumer, waiter, signaller, count, operation>>
  BY <1>1 DEF consumerVars, semaphoreVars
<1>b. /\ b \in DOMAIN blocks /\ BlockInv(blocks[b]) /\ into \in DOMAIN blocks
      /\ into # b /\ item \in Values /\ signaller # "posting"
      /\ blocks[into].next = blocks[b].next /\ Filled(blocks[into]) = 1
      /\ \A c \in DOMAIN blocks : blocks[c].next # into
  BY <1>1 DEF Open, BlocksInv, ProducerInv
<1>3. BlockInv(k) /\ Others(k, blocks[b], "next") /\ k.next = into
  <2>1. Others(k, blocks[b], "next") /\ k.next = into
    BY <1>b DEF BlockInv, BlockFields, Others
  <2> HIDE DEF k
  <2>2. /\ k.size = blocks[b].size /\ k.front = blocks[b].front /\ k.tail = blocks[b].tail
        /\ k.localFront = blocks[b].localFront /\ k.localTail = blocks[b].localTail
        /\ k.data = blocks[b].data
    BY <2>1 DEF Others, BlockFields
  <2> QED BY <1>b, <2>1, <2>2 DEF BlockInv, Slots, Others
<1> HIDE DEF k
<1>4. /\ BlocksInv'
      /\ \A fields : "next" \notin fields /\ fields \subseteq BlockFields => Kept(fields)
      /\ DOMAIN blocks' = DOMAIN blocks
      /\ blocks'[b] = k /\ \A c \in DOMAIN blocks : c # b => blocks'[c] = blocks[c]
  <2>1. "next" \in BlockFields
    BY DEF BlockFields
  <2> QED BY <1>1, <1>2, <1>b, <1>3, <2>1, BlockChanges DEF Open, BlocksInv
<1>5. /\ Kept({"size", "front", "tail", "data"}) /\ Kept({"size", "data"})
      /\ Kept({"front", "localTail"}) /\ Kept({"front", "tail"})
  BY <1>4 DEF BlockFields
<1>6. /\ \A c \in DOMAIN blocks : c # b => blocks'[c].next = blocks[c].next
      /\ blocks'[b].next = into
      /\ \A c \in DOMAIN blocks : NotEmpty(c)' <=> NotEmpty(c)
  BY <1>3, <1>4, <1>5 DEF Kept, NotEmpty
<1>7. OwnedInv'
  BY <1>1, <1>2, <1>5, OwnedKept DEF Open
<1>8. Circle'
  <2>1. SUFFICES ASSUME NEW c \in DOMAIN blocks, NEW d \in DOMAIN blocks,
                        blocks'[c].next = blocks'[d].next
                 PROVE  c = d
    BY <1>4 DEF Circle
  <2>2. ASSUME NEW e \in DOMAIN blocks, e # b
        PROVE  blocks'[e].next # into
    BY <1>b, <1>6, <2>2
  <2>3. ASSUME NEW e \in DOMAIN blocks, e # b, e # into
        PROVE  blocks[e].next # blocks[into].next
    <3>1. ~ Outside(e) /\ ~ Outside(b)
      BY <1>b, <2>3 DEF Outside
    <3> QED BY <1>b, <2>3, <3>1 DEF Open, Circle
  <2>4. CASE c = b \/ d = b
    BY <1>6, <2>1, <2>2, <2>4
  <2>5. CASE c # b /\ d # b /\ (c = into \/ d = into)
    BY <1>6, <2>1, <2>3, <2>5
  <2>6. CASE c # b /\ d # b /\ c # into /\ d # into
    BY <1>6, <2>1, <2>6 DEF Open, Circle, Outside
  <2> QED BY <2>4, <2>5, <2>6
<1>9. ChainInv'
  <2>1. PICK live, first, last : Chain(live, first, last)
    BY DEF Open, ChainInv
  <2>2. \A j \in first .. last - 1 :
            live[j] \in DOMAIN blocks /\ live[j] # b /\ blocks'[live[j]].next = live[j + 1]
    <3>1. TAKE j \in first .. last - 1
    <3>2. j \in first .. last /\ last \in first .. last /\ j # last
      BY <2>1 DEF Chain
    <3>3. live[j] \in DOMAIN blocks /\ live[j] # b
      BY <2>1, <3>2 DEF Chain
    <3> QED BY <1>6, <2>1, <3>3 DEF Chain
  <2>3. \A j \in first + 1 .. last : NotEmpty(live[j])'
    <3>1. \A j \in first + 1 .. last : live[j] \in DOMAIN blocks /\ NotEmpty(live[j])
      BY <2>1 DEF Chain
    <3> QED BY <1>6, <3>1
  <2>4. Chain(live, first, last)'
    BY <1>1, <1>4, <1>6, <2>1, <2>2, <2>3 DEF Chain, Entering
  <2> QED BY <2>4 DEF ChainInv
<1>10. ProducerInv'
  <2>1. blocks'[into] = blocks[into]
    BY <1>b, <1>4
  <2> QED BY <1>1, <1>2, <1>b, <1>6, <2>1 DEF ProducerInv, Entering
<1>11. ConsumerInv'
  <2>1. frontBlock \in DOMAIN blocks
    BY DEF Open, BlocksInv
  <2> QED BY <1>1, <1>2, <1>5, <1>6, <2>1, ConsumerKept DEF Open
<1>12. Tally'
  BY <1>1, <1>2, <1>5, TallyKept DEF Open, Available, Owes, Granting, Announcing
<1> QED BY <1>4, <1>7, <1>8, <1>9, <1>10, <1>11, <1>12 DEF Open

-----------------------------------------------------------------------------
(* The consumer.                                                             *)

\* A step of the consumer that leaves the blocks alone.
LEMMA OnlyConsumer ==
    ASSUME Open, UNCHANGED <<producerVars, signaller, blockVars>>, from' \in DOMAIN blocks,
           consumer # "leaving", consumer' # "leaving", ConsumerInv',
           Available' + Granting' = Available + Granting, SemaphoreInv, SemaphoreInv'
    PROVE  Open'
<1>1. /\ UNCHANGED <<blocks, frontBlock, tailBlock, largestBlockSize, producer, item, into>>
      /\ \A fields : Kept(fields)
  BY AllKept DEF blockVars, producerVars
<1>2. BlocksInv'
  BY <1>1, BlocksStay DEF Open, BlocksInv
<1>3. OwnedInv' /\ Circle' /\ ChainInv'
  BY <1>1, OwnedKept, CircleKept, ChainKept DEF Open
<1>4. ProducerInv'
  BY <1>1, ProducerKept DEF Open
<1>5. Tally'
  <2>1. Announcing' = Announcing
    BY <1>1 DEF Announcing
  <2> QED BY <1>1, <2>1, TallyKept DEF Open
<1> QED BY <1>2, <1>3, <1>4, <1>5 DEF Open

\* The wait that an operation begins with keeps the number of elements that are
\* announced, and what it was granted.
LEMMA CallWaitKeeps ==
    ASSUME Open, SemaphoreInv, SemaphoreInv', NEW o \in {"dequeue", "pop"}, NEW p,
           CallWait(o, p)
    PROVE  Open'
<1>1. /\ consumer = "idle" /\ consumer' = "waiting" /\ operation' = o
      /\ UNCHANGED <<blockVars, producerVars, from>>
      /\ waiter = "idle" /\ waiter' \in {"taking", "refused", "spinning"}
      /\ UNCHANGED <<count, posts, signaller>>
  BY DEF CallWait, Wait
<1>2. from \in DOMAIN blocks /\ UNCHANGED <<blocks, frontBlock, tailBlock>>
  BY <1>1 DEF Open, BlocksInv, blockVars
<1>3. Available' + Granting' = Available + Granting
  BY <1>1 DEF Available, Owes, Granting
<1>4. ConsumerInv'
  BY <1>1, <1>2 DEF ConsumerInv, Taking
<1> QED BY <1>1, <1>2, <1>3, <1>4, OnlyConsumer

LEMMA WaiterStepTakes ==
    ASSUME SemaphoreInv, WaiterStep, consumer = "waiting", consumer' = "waiting"
    PROVE  Available' + Granting' = Available + Granting
<1> USE DEF SemaphoreInv, SemaphoreType, Available, Owes, Granting, WaiterTo
<1>1. CASE TakeOne BY <1>1 DEF TakeOne
<1>2. CASE SpinSees BY <1>2 DEF SpinSees
<1>3. CASE SpinEnds BY <1>3 DEF SpinEnds
<1>4. CASE Commit BY <1>4 DEF Commit
<1>5. CASE Wake BY <1>5 DEF Wake
<1>6. CASE TimeOut BY <1>6 DEF TimeOut
<1>7. CASE Restore BY <1>7 DEF Restore
<1>8. CASE Retake BY <1>8 DEF Retake
<1>9. CASE PollFinds BY <1>9 DEF PollFinds
<1>10. CASE PollMisses BY <1>10 DEF PollMisses
<1> QED BY <1>1, <1>2, <1>3, <1>4, <1>5, <1>6, <1>7, <1>8, <1>9, <1>10 DEF WaiterStep

LEMMA WaiterStepGoesOn ==
    ASSUME WaiterStep
    PROVE  waiter \notin {"idle", "granted"} /\ waiter' # "idle" /\ signaller' = signaller
  BY DEF WaiterStep, TakeOne, SpinSees, SpinEnds, Commit, Wake, TimeOut, Restore, Retake,
         PollFinds, PollMisses, WaiterTo

LEMMA WaitingKeeps ==
    ASSUME Open, SemaphoreInv, SemaphoreInv', Waiting
    PROVE  Open'
<1>1. WaiterStep /\ UNCHANGED <<blockVars, producerVars, consumerVars>>
  BY DEF Waiting
<1>2. waiter \notin {"idle", "granted"} /\ waiter' # "idle" /\ signaller' = signaller
  BY <1>1, WaiterStepGoesOn
<1>3. UNCHANGED <<blocks, frontBlock, tailBlock, consumer, operation, from>>
  BY <1>1 DEF blockVars, consumerVars
<1>4. consumer = "waiting" /\ from \in DOMAIN blocks
  BY <1>2 DEF Open, ConsumerInv, Taking, BlocksInv
<1>5. ConsumerInv'
  BY <1>2, <1>3, <1>4 DEF Open, ConsumerInv, Taking
<1>6. Available' + Granting' = Available + Granting
  BY <1>1, <1>3, <1>4, WaiterStepTakes
<1> QED BY <1>1, <1>2, <1>3, <1>4, <1>5, <1>6, OnlyConsumer

LEMMA RefusedKeeps ==
    ASSUME Open, SemaphoreInv, SemaphoreInv', Refused
    PROVE  Open'
<1>1. /\ waiter = "refused" /\ waiter' = "idle" /\ UNCHANGED <<count, posts, signaller>>
      /\ consumer = "waiting" /\ consumer' = "idle" /\ operation' = "none"
      /\ UNCHANGED <<blockVars, producerVars, from>>
  BY DEF Refused, ConsumerTo, Return
<1>2. from \in DOMAIN blocks /\ UNCHANGED <<blocks, frontBlock, tailBlock>>
  BY <1>1 DEF Open, BlocksInv, blockVars
<1>3. Available' + Granting' = Available + Granting
  BY <1>1 DEF Available, Owes, Granting
<1>4. ConsumerInv'
  BY <1>1, <1>2 DEF ConsumerInv, Taking
<1> QED BY <1>1, <1>2, <1>3, <1>4, OnlyConsumer

\* What an operation begins with, when its wait, if it has one, was granted.
LEMMA BeginKeeps ==
    ASSUME Open, SemaphoreInv, NEW o \in {"peek", "dequeue", "pop"}, Begin(o),
           UNCHANGED semaphoreVars, consumer # "leaving",
           waiter = IF o = "peek" THEN "idle" ELSE "granted"
    PROVE  Open'
<1>1. /\ operation' = o /\ from' = frontBlock
      /\ consumer' = IF Wanting(frontBlock) THEN "reading" ELSE "looking"
      /\ UNCHANGED <<blockVars, producerVars>>
      /\ UNCHANGED <<count, posts, signaller, waiter, patience>>
  BY DEF Begin, Wanting, semaphoreVars
<1>2. /\ frontBlock \in DOMAIN blocks /\ UNCHANGED <<blocks, frontBlock, tailBlock>>
      /\ BlockInv(blocks[frontBlock])
  BY <1>1 DEF Open, BlocksInv, blockVars
<1>3. Available' + Granting' = Available + Granting
  BY <1>1 DEF Available, Owes, Granting
<1>4. Wanting(frontBlock) => NotEmpty(frontBlock)
  BY <1>2, EmptyOrNot DEF Wanting, NotEmpty
<1>5. ConsumerInv'
  BY <1>1, <1>2, <1>4 DEF ConsumerInv, Taking, Wanting, NotEmpty
<1>6. SemaphoreInv'
  BY <1>1 DEF SemaphoreInv, SemaphoreType, Available, Owes, Posted
<1> QED BY <1>1, <1>2, <1>3, <1>5, <1>6, OnlyConsumer

LEMMA GrantedKeeps == ASSUME Open, SemaphoreInv, Granted PROVE Open'
<1>1. /\ consumer = "waiting" /\ waiter = "granted" /\ Begin(operation)
      /\ UNCHANGED semaphoreVars
  BY DEF Granted
<1>2. operation \in {"dequeue", "pop"}
  BY <1>1 DEF Open, ConsumerInv, Taking
<1> QED BY <1>1, <1>2, BeginKeeps

LEMMA PeekKeeps == ASSUME Open, SemaphoreInv, Peek PROVE Open'
<1>1. consumer = "idle" /\ Begin("peek") /\ UNCHANGED semaphoreVars
  BY DEF Peek
<1>2. waiter = "idle"
  BY <1>1 DEF Open, ConsumerInv
<1> QED BY <1>1, <1>2, BeginKeeps

LEMMA CompareKeeps == ASSUME Open, SemaphoreInv, Compare PROVE Open'
<1>1. /\ from # tailBlock /\ consumer = "comparing" /\ consumer' = "lookingAgain"
      /\ operation' = operation
      /\ UNCHANGED <<blockVars, producerVars, from>>
      /\ UNCHANGED <<count, posts, signaller, waiter, patience>>
  BY DEF Compare, ConsumerTo, semaphoreVars
<1>2. from \in DOMAIN blocks /\ UNCHANGED <<blocks, frontBlock, tailBlock>>
  BY <1>1 DEF Open, BlocksInv, blockVars
<1>3. Available' + Granting' = Available + Granting
  BY <1>1 DEF Available, Owes, Granting
<1>4. ConsumerInv'
  BY <1>1, <1>2 DEF Open, ConsumerInv, Taking
<1>5. SemaphoreInv'
  BY <1>1 DEF SemaphoreInv, SemaphoreType, Available, Owes, Posted
<1> QED BY <1>1, <1>2, <1>3, <1>4, <1>5, OnlyConsumer

LEMMA FindEmptyKeeps == ASSUME Open, SemaphoreInv, FindEmpty PROVE Open'
<1>1. /\ from = tailBlock /\ consumer = "comparing"
      /\ consumer' = IF operation = "peek" THEN "idle" ELSE "failed"
      /\ operation' = IF consumer' = "idle" THEN "none" ELSE operation
      /\ UNCHANGED <<blockVars, producerVars, from>>
      /\ UNCHANGED <<count, posts, signaller, waiter, patience>>
  BY DEF FindEmpty, ConsumerTo, semaphoreVars
<1>2. from \in DOMAIN blocks /\ UNCHANGED <<blocks, frontBlock, tailBlock>>
  BY <1>1 DEF Open, BlocksInv, blockVars
<1>3. operation = "peek" /\ waiter = "idle"
  BY <1>1 DEF Open, ConsumerInv, Taking
<1>4. Available' + Granting' = Available + Granting
  BY <1>1, <1>3 DEF Available, Owes, Granting
<1>5. ConsumerInv'
  BY <1>1, <1>3 DEF ConsumerInv, Taking
<1>6. SemaphoreInv'
  BY <1>1 DEF SemaphoreInv, SemaphoreType, Available, Owes, Posted
<1> QED BY <1>1, <1>2, <1>3, <1>4, <1>5, <1>6, OnlyConsumer

\* What a wait was granted is in another block if it is not in the first: only one
\* element can be on its way, the one that the producer has yet to announce.
LEMMA FoundElsewhere ==
    ASSUME Open, SemaphoreInv, waiter = "granted", consumer # "leaving",
           ~ NotEmpty(frontBlock)
    PROVE  frontBlock # tailBlock
<1>1. SUFFICES ASSUME frontBlock = tailBlock
               PROVE  FALSE
  OBVIOUS
<1>2. PICK live, first, last : Chain(live, first, last)
  BY DEF Open, ChainInv
<1>3. first \in first .. last /\ last \in first .. last
  BY <1>2 DEF Chain
<1>4. first = last
  BY <1>1, <1>2, <1>3 DEF Chain
<1>5. \A j \in first .. last : live[j] = frontBlock
  BY <1>2, <1>4 DEF Chain
<1>6. \A b \in DOMAIN blocks : NotEmpty(b) => b = into /\ producer \in {"moving", "linking"}
  BY <1>2, <1>5 DEF Chain
<1>7. /\ into \in DOMAIN blocks /\ BlockInv(blocks[into])
      /\ \A b \in DOMAIN blocks : BlockInv(blocks[b])
  BY DEF Open, BlocksInv
<1>8. ASSUME NEW b \in DOMAIN blocks, NEW i, <<b, i>> \in Elems
      PROVE  /\ b = into /\ Announcing = 1
             /\ i = IF producer = "publishing" THEN blocks[into].tail ELSE blocks[into].front
  <2>1. i \in Slots(blocks[b]) /\ blocks[b].data[i] # Raw
    BY <1>8, IsElem DEF Elems
  <2>2. \/ Holds(blocks[b], i)
        \/ producer = "publishing" /\ b = into /\ i = blocks[b].tail
    BY <2>1 DEF Open, OwnedInv, Owned
  <2>3. CASE Holds(blocks[b], i)
    <3>1. Filled(blocks[b]) # 0
      <4> DEFINE k == blocks[b]
      <4>1. i \in 0 .. k.size - 1 /\ Indices(k.size, k.front, k.tail, k.localFront, k.localTail)
        BY <1>7, <2>1 DEF BlockInv, Slots
      <4>2. Holds(k, i)
        BY <2>3
      <4> HIDE DEF k
      <4>3. Behind(k.front, i, k.size) >= 0
        BY <4>1 DEF Indices, Behind
      <4>4. Filled(k) # 0
        BY <4>1, <4>2, <4>3 DEF Holds, Indices, Behind
      <4> QED BY <4>4 DEF k
    <3>2. NotEmpty(b)
      BY <1>7, <3>1, EmptyOrNot DEF NotEmpty
    <3>3. b = into /\ producer \in {"moving", "linking"}
      BY <1>6, <3>2
    <3>4. Filled(blocks[into]) = 1
      BY <3>3 DEF Open, ProducerInv
    <3>5. i = blocks[into].front
      <4> DEFINE k == blocks[into]
      <4>1. i \in 0 .. k.size - 1 /\ Indices(k.size, k.front, k.tail, k.localFront, k.localTail)
        BY <1>7, <2>1, <3>3 DEF BlockInv, Slots
      <4>2. Behind(k.front, i, k.size) < 1
        BY <2>3, <3>3, <3>4 DEF Holds
      <4> HIDE DEF k
      <4>3. i = k.front
        BY <4>1, <4>2 DEF Indices, Behind
      <4> QED BY <4>3 DEF k
    <3> QED BY <3>3, <3>5 DEF Announcing
  <2>4. CASE producer = "publishing" /\ b = into /\ i = blocks[b].tail
    BY <2>4 DEF Announcing
  <2> QED BY <2>2, <2>3, <2>4
<1> DEFINE slot == IF producer = "publishing" THEN blocks[into].tail ELSE blocks[into].front
<1>9. Elems \subseteq {<<into, slot>>} /\ (Elems # {} => Announcing = 1)
  <2>1. ASSUME NEW e \in Elems
        PROVE  e = <<into, slot>> /\ Announcing = 1
    <3>1. PICK b \in DOMAIN blocks : \E i : e = <<b, i>>
      BY ElemIsPair DEF Elems
    <3>2. PICK i : e = <<b, i>>
      BY <3>1
    <3> QED BY <1>8, <3>2
  <2> QED BY <2>1
<1>10. Cardinality(Elems) <= Announcing
  <2>1. CASE Elems = {}
    BY <2>1, FS_EmptySet DEF Announcing
  <2>2. CASE Elems # {}
    <3>1. Elems = {<<into, slot>>} /\ Announcing = 1
      BY <1>9, <2>2
    <3>2. Cardinality(Elems) = 1
      BY <3>1, FS_Singleton
    <3> QED BY <3>1, <3>2
  <2> QED BY <2>1, <2>2
<1>11. Cardinality(Elems) = Available + 1 + Announcing
  BY DEF Open, Tally, Granting
<1>12. Available \in Int /\ Available >= 0 /\ Announcing \in Int
  BY DEF SemaphoreInv, SemaphoreType, Available, Announcing
<1> QED BY <1>10, <1>11, <1>12

\* The tail of a block is looked at.
LEMMA TailLooked ==
    ASSUME BlocksInv, NEW b \in DOMAIN blocks,
           blocks' = [blocks EXCEPT ![b].localTail = blocks[b].tail],
           UNCHANGED <<frontBlock, tailBlock, largestBlockSize, into>>,
           from' \in DOMAIN blocks
    PROVE  /\ BlocksInv'
           /\ \A fields : "localTail" \notin fields /\ fields \subseteq BlockFields
                              => Kept(fields)
           /\ blocks'[b].localTail = blocks[b].tail
           /\ \A c \in DOMAIN blocks : c # b => blocks'[c] = blocks[c]
<1> DEFINE k == [blocks[b] EXCEPT !.localTail = blocks[b].tail]
<1>1. BlockInv(k) /\ Others(k, blocks[b], "localTail") /\ k.localTail = blocks[b].tail
  BY TailIsRead DEF BlocksInv
<1>2. blocks' = [blocks EXCEPT ![b] = k]
  OBVIOUS
<1> HIDE DEF k
<1>3. k.next = blocks[b].next /\ "localTail" \in BlockFields
  BY <1>1 DEF Others, BlockFields
<1> QED BY <1>1, <1>2, <1>3, BlockChanges DEF BlocksInv

\* A step of the consumer that looks at a tail, and changes nothing else.
LEMMA OnlyLooks ==
    ASSUME Open, NEW b \in DOMAIN blocks,
           blocks' = [blocks EXCEPT ![b].localTail = blocks[b].tail],
           UNCHANGED <<producerVars, frontBlock, tailBlock, largestBlockSize>>,
           UNCHANGED semaphoreVars,
           from' \in DOMAIN blocks, consumer # "leaving", consumer' # "leaving", ConsumerInv'
    PROVE  Open'
<1>1. UNCHANGED <<producer, item, into, waiter, signaller, count>>
  BY DEF producerVars, semaphoreVars
<1>2. /\ BlocksInv'
      /\ \A fields : "localTail" \notin fields /\ fields \subseteq BlockFields
                         => Kept(fields)
  BY <1>1, TailLooked DEF Open
<1>3. /\ Kept({"size", "front", "tail", "data"}) /\ Kept({"next"}) /\ Kept({"size", "data"})
      /\ Kept({"front", "tail", "next"}) /\ Kept({"size", "tail", "localFront", "next"})
      /\ Kept({"front"})
  BY <1>2 DEF BlockFields
<1>4. OwnedInv' /\ Circle' /\ ChainInv'
  BY <1>1, <1>3, OwnedKept, CircleKept, ChainKept DEF Open
<1>5. ProducerInv'
  <2>1. blocks'[into].front = blocks[into].front
    BY <1>3 DEF Open, BlocksInv, Kept
  <2> QED BY <1>1, <1>3, <2>1, ProducerKept DEF Open
<1>6. Tally'
  BY <1>1, <1>3, TallyKept DEF Open, Available, Owes, Granting, Announcing
<1> QED BY <1>2, <1>4, <1>5, <1>6 DEF Open

\* The first block is looked at again, once or twice.
LEMMA LookKeeps == ASSUME Open, SemaphoreInv, Look \/ LookAgain PROVE Open'
<1>1. /\ consumer \in {"looking", "lookingAgain"}
      /\ consumer' = IF NotEmpty(from) THEN "reading"
                     ELSE IF consumer = "looking" THEN "comparing" ELSE "advancing"
      /\ operation' = operation
      /\ blocks' = [blocks EXCEPT ![from].localTail = blocks[from].tail]
      /\ UNCHANGED <<producerVars, semaphoreVars, frontBlock, tailBlock, largestBlockSize, from>>
  <2>1. CASE Look BY <2>1 DEF Look, ConsumerTo
  <2>2. CASE LookAgain BY <2>2 DEF LookAgain, ConsumerTo
  <2> QED BY <2>1, <2>2
<1>2. UNCHANGED <<waiter, signaller, count, into>>
  BY <1>1 DEF semaphoreVars, producerVars
<1>3. /\ from \in DOMAIN blocks /\ from = frontBlock
      /\ consumer = "lookingAgain" => frontBlock # tailBlock
      /\ operation \in {"peek", "dequeue", "pop"}
      /\ IF operation = "peek" THEN waiter = "idle" ELSE waiter = "granted"
  BY <1>1 DEF Open, BlocksInv, ConsumerInv, Taking
<1>4. /\ \A fields : "localTail" \notin fields /\ fields \subseteq BlockFields
                         => Kept(fields)
      /\ blocks'[from].localTail = blocks[from].tail
  BY <1>1, <1>2, <1>3, TailLooked DEF Open
<1>5. blocks'[from].front = blocks[from].front /\ blocks'[from].tail = blocks[from].tail
  <2>1. Kept({"front", "tail"})
    BY <1>4 DEF BlockFields
  <2> QED BY <1>3, <2>1 DEF Kept
<1>6. /\ Wanting(from)' <=> NotEmpty(from)
      /\ NotEmpty(from)' <=> NotEmpty(from)
      /\ NotEmpty(frontBlock)' <=> NotEmpty(frontBlock)
  BY <1>1, <1>3, <1>4, <1>5 DEF Wanting, NotEmpty
<1>7. ~ NotEmpty(from) /\ operation # "peek" => frontBlock # tailBlock
  BY <1>1, <1>3, FoundElsewhere
<1>8. ConsumerInv'
  BY <1>1, <1>2, <1>3, <1>6, <1>7 DEF ConsumerInv, Taking
<1> QED BY <1>1, <1>3, <1>8, OnlyLooks

\* The block after the first is the next that was entered.
LEMMA NextIsLive ==
    ASSUME Open, frontBlock # tailBlock
    PROVE  NotEmpty(blocks[frontBlock].next)
<1>1. PICK live, first, last : Chain(live, first, last)
  BY DEF Open, ChainInv
<1>2. /\ first \in Nat /\ last \in Nat /\ first # last /\ first <= last
  BY <1>1 DEF Chain
<1>3. first \in first .. last - 1 /\ first + 1 \in first + 1 .. last
  BY <1>2
<1> QED BY <1>1, <1>3 DEF Chain

LEMMA AdvanceKeeps == ASSUME Open, SemaphoreInv, Advance PROVE Open'
<1> DEFINE next == blocks[from].next
<1>1. /\ consumer = "advancing"
      /\ consumer' = IF operation = "peek" THEN "reading" ELSE "releasing"
      /\ operation' = operation /\ from' = next
      /\ blocks' = IF operation = "peek" THEN blocks
                   ELSE [blocks EXCEPT ![next].localTail = blocks[next].tail]
      /\ UNCHANGED <<semaphoreVars, producerVars, frontBlock, tailBlock, largestBlockSize>>
  BY DEF Advance, ConsumerTo
<1>2. UNCHANGED <<waiter, signaller, count, into>>
  BY <1>1 DEF semaphoreVars, producerVars
<1>3. /\ from \in DOMAIN blocks /\ from = frontBlock /\ frontBlock # tailBlock
      /\ ~ NotEmpty(frontBlock) /\ operation \in {"peek", "dequeue", "pop"}
      /\ IF operation = "peek" THEN waiter = "idle" ELSE waiter = "granted"
      /\ next \in DOMAIN blocks
  BY <1>1 DEF Open, BlocksInv, ConsumerInv, Taking
<1>4. NotEmpty(next) /\ next # frontBlock
  BY <1>3, NextIsLive
<1>5. CASE operation = "peek"
  <2>1. UNCHANGED blockVars
    BY <1>1, <1>5 DEF blockVars
  <2>2. Available' + Granting' = Available + Granting
    BY <1>1, <1>2, <1>3, <1>5 DEF Available, Owes, Granting
  <2>3. ConsumerInv'
    BY <1>1, <1>2, <1>3, <1>4, <1>5 DEF ConsumerInv, Taking, NotEmpty
  <2>4. SemaphoreInv'
    BY <1>1 DEF semaphoreVars, SemaphoreInv, SemaphoreType, Available, Owes, Posted
  <2> QED BY <1>1, <1>2, <1>3, <1>5, <2>1, <2>2, <2>3, <2>4, OnlyConsumer
<1>6. CASE operation # "peek"
  <2>1. blocks' = [blocks EXCEPT ![next].localTail = blocks[next].tail]
    BY <1>1, <1>6
  <2>2. /\ \A fields : "localTail" \notin fields /\ fields \subseteq BlockFields
                           => Kept(fields)
        /\ blocks'[next].localTail = blocks[next].tail
    <3> HIDE DEF next
    <3> QED BY <1>1, <1>2, <1>3, <2>1, TailLooked DEF Open
  <2>3. Kept({"front", "tail", "next"})
    BY <2>2 DEF BlockFields
  <2>4. /\ blocks'[next].front = blocks[next].front
        /\ blocks'[frontBlock].front = blocks[frontBlock].front
        /\ blocks'[frontBlock].tail = blocks[frontBlock].tail
        /\ blocks'[frontBlock].next = blocks[frontBlock].next
    BY <1>3, <2>3 DEF Kept
  <2>5. ConsumerInv'
    <3>1. Wanting(from)'
      BY <1>1, <1>4, <2>2, <2>4 DEF Wanting, NotEmpty
    <3>2. ~ NotEmpty(frontBlock)'
      BY <1>1, <1>3, <2>4 DEF NotEmpty
    <3>3. from' = blocks'[frontBlock].next
      BY <1>1, <1>3, <2>4
    <3> QED BY <1>1, <1>2, <1>3, <1>6, <3>1, <3>2, <3>3 DEF ConsumerInv, Taking
  <2>6. consumer # "leaving" /\ consumer' # "leaving"
    BY <1>1
  <2> HIDE DEF next
  <2> QED BY <1>1, <1>3, <2>1, <2>5, <2>6, OnlyLooks
<1> QED BY <1>5, <1>6

LEMMA ReleaseBlockKeeps == ASSUME Open, ReleaseBlock PROVE Open'
<1>1. /\ consumer = "releasing" /\ consumer' = "reading" /\ operation' = operation
      /\ frontBlock' = from
      /\ UNCHANGED <<semaphoreVars, producerVars, blocks, tailBlock, largestBlockSize, from>>
  BY DEF ReleaseBlock, ConsumerTo
<1>2. /\ UNCHANGED <<waiter, signaller, count, into, item, producer>>
      /\ \A fields : Kept(fields)
  BY <1>1, AllKept DEF semaphoreVars, producerVars
<1>3. /\ from \in DOMAIN blocks /\ frontBlock # tailBlock /\ ~ NotEmpty(frontBlock)
      /\ from = blocks[frontBlock].next /\ Wanting(from) /\ Taking /\ waiter = "granted"
      /\ operation \in {"dequeue", "pop"}
  BY <1>1 DEF Open, BlocksInv, ConsumerInv, Taking
<1>4. NotEmpty(from)
  BY <1>3, NextIsLive
<1>5. BlocksInv'
  BY <1>1, <1>2, <1>3, BlocksStay DEF Open, BlocksInv
<1>6. OwnedInv' /\ Circle'
  BY <1>1, <1>2, OwnedKept, CircleKept DEF Open
<1>7. ChainInv'
  <2>1. PICK live, first, last : Chain(live, first, last)
    BY DEF Open, ChainInv
  <2> DEFINE begin == first + 1
  <2>2. /\ first \in Nat /\ last \in Nat /\ first # last /\ begin \in Nat /\ begin <= last
        /\ first \in first .. last - 1 /\ first \in first .. last
        /\ \A j \in begin .. last : j \in first .. last
        /\ \A j \in begin .. last - 1 : j \in first .. last - 1
        /\ \A j \in begin + 1 .. last : j \in first + 1 .. last
        /\ \A j \in first .. last : j = first \/ j \in begin .. last
    BY <1>3, <2>1 DEF Chain
  <2> HIDE DEF begin
  <2>3. live[begin] = from
    BY <1>3, <2>1, <2>2 DEF Chain, begin
  <2>4. \A b \in DOMAIN blocks :
            NotEmpty(b) => \/ \E j \in begin .. last : live[j] = b
                           \/ b = into /\ producer \in {"moving", "linking"}
    BY <1>3, <2>1, <2>2 DEF Chain
  <2>5. \A b : NotEmpty(b)' <=> NotEmpty(b)
    BY <1>1 DEF NotEmpty
  <2>6. /\ live \in [Nat -> DOMAIN blocks] /\ live[last] = tailBlock
        /\ \A j \in begin .. last - 1 : blocks[live[j]].next = live[j + 1]
        /\ \A j \in begin + 1 .. last : NotEmpty(live[j])
        /\ \A j, l \in begin .. last : live[j] = live[l] => j = l
        /\ into # tailBlock /\ producer \in Entering =>
              \A j \in begin .. last : live[j] # into
    BY <2>1, <2>2 DEF Chain
  <2>7. Chain(live, begin, last)'
    BY <1>1, <1>2, <2>2, <2>3, <2>4, <2>5, <2>6 DEF Chain, begin
  <2> QED BY <2>7 DEF ChainInv
<1>8. ProducerInv'
  BY <1>1, <1>2, ProducerKept DEF Open
<1>9. ConsumerInv'
  BY <1>1, <1>2, <1>3, <1>4 DEF ConsumerInv, Taking, Wanting, NotEmpty
<1>10. Tally'
  BY <1>1, <1>2, TallyKept DEF Open, Available, Owes, Granting, Announcing
<1> QED BY <1>5, <1>6, <1>7, <1>8, <1>9, <1>10 DEF Open

\* peek only reads.
LEMMA ReadPeekKeeps ==
    ASSUME Open, SemaphoreInv, Read, operation = "peek"
    PROVE  Open'
<1>1. /\ consumer = "reading" /\ consumer' = "idle" /\ operation' = "none"
      /\ UNCHANGED <<semaphoreVars, producerVars, blockVars, from>>
  BY DEF Read, blockVars
<1>2. UNCHANGED <<waiter, signaller, count>>
  BY <1>1 DEF semaphoreVars
<1>3. from \in DOMAIN blocks /\ waiter = "idle"
  BY DEF Open, BlocksInv, ConsumerInv
<1>4. Available' + Granting' = Available + Granting
  BY <1>2, <1>3 DEF Available, Owes, Granting
<1>5. ConsumerInv'
  BY <1>1, <1>2, <1>3 DEF ConsumerInv, Taking
<1>6. SemaphoreInv'
  BY <1>1 DEF semaphoreVars, SemaphoreInv, SemaphoreType, Available, Owes, Posted
<1> QED BY <1>1, <1>2, <1>3, <1>4, <1>5, <1>6, OnlyConsumer

LEMMA ReadTakesKeeps ==
    ASSUME Open, SemaphoreInv, Read, operation # "peek"
    PROVE  Open'
<1> DEFINE b == from
           i == blocks[b].front
           k == [blocks[b] EXCEPT !.data[i] = Raw]
<1>1. /\ UNCHANGED <<semaphoreVars, producerVars, frontBlock, tailBlock, largestBlockSize, from>>
      /\ consumer = "reading" /\ consumer' = "leaving" /\ operation' = operation
      /\ blocks' = [blocks EXCEPT ![b] = k]
  BY DEF Read
<1>2. UNCHANGED <<into, item, producer, waiter, signaller, count>>
  BY <1>1 DEF producerVars, semaphoreVars
<1>b. /\ b \in DOMAIN blocks /\ BlockInv(blocks[b]) /\ blocks[b].next \in DOMAIN blocks
      /\ NotEmpty(b) /\ Wanting(b) /\ b = frontBlock /\ waiter = "granted"
      /\ operation \in {"dequeue", "pop"}
  BY <1>1 DEF Open, BlocksInv, ConsumerInv, Taking
<1>s. i \in Slots(blocks[b])
  BY <1>b DEF BlockInv, Indices, Slots
<1>3. /\ BlockInv(k) /\ Others(k, blocks[b], "data")
      /\ k.data = [j \in Slots(blocks[b]) |-> IF j = i THEN Raw ELSE blocks[b].data[j]]
  BY <1>b, <1>s, SlotIsSet
<1>4. /\ BlocksInv'
      /\ \A fields : "data" \notin fields /\ fields \subseteq BlockFields => Kept(fields)
      /\ DOMAIN blocks' = DOMAIN blocks
      /\ blocks'[b] = k /\ \A c \in DOMAIN blocks : c # b => blocks'[c] = blocks[c]
  <2> HIDE DEF k
  <2>1. "data" \in BlockFields /\ k.next = blocks[b].next
    BY <1>3 DEF BlockFields, Others
  <2> QED BY <1>1, <1>2, <1>b, <1>3, <2>1, BlockChanges DEF Open, BlocksInv
<1> HIDE DEF k
<1>5. /\ Kept({"size", "front", "tail"}) /\ Kept({"next"}) /\ Kept({"size"})
      /\ Kept({"front", "tail", "next"}) /\ Kept({"front", "tail", "localTail", "next"})
      /\ Kept({"size", "tail", "localFront", "next"})
  BY <1>4 DEF BlockFields
<1>6. /\ \A c \in DOMAIN blocks : \A j \in Slots(blocks[c]) :
            ~ (c = b /\ j = i) => blocks'[c].data[j] = blocks[c].data[j]
      /\ blocks'[b].data[i] = Raw
  BY <1>3, <1>4, <1>s
<1>7. Holds(blocks[b], i) /\ i # blocks[b].tail
  BY <1>b, EmptyOrNot DEF NotEmpty
<1>8. blocks[b].data[i] # Raw
  BY <1>1, <1>b, <1>s, <1>7 DEF Open, OwnedInv, Owned
<1>9. OwnedInv'
  <2>1. ASSUME NEW c \in DOMAIN blocks, NEW j \in Slots(blocks[c])
        PROVE  blocks'[c].data[j] # Raw <=>
                  \/ /\ Holds(blocks'[c], j)
                     /\ ~ (consumer' = "leaving" /\ c = from' /\ j = blocks'[c].front)
                  \/ producer' = "publishing" /\ c = into' /\ j = blocks'[c].tail
    <3>1. Holds(blocks'[c], j) <=> Holds(blocks[c], j)
      BY <1>5 DEF Kept, Holds, Filled
    <3>2. blocks'[c].front = blocks[c].front /\ blocks'[c].tail = blocks[c].tail
      BY <1>5 DEF Kept
    <3>3. CASE c = b /\ j = i
      BY <1>1, <1>2, <1>6, <1>7, <3>2, <3>3
    <3>4. CASE ~ (c = b /\ j = i)
      <4>1. blocks'[c].data[j] = blocks[c].data[j]
        BY <1>6, <3>4
      <4>2. ~ (c = from /\ j = blocks[c].front)
        BY <3>4
      <4> QED BY <1>1, <1>2, <3>1, <3>2, <4>1, <4>2 DEF Open, OwnedInv, Owned
    <3> QED BY <3>3, <3>4
  <2>2. \A c \in DOMAIN blocks : Slots(blocks'[c]) = Slots(blocks[c])
    BY <1>5 DEF Kept, Slots
  <2> QED BY <1>4, <2>1, <2>2 DEF OwnedInv, Owned
<1>10. Circle' /\ ChainInv'
  BY <1>1, <1>2, <1>5, CircleKept, ChainKept DEF Open
<1>11. ProducerInv'
  <2>1. blocks'[into].front = blocks[into].front
    BY <1>5 DEF Open, BlocksInv, Kept
  <2> QED BY <1>1, <1>2, <1>5, <2>1, ProducerKept DEF Open
<1>12. ConsumerInv'
  <2>1. Wanting(from)'
    <3>1. Kept({"front", "localTail"})
      BY <1>5 DEF Kept
    <3> QED BY <1>1, <1>b, <3>1 DEF Wanting, Kept
  <2> QED BY <1>1, <1>2, <1>b, <2>1 DEF ConsumerInv, Taking
<1>13. Tally'
  <2>1. IsFiniteSet(Elems') /\ Cardinality(Elems') = Cardinality(Elems) - 1
    BY <1>b, <1>s, <1>4, <1>5, <1>6, <1>8, TallyShrinks DEF Open
  <2>2. Granting = 1 /\ Granting' = 0
    BY <1>1, <1>2, <1>b DEF Granting
  <2>3. Available' = Available /\ Announcing' = Announcing
    BY <1>2 DEF Available, Owes, Announcing
  <2>4. Cardinality(Elems) = Available + 1 + Announcing
    BY <2>2 DEF Open, Tally
  <2>5. Available \in Int /\ Announcing \in Int
    BY DEF SemaphoreInv, SemaphoreType, Available, Announcing
  <2> QED BY <2>1, <2>2, <2>3, <2>4, <2>5 DEF Tally
<1> QED BY <1>4, <1>9, <1>10, <1>11, <1>12, <1>13 DEF Open

LEMMA LeaveKeeps == ASSUME Open, SemaphoreInv, Leave PROVE Open'
<1> DEFINE b == from
           i == blocks[b].front
           k == [blocks[b] EXCEPT !.front = Succ(i, blocks[b].size)]
<1>0. consumer = "leaving"
  BY DEF Leave, ConsumerTo
<1>b. /\ b \in DOMAIN blocks /\ BlockInv(blocks[b]) /\ blocks[b].next \in DOMAIN blocks
      /\ Wanting(b) /\ b = frontBlock /\ waiter = "granted"
      /\ tailBlock \in DOMAIN blocks /\ into \in DOMAIN blocks
  BY <1>0 DEF Open, BlocksInv, ConsumerInv, Taking
<1>s. i \in Slots(blocks[b])
  BY <1>b DEF BlockInv, Indices, Slots
<1>a. After(b, i) = Succ(i, blocks[b].size)
  BY <1>b, <1>s, AfterIs
<1>1. /\ UNCHANGED <<producerVars, frontBlock, tailBlock, largestBlockSize, from>>
      /\ UNCHANGED <<count, posts, signaller>> /\ waiter' = "idle"
      /\ consumer' = "idle" /\ operation' = "none"
      /\ blocks' = [blocks EXCEPT ![b] = k]
  BY <1>a DEF Leave, ConsumerTo, Return
<1>2. UNCHANGED <<into, item, producer>>
  BY <1>1 DEF producerVars
<1>4. /\ BlockInv(k) /\ Others(k, blocks[b], "front")
      /\ Filled(k) = Filled(blocks[b]) - 1
      /\ \A j \in Slots(blocks[b]) : Holds(k, j) <=> Holds(blocks[b], j) /\ j # i
  BY <1>b, FrontMoves DEF Wanting
<1> HIDE DEF k
<1>5. /\ BlocksInv'
      /\ \A fields : "front" \notin fields /\ fields \subseteq BlockFields => Kept(fields)
      /\ DOMAIN blocks' = DOMAIN blocks
      /\ blocks'[b] = k /\ \A c \in DOMAIN blocks : c # b => blocks'[c] = blocks[c]
  <2>1. "front" \in BlockFields /\ k.next = blocks[b].next
    BY <1>4 DEF BlockFields, Others
  <2> QED BY <1>1, <1>2, <1>b, <1>4, <2>1, BlockChanges DEF Open, BlocksInv
<1>6. /\ Kept({"next"}) /\ Kept({"size", "data"}) /\ Kept({"size", "tail", "data"})
      /\ Kept({"size", "tail", "localFront", "next"})
  BY <1>5 DEF BlockFields
<1>7. \A c \in DOMAIN blocks : /\ blocks'[c].size = blocks[c].size
                               /\ blocks'[c].tail = blocks[c].tail
                               /\ blocks'[c].data = blocks[c].data
                               /\ blocks'[c].next = blocks[c].next
                               /\ c # b => (NotEmpty(c)' <=> NotEmpty(c))
  BY <1>5, <1>6 DEF Kept, NotEmpty
<1>8. NotEmpty(b)
  BY <1>b, EmptyOrNot DEF NotEmpty, Wanting
<1>9. OwnedInv'
  <2>1. ASSUME NEW c \in DOMAIN blocks, NEW j \in Slots(blocks[c])
        PROVE  blocks'[c].data[j] # Raw <=>
                  \/ /\ Holds(blocks'[c], j)
                     /\ ~ (consumer' = "leaving" /\ c = from' /\ j = blocks'[c].front)
                  \/ producer' = "publishing" /\ c = into' /\ j = blocks'[c].tail
    <3>0. /\ consumer' # "leaving" /\ blocks'[c].data = blocks[c].data
          /\ blocks'[c].tail = blocks[c].tail
      BY <1>1, <1>7
    <3>1. CASE c # b
      BY <1>2, <1>5, <3>0, <3>1 DEF Open, OwnedInv, Owned
    <3>2. CASE c = b
      <4>1. Holds(blocks'[c], j) <=> Holds(blocks[c], j) /\ j # i
        BY <1>4, <1>5, <3>2
      <4>2. blocks[c].data[j] # Raw <=>
                \/ Holds(blocks[c], j) /\ j # i
                \/ producer = "publishing" /\ c = into /\ j = blocks[c].tail
        BY <1>0, <3>2 DEF Open, OwnedInv, Owned
      <4> QED BY <1>2, <3>0, <4>1, <4>2
    <3> QED BY <3>1, <3>2
  <2>2. \A c \in DOMAIN blocks : Slots(blocks'[c]) = Slots(blocks[c])
    BY <1>7 DEF Slots
  <2> QED BY <1>5, <2>1, <2>2 DEF OwnedInv, Owned
<1>10. Circle'
  BY <1>2, <1>6, CircleKept DEF Open
<1>11. ChainInv'
  <2>1. PICK live, first, last : Chain(live, first, last)
    BY DEF Open, ChainInv
  <2>2. \A j \in first + 1 .. last : NotEmpty(live[j])'
    <3>1. TAKE j \in first + 1 .. last
    <3>2. first \in first .. last /\ j \in first .. last /\ j # first
      BY <2>1 DEF Chain
    <3>3. live[j] \in DOMAIN blocks /\ live[j] # b
      BY <1>b, <2>1, <3>2 DEF Chain
    <3> QED BY <1>7, <2>1, <3>3 DEF Chain
  <2>3. \A c \in DOMAIN blocks : NotEmpty(c)' => NotEmpty(c)
    BY <1>7, <1>8
  <2>4. \A j \in first .. last - 1 : blocks'[live[j]].next = live[j + 1]
    <3>1. \A j \in first .. last - 1 : live[j] \in DOMAIN blocks
      BY <2>1 DEF Chain
    <3> QED BY <1>7, <2>1, <3>1 DEF Chain
  <2>5. \A c \in DOMAIN blocks :
            NotEmpty(c)' => \/ \E j \in first .. last : live[j] = c
                            \/ c = into /\ producer \in {"moving", "linking"}
    BY <2>1, <2>3 DEF Chain
  <2>6. Chain(live, first, last)'
    BY <1>1, <1>2, <1>5, <2>1, <2>2, <2>4, <2>5 DEF Chain
  <2> QED BY <2>6 DEF ChainInv
<1>12. ProducerInv'
  <2>1. into # tailBlock /\ producer \in Entering => into # b
    BY <1>b, EnteredIsNotFront DEF Open
  <2>2. into # tailBlock /\ producer \in Entering => blocks'[into].front = blocks[into].front
    BY <1>b, <1>5, <2>1
  <2> QED BY <1>1, <1>6, <2>2, ProducerKept DEF Open
<1>13. ConsumerInv'
  BY <1>1 DEF ConsumerInv, Taking
<1>14. Tally'
  <2>1. Available' = Available /\ Granting' = Granting /\ Announcing' = Announcing
    BY <1>0, <1>1, <1>2, <1>b DEF Available, Owes, Granting, Announcing
  <2> QED BY <1>6, <2>1, TallyKept DEF Open
<1> QED BY <1>5, <1>9, <1>10, <1>11, <1>12, <1>13, <1>14 DEF Open

-----------------------------------------------------------------------------
(* The constructor and the destructor.                                       *)

LEMMA BehindIs ==
    ASSUME NEW s \in Nat, s >= 2, NEW f \in 0 .. s - 1, NEW i \in 0 .. s - 1
    PROVE  (i - f) % s = Behind(f, i, s)
<1>1. CASE f <= i
  BY <1>1 DEF Behind
<1>2. CASE i < f
  <2>1. i - f + s \in 0 .. s - 1 /\ i - f \in Int
    BY <1>2
  <2>2. (i - f) % s = i - f + s
    BY <1>2, <2>1
  <2> QED BY <1>2, <2>2 DEF Behind
<1> QED BY <1>1, <1>2

\* The destructor destroys what the blocks hold, which is all that there is.
LEMMA DestroyCloses == ASSUME Open, Destroy PROVE Closed'
<1>1. /\ producer = "idle" /\ signaller = "idle" /\ consumer = "idle"
      /\ producer' = "destroyed"
      /\ blocks' = [b \in DOMAIN blocks |->
             [blocks[b] EXCEPT !.data = [i \in DOMAIN blocks[b].data |->
                  IF i \in Occupied(b) THEN Raw ELSE blocks[b].data[i]]]]
      /\ UNCHANGED <<consumer, signaller, waiter>>
  BY DEF Destroy, consumerVars, semaphoreVars
<1>2. waiter = "idle"
  BY <1>1 DEF Open, ConsumerInv
<1>3. ASSUME NEW b \in DOMAIN blocks, NEW i \in DOMAIN blocks'[b].data
      PROVE  blocks'[b].data[i] = Raw
  <2> DEFINE k == blocks[b]
             data == [j \in DOMAIN k.data |-> IF j \in Occupied(b) THEN Raw ELSE k.data[j]]
  <2>1. BlockInv(k)
    BY DEF Open, BlocksInv
  <2>2. blocks'[b].data = data
    <3>1. blocks'[b] = [k EXCEPT !.data = data]
      BY <1>1
    <3> HIDE DEF data
    <3> QED BY <2>1, <3>1 DEF BlockInv, BlockFields
  <2>3. i \in Slots(k) /\ DOMAIN k.data = Slots(k)
    BY <2>1, <2>2 DEF BlockInv
  <2>4. k.data[i] # Raw => Holds(k, i)
    BY <1>1, <2>3 DEF Open, OwnedInv, Owned
  <2>5. Holds(k, i) => i \in Occupied(b)
    <3>1. Indices(k.size, k.front, k.tail, k.localFront, k.localTail) /\ i \in 0 .. k.size - 1
      BY <2>1, <2>3 DEF BlockInv, Slots
    <3>2. /\ (i - k.front) % k.size = Behind(k.front, i, k.size)
          /\ (k.tail - k.front) % k.size = Filled(k)
      BY <3>1, BehindIs DEF Indices, Filled
    <3> QED BY <2>3, <3>2 DEF Occupied, Holds
  <2> QED BY <2>2, <2>3, <2>4, <2>5
<1>4. DOMAIN blocks' = DOMAIN blocks
  BY <1>1
<1> QED BY <1>1, <1>2, <1>3, <1>4 DEF Closed

\* The constructor's arithmetic.
LEMMA SizesAre ==
    InitialSize \in Nat /\ InitialSize >= 2 /\ InitialCount \in Nat /\ InitialCount >= 1
<1>1. /\ CeilToPow2(MaxSize + 1) \in Nat /\ CeilToPow2(MaxSize + 1) >= 2
      /\ MaxBlockSize \in Nat /\ MaxBlockSize >= 2 /\ MaxSize \in Nat
  BY SizesAssumption, PowersAssumption
<1>2. InitialSize \in Nat /\ InitialSize >= 2
  BY <1>1 DEF InitialSize, SizeFor
<1>3. (MaxSize + MaxBlockSize * 2 - 3) \div (MaxBlockSize - 1) \in Int
  BY <1>1
<1>4. (MaxSize + MaxBlockSize * 2 - 3) \div (MaxBlockSize - 1) >= 1
  BY <1>1
<1>5. InitialCount \in Nat /\ InitialCount >= 1
  BY <1>3, <1>4 DEF InitialCount, CountFor
<1> QED BY <1>2, <1>5

LEMMA NewBlockIsBlock ==
    ASSUME NEW size \in Nat, size >= 2, NEW next
    PROVE  LET k == NewBlock(size, next)
           IN  /\ BlockInv(k) /\ k.next = next /\ k.front = k.tail
               /\ \A i \in Slots(k) : k.data[i] = Raw /\ ~ Holds(k, i)
<1> DEFINE k == NewBlock(size, next)
           data == [i \in 0 .. size - 1 |-> Raw]
<1>1. data \in [0 .. size - 1 -> Values \cup {Raw}] /\ \A i \in 0 .. size - 1 : data[i] = Raw
  OBVIOUS
<1> HIDE DEF data
<1>2. /\ k = [f \in BlockFields |-> k[f]]
      /\ k.size = size /\ k.front = 0 /\ k.tail = 0 /\ k.localFront = 0 /\ k.localTail = 0
      /\ k.next = next /\ k.data = data
  BY DEF NewBlock, BlockFields, data
<1> HIDE DEF k
<1>3. Indices(size, 0, 0, 0, 0) /\ Behind(0, 0, size) = 0
  BY DEF Indices, Behind
<1>4. BlockInv(k)
  BY <1>1, <1>2, <1>3 DEF BlockInv, Slots
<1>5. \A i \in Slots(k) : k.data[i] = Raw /\ ~ Holds(k, i)
  <2>1. \A i \in 0 .. size - 1 : ~ (Behind(0, i, size) < 0)
    BY DEF Behind
  <2> QED BY <1>1, <1>2, <1>3, <2>1 DEF Holds, Filled, Slots
<1> QED BY <1>2, <1>4, <1>5 DEF k

LEMMA NextIs ==
    ASSUME NEW n \in Nat, n >= 1, NEW b \in 1 .. n
    PROVE  (b % n) + 1 = IF b = n THEN 1 ELSE b + 1
  OBVIOUS

\* In the circle that the constructor makes no two blocks have the same next one.
LEMMA NextIsOneToOne ==
    ASSUME NEW n \in Nat, n >= 1, NEW b \in 1 .. n, NEW c \in 1 .. n,
           (b % n) + 1 = (c % n) + 1
    PROVE  b = c
<1> DEFINE x == (b % n) + 1
           y == (c % n) + 1
<1>1. x = y
  OBVIOUS
<1>2. x = (IF b = n THEN 1 ELSE b + 1) /\ y = (IF c = n THEN 1 ELSE c + 1)
  BY NextIs
<1> HIDE DEF x, y
<1>3. (IF b = n THEN 1 ELSE b + 1) = (IF c = n THEN 1 ELSE c + 1)
  BY <1>1, <1>2
<1> QED BY <1>3

LEMMA InitOpens == ASSUME Init PROVE SemaphoreInv /\ Open
<1> DEFINE n == InitialCount
           size == InitialSize
<1>1. n \in Nat /\ n >= 1 /\ size \in Nat /\ size >= 2
  BY SizesAre
<1>2. /\ SemaphoreInit /\ frontBlock = 1 /\ tailBlock = 1 /\ into = 1 /\ from = 1
      /\ producer = "idle" /\ consumer = "idle" /\ operation = "none"
      /\ largestBlockSize = size
      /\ blocks = [b \in 1 .. n |-> NewBlock(size, (b % n) + 1)]
  BY DEF Init
<1>3. /\ count = 0 /\ posts = 0 /\ signaller = "idle" /\ waiter = "idle"
  BY <1>2 DEF SemaphoreInit
<1> HIDE DEF n, size
<1>4. /\ DOMAIN blocks = 1 .. n /\ 1 \in 1 .. n
      /\ \A b \in 1 .. n : blocks[b] = NewBlock(size, (b % n) + 1)
      /\ blocks = [b \in DOMAIN blocks |-> blocks[b]]
  BY <1>1, <1>2
<1>5. ASSUME NEW b \in 1 .. n
      PROVE  /\ BlockInv(blocks[b]) /\ blocks[b].next = (b % n) + 1 /\ ~ NotEmpty(b)
             /\ \A i \in Slots(blocks[b]) : blocks[b].data[i] = Raw /\ ~ Holds(blocks[b], i)
  BY <1>1, <1>4, NewBlockIsBlock DEF NotEmpty
<1>6. \A b \in 1 .. n : (b % n) + 1 = IF b = n THEN 1 ELSE b + 1
  BY <1>1, NextIs
<1>7. BlocksInv
  <2>1. \A b \in 1 .. n : (b % n) + 1 \in 1 .. n
    BY <1>1, <1>6
  <2>2. \E m \in Nat : DOMAIN blocks = 1 .. m
    BY <1>1, <1>4
  <2>3. \A b \in DOMAIN blocks : BlockInv(blocks[b]) /\ blocks[b].next \in DOMAIN blocks
    BY <1>4, <1>5, <2>1
  <2>4. /\ frontBlock \in DOMAIN blocks /\ tailBlock \in DOMAIN blocks
        /\ into \in DOMAIN blocks /\ from \in DOMAIN blocks
        /\ largestBlockSize \in Nat /\ largestBlockSize >= 2
    BY <1>1, <1>2, <1>4
  <2> QED BY <1>4, <2>2, <2>3, <2>4 DEF BlocksInv
<1>8. OwnedInv
  BY <1>2, <1>4, <1>5 DEF OwnedInv, Owned
<1>9. Circle
  <2>1. ASSUME NEW b \in 1 .. n, NEW c \in 1 .. n, (b % n) + 1 = (c % n) + 1
        PROVE  b = c
    BY <1>1, <2>1, NextIsOneToOne
  <2> QED BY <1>4, <1>5, <2>1 DEF Circle
<1>10. ChainInv
  <2>1. PICK live : live = [i \in Nat |-> 1]
    OBVIOUS
  <2>2. Chain(live, 0, 0)
    BY <1>2, <1>4, <1>5, <2>1 DEF Chain, Entering
  <2> QED BY <2>2 DEF ChainInv
<1>11. ProducerInv
  BY <1>2, <1>3 DEF ProducerInv, Entering
<1>12. ConsumerInv
  BY <1>2, <1>3 DEF ConsumerInv
<1>13. Tally
  <2>1. Elems = {}
    <3>1. ASSUME NEW e \in ElemsOf(blocks)
          PROVE  FALSE
      <4>1. PICK b \in DOMAIN blocks : \E i : e = <<b, i>>
        BY ElemIsPair
      <4>2. PICK i : e = <<b, i>>
        BY <4>1
      <4>3. i \in Slots(blocks[b]) /\ blocks[b].data[i] # Raw
        BY <4>2, IsElem
      <4> QED BY <1>4, <1>5, <4>3
    <3> QED BY <3>1 DEF Elems
  <2>2. Available = 0 /\ Granting = 0 /\ Announcing = 0
    BY <1>2, <1>3 DEF Available, Owes, Granting, Announcing
  <2> QED BY <2>1, <2>2, FS_EmptySet DEF Tally
<1> QED BY <1>2, <1>7, <1>8, <1>9, <1>10, <1>11, <1>12, <1>13, SemaphoreInitInv DEF Open

-----------------------------------------------------------------------------
(* Every step.                                                               *)

\* What the queue does to its semaphore is what one thread that signals and one that
\* waits do.
LEMMA SemaphoreKeeps ==
    ASSUME SemaphoreInv, [Next]_vars
    PROVE  SemaphoreInv'
<1>1. ASSUME NEW x, NEW alloc, Enqueue(x, alloc)
      PROVE  SemaphoreInv'
  BY <1>1, SemaphoreStutterKeepsInv DEF Enqueue
<1>2. ASSUME NEW o, NEW p \in Patiences, CallWait(o, p)
      PROVE  SemaphoreInv'
  BY <1>2, WaiterKeepsInv DEF CallWait
<1>3. CASE Peek
  BY <1>3, SemaphoreStutterKeepsInv DEF Peek
<1>4. CASE ProducerStep
  <2>1. CASE SignalElement
    BY <2>1, SignallerKeepsInv DEF SignalElement
  <2>2. CASE PostElement
    BY <2>2, SignallerKeepsInv DEF PostElement
  <2>3. CASE ~ SignalElement /\ ~ PostElement
    <3>1. UNCHANGED semaphoreVars
      BY <1>4, <2>3 DEF ProducerStep, CheckFront, UseNext, Enter, Write, Publish, MoveToBlock,
         Allocate, Link, Refuse
    <3> QED BY <3>1, SemaphoreStutterKeepsInv
  <2> QED BY <2>1, <2>2, <2>3
<1>5. CASE ConsumerStep
  <2>1. CASE Waiting
    BY <2>1, WaiterKeepsInv DEF Waiting
  <2>2. CASE Refused \/ Leave
    BY <2>2, WaiterKeepsInv DEF Refused, Leave
  <2>3. CASE ~ Waiting /\ ~ Refused /\ ~ Leave
    <3>1. UNCHANGED semaphoreVars
      BY <1>5, <2>3 DEF ConsumerStep, Granted, Look, Compare, FindEmpty, LookAgain, Advance,
         ReleaseBlock, Read
    <3> QED BY <3>1, SemaphoreStutterKeepsInv
  <2> QED BY <2>1, <2>2, <2>3
<1>6. CASE Destroy \/ Destroyed \/ UNCHANGED vars
  BY <1>6, SemaphoreStutterKeepsInv DEF Destroy, Destroyed, vars
<1>7. \A p \in {"none", "timed", "forever"} : p \in Patiences
  BY DEF Patiences
<1> QED BY <1>1, <1>2, <1>3, <1>4, <1>5, <1>6, <1>7 DEF Next

LEMMA OpenStutters == ASSUME Open, UNCHANGED vars PROVE Open'
<1>1. /\ UNCHANGED <<semaphoreVars, blockVars, producerVars, consumerVars>>
      /\ UNCHANGED <<count, waiter, signaller, blocks, frontBlock, tailBlock,
                     largestBlockSize, producer, item, into, consumer, operation, from>>
  BY DEF vars, semaphoreVars, blockVars, producerVars, consumerVars
<1>2. \A fields : Kept(fields)
  BY <1>1, AllKept
<1>3. BlocksInv'
  BY <1>1, BlocksStay DEF Open, BlocksInv
<1>4. OwnedInv' /\ Circle' /\ ChainInv'
  BY <1>1, <1>2, OwnedKept, CircleKept, ChainKept DEF Open
<1>5. ProducerInv'
  BY <1>1, <1>2, ProducerKept DEF Open
<1>6. ConsumerInv'
  BY <1>1, <1>2, ConsumerStays DEF Open
<1>7. Tally'
  BY <1>1, <1>2, TallyKept DEF Open, Available, Owes, Granting, Announcing
<1> QED BY <1>3, <1>4, <1>5, <1>6, <1>7 DEF Open

LEMMA OpenKeeps ==
    ASSUME Open, SemaphoreInv, SemaphoreInv', [Next]_vars
    PROVE  Open' \/ Closed'
<1>1. ASSUME NEW x \in Values, NEW alloc \in BOOLEAN, Enqueue(x, alloc)
      PROVE  Open'
  BY <1>1, EnqueueKeeps
<1>2. ASSUME NEW o \in {"dequeue", "pop"}, NEW p, CallWait(o, p)
      PROVE  Open'
  BY <1>2, CallWaitKeeps
<1>3. CASE Peek
  BY <1>3, PeekKeeps
<1>4. CASE ProducerStep
  BY <1>4, CheckFrontKeeps, UseNextKeeps, EnterKeeps, WriteKeeps, PublishKeeps,
     MoveToBlockKeeps, AllocateKeeps, LinkKeeps, RefuseKeeps, SignalElementKeeps,
     PostElementKeeps DEF ProducerStep
<1>5. CASE ConsumerStep
  BY <1>5, WaitingKeeps, RefusedKeeps, GrantedKeeps, LookKeeps, CompareKeeps, FindEmptyKeeps,
     AdvanceKeeps, ReleaseBlockKeeps, ReadPeekKeeps, ReadTakesKeeps, LeaveKeeps
     DEF ConsumerStep
<1>6. CASE Destroy
  BY <1>6, DestroyCloses
<1>7. CASE Destroyed \/ UNCHANGED vars
  BY <1>7, OpenStutters DEF Destroyed
<1> QED BY <1>1, <1>2, <1>3, <1>4, <1>5, <1>6, <1>7 DEF Next

\* Once destroyed, the queue stays as it is.
LEMMA ClosedStutters == ASSUME Closed, [Next]_vars PROVE UNCHANGED vars
<1>1. /\ \A x, alloc : ~ Enqueue(x, alloc)
      /\ \A o, p : ~ CallWait(o, p)
      /\ ~ Peek /\ ~ Destroy
  BY DEF Closed, Enqueue, CallWait, Peek, Destroy
<1>2. ~ ProducerStep
  BY DEF Closed, ProducerStep, ProducerTo, CheckFront, UseNext, Enter, Write, Publish,
     MoveToBlock, Allocate, Link, Refuse, SignalElement, PostElement, Post
<1>3. ~ Waiting
  BY WaiterStepGoesOn DEF Closed, Waiting
<1>4. ~ ConsumerStep
  BY <1>3 DEF Closed, ConsumerStep, ConsumerTo, Refused, Granted, Look, Compare, FindEmpty,
     LookAgain, Advance, ReleaseBlock, Read, Leave
<1> QED BY <1>1, <1>2, <1>4 DEF Next, Destroyed

LEMMA ClosedKeeps == ASSUME Closed, [Next]_vars PROVE Closed'
<1>1. UNCHANGED <<producer, consumer, waiter, signaller, blocks>>
  BY ClosedStutters DEF vars, semaphoreVars, blockVars, producerVars, consumerVars
<1> QED BY <1>1 DEF Closed

LEMMA InvKept == QueueInv /\ [Next]_vars => QueueInv'
<1> SUFFICES ASSUME QueueInv, [Next]_vars
             PROVE  QueueInv'
  OBVIOUS
<1>1. SemaphoreInv'
  BY SemaphoreKeeps DEF QueueInv
<1> QED BY <1>1, OpenKeeps, ClosedKeeps DEF QueueInv

LEMMA InvHolds == Init /\ [][Next]_vars => []QueueInv
<1>1. Init => QueueInv
  BY InitOpens DEF QueueInv
<1> QED BY <1>1, InvKept, PTL

-----------------------------------------------------------------------------
(* What the invariant says.                                                  *)

\* No element is constructed over another, none is read that is not there, and the
\* destructor leaves none behind: inner_enqueue, try_dequeue, peek, pop and
\* ~ReaderWriterQueue, for queues of any size, whichever way the steps of the two
\* threads interleave.
THEOREM SlotsAreOwnedHolds == Spec => []SlotsAreOwned
<1>1. QueueInv => SlotsAreOwned
  <2>1. ASSUME Closed PROVE SlotsAreOwned
    BY <2>1 DEF Closed, SlotsAreOwned
  <2>2. ASSUME Open PROVE SlotsAreOwned
    <3>1. /\ into \in DOMAIN blocks /\ from \in DOMAIN blocks
          /\ BlockInv(blocks[into]) /\ BlockInv(blocks[from]) /\ producer # "destroyed"
      BY <2>2 DEF Open, BlocksInv, ProducerInv, Entering
    <3>2. ASSUME producer = "writing"
          PROVE  blocks[into].data[blocks[into].tail] = Raw
      <4>1. blocks[into].tail \in Slots(blocks[into])
        BY <3>1 DEF BlockInv, Indices, Slots
      <4> QED BY <2>2, <3>1, <3>2, <4>1, EmptyOrNot DEF Open, OwnedInv, Owned
    <3>3. ASSUME consumer = "reading"
          PROVE  blocks[from].data[blocks[from].front] # Raw
      <4>1. blocks[from].front \in Slots(blocks[from])
        BY <3>1 DEF BlockInv, Indices, Slots
      <4>2. Holds(blocks[from], blocks[from].front)
        BY <2>2, <3>1, <3>3, EmptyOrNot DEF Open, ConsumerInv, NotEmpty
      <4> QED BY <2>2, <3>1, <3>3, <4>1, <4>2 DEF Open, OwnedInv, Owned
    <3> QED BY <3>1, <3>2, <3>3 DEF SlotsAreOwned
  <2> QED BY <2>1, <2>2 DEF QueueInv
<1> QED BY <1>1, InvHolds, PTL DEF Spec

\* The assertions of try_dequeue, pop, wait_dequeue, peek, inner_enqueue and signal hold:
\* a granted wait finds an element, the block that the consumer goes on to is not empty,
\* the one that the producer goes on to is, and at most one thread waits.
THEOREM AssertionsHoldHolds == Spec => []AssertionsHold
<1>1. QueueInv => AssertionsHold
  <2>1. ASSUME QueueInv PROVE AtMostOneWaits
    BY <2>1 DEF QueueInv, SemaphoreInv, SemaphoreType, Available, Owes, Posted, AtMostOneWaits
  <2>2. ASSUME Closed, AtMostOneWaits PROVE AssertionsHold
    BY <2>2 DEF Closed, AssertionsHold
  <2>3. ASSUME Open, AtMostOneWaits PROVE AssertionsHold
    <3>1. consumer # "failed"
      BY <2>3 DEF Open, ConsumerInv
    <3>2. consumer = "advancing" => NotEmpty(blocks[from].next)
      BY <2>3, NextIsLive DEF Open, ConsumerInv
    <3>3. producer = "entering" => ~ NotEmpty(into)
      BY <2>3 DEF Open, ProducerInv
    <3> QED BY <2>3, <3>1, <3>2, <3>3 DEF AssertionsHold
  <2> QED BY <2>1, <2>2, <2>3 DEF QueueInv
<1> QED BY <1>1, InvHolds, PTL DEF Spec

-----------------------------------------------------------------------------
(* Sequences of sequences.                                                   *)

\* A set of numbers has a first one.
LEMMA HasFirst ==
    ASSUME NEW T \in SUBSET Nat, T # {}
    PROVE  \E i \in T : \A j \in T : i <= j
<1> DEFINE less == {pair \in Nat \X Nat : pair[1] < pair[2]}
<1>1. OpToRel(<, Nat) = less
  BY Zenon DEF OpToRel
<1>2. IsWellFoundedOn(less, Nat)
  BY <1>1, NatLessThanWellFounded, Zenon
<1>3. \A i, j \in Nat : j < i => <<j, i>> \in less
  OBVIOUS
<1> HIDE DEF less
<1>4. PICK i \in T : \A j \in T : ~ (<<j, i>> \in less)
  BY <1>2, WFMin
<1>5. \A j \in T : ~ (j < i)
  BY <1>3, <1>4
<1> QED BY <1>5

\* Induction, for the set of the numbers of which something is known.
LEMMA AllNumbers ==
    ASSUME NEW T, 0 \in T, \A n \in Nat : n \in T => n + 1 \in T
    PROVE  \A n \in Nat : n \in T
<1> DEFINE Missed == Nat \ T
<1>1. SUFFICES ASSUME Missed # {} PROVE FALSE
  OBVIOUS
<1>2. Missed \in SUBSET Nat
  OBVIOUS
<1> HIDE DEF Missed
<1>3. PICK n \in Missed : \A j \in Missed : n <= j
  BY <1>1, <1>2, HasFirst
<1> USE DEF Missed
<1>4. n - 1 \in Nat /\ (n - 1) + 1 = n /\ ~ (n <= n - 1)
  BY <1>3
<1>5. n - 1 \notin Missed
  BY <1>3, <1>4
<1> QED BY <1>3, <1>4, <1>5

-----------------------------------------------------------------------------
(* Sequences one after the other.                                            *)

\* f[i] is what the first i sequences of s make.
Joins(f, s, n) == f = [i \in 1 .. n |-> IF i = 1 THEN s[i] ELSE f[i - 1] \o s[i]]

\* There is only one such function.
LEMMA JoinsOnce ==
    ASSUME NEW s, NEW n \in Nat, NEW f, NEW g, Joins(f, s, n), Joins(g, s, n)
    PROVE  f = g
<1>1. f = [i \in 1 .. n |-> f[i]] /\ g = [i \in 1 .. n |-> g[i]]
  BY DEF Joins
<1>2. \A i \in 1 .. n : f[i] = (IF i = 1 THEN s[i] ELSE f[i - 1] \o s[i])
  BY DEF Joins
<1>3. \A i \in 1 .. n : g[i] = (IF i = 1 THEN s[i] ELSE g[i - 1] \o s[i])
  BY DEF Joins
<1> DEFINE Same == {i \in Nat : i + 1 \in 1 .. n => f[i + 1] = g[i + 1]}
<1>4. 0 \in Same
  BY <1>2, <1>3
<1>5. \A i \in Nat : i \in Same => i + 1 \in Same
  <2> TAKE i \in Nat
  <2> HAVE i \in Same
  <2> SUFFICES ASSUME (i + 1) + 1 \in 1 .. n PROVE f[(i + 1) + 1] = g[(i + 1) + 1]
    OBVIOUS
  <2>1. i + 1 \in 1 .. n /\ (i + 1) + 1 # 1 /\ ((i + 1) + 1) - 1 = i + 1
    OBVIOUS
  <2>2. f[i + 1] = g[i + 1]
    BY <2>1
  <2> QED BY <1>2, <1>3, <2>1, <2>2
<1> HIDE DEF Same
<1>6. \A i \in Nat : i \in Same
  BY <1>4, <1>5, AllNumbers
<1>7. \A i \in 1 .. n : f[i] = g[i]
  <2> TAKE i \in 1 .. n
  <2>1. i - 1 \in Nat /\ (i - 1) + 1 = i
    OBVIOUS
  <2> QED BY <1>6, <2>1 DEF Same
<1> QED BY <1>1, <1>7

LEMMA FlattenIs ==
    ASSUME NEW s, Len(s) \in Nat, Len(s) # 0, NEW f, Joins(f, s, Len(s))
    PROVE  FlattenSeq(s) = f[Len(s)]
<1> DEFINE body(g) == [i \in 1 .. Len(s) |-> IF i = 1 THEN s[i] ELSE g[i - 1] \o s[i]]
           flatten == CHOOSE g : g = body(g)
<1>1. FlattenSeq(s) = flatten[Len(s)]
  BY DEF FlattenSeq
<1>2. f = body(f)
  BY DEF Joins
<1>3. flatten = body(flatten)
  BY <1>2
<1>4. Joins(flatten, s, Len(s))
  BY <1>3 DEF Joins
<1> HIDE DEF flatten
<1> QED BY <1>1, <1>4, JoinsOnce

LEMMA JoinsExist ==
    ASSUME NEW s
    PROVE  \A n \in Nat : \E f : Joins(f, s, n)
<1> DEFINE Reached == {n \in Nat : \E f : Joins(f, s, n)}
<1>1. 0 \in Reached
  <2> DEFINE f == [i \in 1 .. 0 |-> s[i]]
  <2>1. Joins(f, s, 0)
    BY DEF Joins
  <2> QED BY <2>1
<1>2. \A n \in Nat : n \in Reached => n + 1 \in Reached
  <2> TAKE n \in Nat
  <2> HAVE n \in Reached
  <2>1. PICK f : Joins(f, s, n)
    OBVIOUS
  <2>2. PICK g : g = [i \in 1 .. n + 1 |->
                        IF i = 1 THEN s[i] ELSE IF i = n + 1 THEN f[n] \o s[i] ELSE f[i]]
    OBVIOUS
  <2>3. \A i \in 1 .. n : f[i] = (IF i = 1 THEN s[i] ELSE f[i - 1] \o s[i])
    BY <2>1 DEF Joins
  <2>4. \A i \in 1 .. n : g[i] = f[i]
    BY <2>2, <2>3
  <2>5. ASSUME NEW i \in 1 .. n + 1
        PROVE  g[i] = IF i = 1 THEN s[i] ELSE g[i - 1] \o s[i]
    <3>1. CASE i = 1 BY <2>2, <3>1
    <3>2. CASE i # 1 /\ i = n + 1
      <4>1. n \in 1 .. n /\ i - 1 = n
        BY <3>2
      <4> QED BY <2>2, <2>4, <3>2, <4>1
    <3>3. CASE i # 1 /\ i # n + 1
      <4>1. i \in 1 .. n /\ i - 1 \in 1 .. n
        BY <3>3
      <4> QED BY <2>3, <2>4, <3>3, <4>1
    <3> QED BY <3>1, <3>2, <3>3
  <2>6. g = [i \in 1 .. n + 1 |-> g[i]]
    BY <2>2
  <2>7. Joins(g, s, n + 1)
    BY <2>5, <2>6 DEF Joins
  <2> QED BY <2>7
<1> HIDE DEF Reached
<1>3. \A n \in Nat : n \in Reached
  BY <1>1, <1>2, AllNumbers
<1> QED BY <1>3 DEF Reached

LEMMA FlattenNone == FlattenSeq(<<>>) = <<>>
  BY DEF FlattenSeq

LEMMA FlattenAppend ==
    ASSUME NEW V, NEW s \in Seq(Seq(V)), NEW t \in Seq(V)
    PROVE  FlattenSeq(Append(s, t)) = FlattenSeq(s) \o t
<1> DEFINE n == Len(s)
           both == Append(s, t)
<1>1. /\ n \in Nat /\ Len(both) = n + 1 /\ both[n + 1] = t
      /\ \A i \in 1 .. n : both[i] = s[i]
  OBVIOUS
<1> HIDE DEF both, n
<1>2. PICK f : Joins(f, both, n + 1)
  <2>1. n + 1 \in Nat
    BY <1>1
  <2> QED BY <2>1, JoinsExist, Zenon
<1>3. FlattenSeq(both) = f[n + 1]
  BY <1>1, <1>2, FlattenIs
<1>4. \A i \in 1 .. n + 1 : f[i] = (IF i = 1 THEN both[i] ELSE f[i - 1] \o both[i])
  BY <1>2 DEF Joins
<1>5. CASE n = 0
  <2>1. s = <<>>
    BY <1>5 DEF n
  <2>2. f[1] = t
    BY <1>1, <1>4, <1>5
  <2> QED BY <1>3, <1>5, <2>1, <2>2, FlattenNone DEF both
<1>6. CASE n # 0
  <2>1. PICK g : g = [i \in 1 .. n |-> f[i]]
    OBVIOUS
  <2>2. ASSUME NEW i \in 1 .. n
        PROVE  g[i] = IF i = 1 THEN s[i] ELSE g[i - 1] \o s[i]
    <3>1. i \in 1 .. n + 1 /\ (i # 1 => i - 1 \in 1 .. n)
      BY <1>1
    <3> QED BY <1>1, <1>4, <2>1, <3>1
  <2>3. g = [i \in 1 .. n |-> IF i = 1 THEN s[i] ELSE g[i - 1] \o s[i]]
    <3>1. g = [i \in 1 .. n |-> g[i]]
      BY <2>1
    <3> QED BY <2>2, <3>1
  <2>4. Joins(g, s, n)
    BY <2>3 DEF Joins
  <2>5. FlattenSeq(s) = g[n]
    BY <1>1, <1>6, <2>4, FlattenIs DEF n
  <2>6. f[n + 1] = f[n] \o t
    <3>1. n + 1 \in 1 .. n + 1 /\ n + 1 # 1 /\ (n + 1) - 1 = n
      BY <1>1, <1>6
    <3> QED BY <1>1, <1>4, <3>1
  <2>7. g[n] = f[n]
    BY <1>1, <1>6, <2>1
  <2> QED BY <1>3, <2>5, <2>6, <2>7 DEF both
<1> QED BY <1>5, <1>6

\* What is known of the sequences of each length is known of all, if an element more
\* at the end changes nothing.
LEMMA AllSequences ==
    ASSUME NEW S, NEW T, <<>> \in T,
           \A s \in Seq(S) : \A x \in S : s \in T => Append(s, x) \in T
    PROVE  \A s \in Seq(S) : s \in T
<1> DEFINE Known == {n \in Nat : \A s \in Seq(S) : Len(s) = n => s \in T}
<1>1. 0 \in Known
  <2>1. \A s \in Seq(S) : Len(s) = 0 => s = <<>>
    OBVIOUS
  <2> QED BY <2>1
<1>2. \A n \in Nat : n \in Known => n + 1 \in Known
  <2> TAKE n \in Nat
  <2> HAVE n \in Known
  <2> SUFFICES ASSUME NEW s \in Seq(S), Len(s) = n + 1 PROVE s \in T
    OBVIOUS
  <2>1. s # <<>>
    OBVIOUS
  <2>2. PICK t \in Seq(S), x \in S : s = Append(t, x)
    BY <2>1, SequenceEmptyOrAppend
  <2>3. Len(t) = n
    BY <2>2
  <2> QED BY <2>2, <2>3
<1> HIDE DEF Known
<1>3. \A n \in Nat : n \in Known
  BY <1>1, <1>2, AllNumbers
<1> SUFFICES ASSUME NEW s \in Seq(S) PROVE s \in T
  OBVIOUS
<1>4. Len(s) \in Nat
  OBVIOUS
<1> QED BY <1>3, <1>4 DEF Known

LEMMA FlattenType ==
    ASSUME NEW V, NEW s \in Seq(Seq(V))
    PROVE  FlattenSeq(s) \in Seq(V)
<1> DEFINE Known == {t \in Seq(Seq(V)) : FlattenSeq(t) \in Seq(V)}
<1>1. <<>> \in Known
  <2>1. <<>> \in Seq(Seq(V)) /\ <<>> \in Seq(V)
    OBVIOUS
  <2> QED BY <2>1, FlattenNone
<1>2. \A t \in Seq(Seq(V)) : \A x \in Seq(V) : t \in Known => Append(t, x) \in Known
  <2> SUFFICES ASSUME NEW t \in Seq(Seq(V)), NEW x \in Seq(V), t \in Known
               PROVE  Append(t, x) \in Known
    OBVIOUS
  <2>1. FlattenSeq(Append(t, x)) = FlattenSeq(t) \o x
    BY FlattenAppend
  <2>2. FlattenSeq(t) \o x \in Seq(V)
    OBVIOUS
  <2>3. Append(t, x) \in Seq(Seq(V))
    OBVIOUS
  <2> QED BY <2>1, <2>2, <2>3
<1> HIDE DEF Known
<1>3. s \in Known
  BY <1>1, <1>2, AllSequences
<1> QED BY <1>3 DEF Known

\* What comes after a prefix comes after what the prefix makes.
LEMMA FlattenConcat ==
    ASSUME NEW V, NEW s \in Seq(Seq(V)), NEW t \in Seq(Seq(V))
    PROVE  FlattenSeq(s \o t) = FlattenSeq(s) \o FlattenSeq(t)
<1> DEFINE Known == {u \in Seq(Seq(V)) : FlattenSeq(s \o u) = FlattenSeq(s) \o FlattenSeq(u)}
<1>1. <<>> \in Known
  <2>1. s \o <<>> = s
    BY ConcatEmptySeq
  <2>2. FlattenSeq(s) \o <<>> = FlattenSeq(s)
    BY FlattenType, ConcatEmptySeq
  <2>3. <<>> \in Seq(Seq(V))
    OBVIOUS
  <2> QED BY <2>1, <2>2, <2>3, FlattenNone
<1>2. \A u \in Seq(Seq(V)) : \A x \in Seq(V) : u \in Known => Append(u, x) \in Known
  <2> SUFFICES ASSUME NEW u \in Seq(Seq(V)), NEW x \in Seq(V), u \in Known
               PROVE  Append(u, x) \in Known
    OBVIOUS
  <2>1. s \o Append(u, x) = Append(s \o u, x) /\ s \o u \in Seq(Seq(V))
    OBVIOUS
  <2>2. FlattenSeq(Append(s \o u, x)) = FlattenSeq(s \o u) \o x
    BY <2>1, FlattenAppend
  <2>3. FlattenSeq(Append(u, x)) = FlattenSeq(u) \o x
    BY FlattenAppend
  <2>4. (FlattenSeq(s) \o FlattenSeq(u)) \o x = FlattenSeq(s) \o (FlattenSeq(u) \o x)
    <3>1. FlattenSeq(s) \in Seq(V)
      BY FlattenType
    <3>2. FlattenSeq(u) \in Seq(V)
      BY FlattenType
    <3> QED BY <3>1, <3>2, ConcatAssociative, SMTT(40)
  <2>5. Append(u, x) \in Seq(Seq(V))
    OBVIOUS
  <2>6. FlattenSeq(s \o u) = FlattenSeq(s) \o FlattenSeq(u)
    OBVIOUS
  <2>7. FlattenSeq(s \o Append(u, x)) = FlattenSeq(s) \o FlattenSeq(Append(u, x))
    BY <2>1, <2>2, <2>3, <2>4, <2>6
  <2> QED BY <2>5, <2>7
<1> HIDE DEF Known
<1>3. t \in Known
  BY <1>1, <1>2, AllSequences
<1> QED BY <1>3 DEF Known

LEMMA FlattenOne ==
    ASSUME NEW V, NEW x \in Seq(V)
    PROVE  FlattenSeq(<<x>>) = x
<1>1. <<x>> = Append(<<>>, x)
  OBVIOUS
<1>2. FlattenSeq(Append(<<>>, x)) = <<>> \o x
  <2>1. <<>> \in Seq(Seq(V))
    OBVIOUS
  <2> QED BY <2>1, FlattenAppend, FlattenNone
<1>3. <<>> \o x = x
  BY ConcatEmptySeq
<1> QED BY <1>1, <1>2, <1>3

\* Sequences of length l and more make a sequence of so many times l and more.
LEMMA FlattenLength ==
    ASSUME NEW V, NEW l \in Nat, NEW s \in Seq(Seq(V)), \A i \in 1 .. Len(s) : Len(s[i]) >= l
    PROVE  Len(FlattenSeq(s)) >= Len(s) * l
<1> DEFINE Long(t) == \A i \in 1 .. Len(t) : Len(t[i]) >= l
           Known == {t \in Seq(Seq(V)) : Long(t) => Len(FlattenSeq(t)) >= Len(t) * l}
<1>1. <<>> \in Known
  <2>1. Len(<<>>) = 0 /\ 0 * l = 0 /\ Len(<<>>) >= 0
    OBVIOUS
  <2> QED BY <2>1, FlattenNone
<1>2. \A t \in Seq(Seq(V)) : \A x \in Seq(V) : t \in Known => Append(t, x) \in Known
  <2> SUFFICES ASSUME NEW t \in Seq(Seq(V)), NEW x \in Seq(V), t \in Known
               PROVE  Append(t, x) \in Known
    OBVIOUS
  <2>0. Append(t, x) \in Seq(Seq(V))
    OBVIOUS
  <2> SUFFICES ASSUME Long(Append(t, x))
               PROVE  Len(FlattenSeq(Append(t, x))) >= Len(Append(t, x)) * l
    BY <2>0
  <2>1. /\ Len(t) \in Nat /\ Len(Append(t, x)) = Len(t) + 1
        /\ Append(t, x)[Len(t) + 1] = x
        /\ \A i \in 1 .. Len(t) : Append(t, x)[i] = t[i] /\ i \in 1 .. Len(t) + 1
    OBVIOUS
  <2>2. Long(t) /\ Len(x) >= l
    BY <2>1
  <2>3. FlattenSeq(t) \in Seq(V) /\ FlattenSeq(Append(t, x)) = FlattenSeq(t) \o x
    BY FlattenType, FlattenAppend
  <2>4. /\ Len(FlattenSeq(t)) \in Nat /\ Len(x) \in Nat
        /\ Len(FlattenSeq(t) \o x) = Len(FlattenSeq(t)) + Len(x)
    BY <2>3
  <2>5. Len(FlattenSeq(t)) >= Len(t) * l
    BY <2>2
  <2>6. (Len(t) + 1) * l = Len(t) * l + l /\ Len(t) * l \in Nat
    BY <2>1
  <2> HIDE DEF Long
  <2> QED BY <2>1, <2>2, <2>3, <2>4, <2>5, <2>6
<1>3. s \in Known
  <2> HIDE DEF Known
  <2> QED BY <1>1, <1>2, AllSequences
<1> QED BY <1>3

\* The i-th slot from f on, in a circular buffer of s slots.
At(f, i, s) == IF f + i - 1 < s THEN f + i - 1 ELSE f + i - 1 - s

\* The elements of a block.
Content(k) == [i \in 1 .. Filled(k) |-> k.data[At(k.front, i, k.size)]]

LEMMA AtIs ==
    ASSUME NEW s \in Nat, s >= 2, NEW f \in 0 .. s - 1, NEW i \in 1 .. s
    PROVE  (f + i - 1) % s = At(f, i, s)
<1>1. CASE f + i - 1 < s
  <2>1. f + i - 1 \in 0 .. s - 1
    BY <1>1
  <2> QED BY <1>1, <2>1 DEF At
<1>2. CASE ~ (f + i - 1 < s)
  <2>1. f + i - 1 - s \in 0 .. s - 1 /\ f + i - 1 - s \in Int
    BY <1>2
  <2>2. (f + i - 1 - s) % s = f + i - 1 - s
    BY <2>1
  <2>3. (f + i - 1) % s = (f + i - 1 - s) % s
    OBVIOUS
  <2> QED BY <1>2, <2>2, <2>3 DEF At
<1> QED BY <1>1, <1>2

LEMMA AtSlots ==
    ASSUME NEW s \in Nat, s >= 2, NEW f \in 0 .. s - 1, NEW t \in 0 .. s - 1
    PROVE  /\ \A i \in 1 .. s : At(f, i, s) \in 0 .. s - 1 /\ Behind(f, At(f, i, s), s) = i - 1
           /\ \A i \in 1 .. s - 1 : At(Succ(f, s), i, s) = At(f, i + 1, s)
           /\ At(f, Behind(f, t, s) + 1, s) = t
           /\ At(f, 1, s) = f
           /\ Behind(f, t, s) \in 0 .. s - 1
<1>1. \A i \in 1 .. s : At(f, i, s) \in 0 .. s - 1 /\ Behind(f, At(f, i, s), s) = i - 1
  BY DEF At, Behind
<1>2. \A i \in 1 .. s - 1 : At(Succ(f, s), i, s) = At(f, i + 1, s)
  BY DEF At, Succ
<1>3. At(f, Behind(f, t, s) + 1, s) = t /\ At(f, 1, s) = f
  BY DEF At, Behind
<1>4. Behind(f, t, s) \in 0 .. s - 1
  BY DEF Behind
<1> QED BY <1>1, <1>2, <1>3, <1>4

\* The same for the indices of a block.
LEMMA BlockSlots ==
    ASSUME NEW k, BlockInv(k)
    PROVE  /\ k.size \in Nat /\ k.size >= 2
           /\ k.front \in Slots(k) /\ k.tail \in Slots(k)
           /\ Filled(k) \in 0 .. k.size - 1
           /\ \A i \in 1 .. k.size : /\ At(k.front, i, k.size) \in Slots(k)
                                     /\ Behind(k.front, At(k.front, i, k.size), k.size) = i - 1
           /\ \A i \in 1 .. k.size - 1 :
                 At(Succ(k.front, k.size), i, k.size) = At(k.front, i + 1, k.size)
           /\ At(k.front, Filled(k) + 1, k.size) = k.tail
           /\ At(k.front, 1, k.size) = k.front
<1> DEFINE s == k.size
           f == k.front
           t == k.tail
<1>1. s \in Nat /\ s >= 2 /\ f \in 0 .. s - 1 /\ t \in 0 .. s - 1
  BY DEF BlockInv, Indices
<1> HIDE DEF s, f, t
<1>2. /\ \A i \in 1 .. s : At(f, i, s) \in 0 .. s - 1 /\ Behind(f, At(f, i, s), s) = i - 1
      /\ \A i \in 1 .. s - 1 : At(Succ(f, s), i, s) = At(f, i + 1, s)
      /\ At(f, Behind(f, t, s) + 1, s) = t
      /\ At(f, 1, s) = f
      /\ Behind(f, t, s) \in 0 .. s - 1
  BY <1>1, AtSlots
<1> QED BY <1>1, <1>2 DEF Filled, Slots, s, f, t

LEMMA ContentType ==
    ASSUME NEW k, BlockInv(k)
    PROVE  Content(k) \in Seq(Values \cup {Raw}) /\ Len(Content(k)) = Filled(k)
<1>1. Filled(k) \in Nat /\ \A i \in 1 .. Filled(k) : i \in 1 .. k.size
  BY BlockSlots
<1>2. \A i \in 1 .. Filled(k) : k.data[At(k.front, i, k.size)] \in Values \cup {Raw}
  BY <1>1, BlockSlots DEF BlockInv
<1>3. Content(k) \in [1 .. Filled(k) -> Values \cup {Raw}]
  BY <1>2 DEF Content
<1> QED BY <1>1, <1>3

LEMMA EmptyContent ==
    ASSUME NEW k, BlockInv(k), k.front = k.tail
    PROVE  Content(k) = <<>>
<1>1. Filled(k) = 0
  BY EmptyOrNot
<1>2. Len(Content(k)) = 0 /\ Content(k) \in Seq(Values \cup {Raw})
  BY <1>1, ContentType
<1> QED BY <1>2

LEMMA FirstContent ==
    ASSUME NEW k, BlockInv(k), k.front # k.tail
    PROVE  Content(k) # <<>> /\ Head(Content(k)) = k.data[k.front]
<1>1. Filled(k) \in Nat /\ Filled(k) # 0
  BY EmptyOrNot
<1>2. Content(k) \in Seq(Values \cup {Raw}) /\ Len(Content(k)) = Filled(k)
  BY ContentType
<1>3. Content(k)[1] = k.data[k.front]
  BY <1>1, BlockSlots DEF Content
<1> QED BY <1>1, <1>2, <1>3

\* The content depends on the slots that the block holds.
LEMMA SameContent ==
    ASSUME NEW k, NEW l, BlockInv(k), BlockInv(l),
           k.size = l.size, k.front = l.front, k.tail = l.tail,
           \A i \in Slots(k) : Holds(k, i) => k.data[i] = l.data[i]
    PROVE  Content(k) = Content(l)
<1>1. Filled(k) = Filled(l) /\ Filled(k) \in 0 .. k.size - 1
  BY BlockSlots DEF Filled
<1>2. ASSUME NEW i \in 1 .. Filled(k)
      PROVE  k.data[At(k.front, i, k.size)] = l.data[At(l.front, i, l.size)]
  <2>1. i \in 1 .. k.size /\ i - 1 < Filled(k)
    BY <1>1, BlockSlots
  <2>2. At(k.front, i, k.size) \in Slots(k) /\ Holds(k, At(k.front, i, k.size))
    BY <2>1, BlockSlots DEF Holds
  <2> QED BY <2>2
<1> QED BY <1>1, <1>2 DEF Content

\* The tail moves on: the slot that it passes is the last of the content.
LEMMA LongerContent ==
    ASSUME NEW k, NEW l, BlockInv(k), BlockInv(l),
           k.size = l.size, k.front = l.front, k.data = l.data, Filled(l) = Filled(k) + 1
    PROVE  Content(l) = Append(Content(k), k.data[k.tail])
<1> DEFINE n == Filled(k)
           more == Append(Content(k), k.data[k.tail])
<1>1. n \in Nat /\ Filled(l) = n + 1 /\ At(k.front, n + 1, k.size) = k.tail
  BY BlockSlots
<1>2. Content(k) \in Seq(Values \cup {Raw}) /\ Len(Content(k)) = n
  BY ContentType
<1>3. k.data[k.tail] \in Values \cup {Raw}
  BY BlockSlots DEF BlockInv
<1>4. \A i \in 1 .. n : Content(k)[i] = k.data[At(k.front, i, k.size)]
  BY DEF Content
<1> HIDE DEF n
<1>5. /\ more \in Seq(Values \cup {Raw}) /\ Len(more) = n + 1 /\ more[n + 1] = k.data[k.tail]
      /\ \A i \in 1 .. n : more[i] = Content(k)[i]
  BY <1>1, <1>2, <1>3
<1>6. more = [i \in 1 .. n + 1 |-> more[i]]
  BY <1>1, <1>5
<1> HIDE DEF more
<1>7. \A i \in 1 .. n + 1 : more[i] = k.data[At(k.front, i, k.size)]
  <2>1. \A i \in 1 .. n + 1 : i = n + 1 \/ i \in 1 .. n
    BY <1>1
  <2> QED BY <1>1, <1>4, <1>5, <2>1
<1>8. Content(l) = [i \in 1 .. n + 1 |-> k.data[At(k.front, i, k.size)]]
  BY <1>1 DEF Content
<1> QED BY <1>6, <1>7, <1>8 DEF more

\* The front moves on: the content loses the first.
LEMMA ShorterContent ==
    ASSUME NEW k, NEW l, BlockInv(k), BlockInv(l), k.front # k.tail,
           k.size = l.size, l.front = Succ(k.front, k.size), k.data = l.data,
           Filled(l) = Filled(k) - 1
    PROVE  Content(l) = Tail(Content(k))
<1> DEFINE n == Filled(k)
           less == Tail(Content(k))
<1>1. n \in Nat /\ n # 0 /\ n < k.size /\ Filled(l) = n - 1 /\ k.size \in Nat
  BY BlockSlots, EmptyOrNot
<1>2. Content(k) \in Seq(Values \cup {Raw}) /\ Len(Content(k)) = n
  BY ContentType
<1>3. \A i \in 1 .. n : Content(k)[i] = k.data[At(k.front, i, k.size)]
  BY DEF Content
<1> HIDE DEF n
<1>4. /\ less \in Seq(Values \cup {Raw}) /\ Len(less) = n - 1
      /\ \A i \in 1 .. n - 1 : less[i] = Content(k)[i + 1]
  BY <1>1, <1>2
<1>5. less = [i \in 1 .. n - 1 |-> less[i]]
  <2>1. less \in [1 .. Len(less) -> Values \cup {Raw}]
    BY <1>4, LenProperties
  <2> QED BY <1>4, <2>1
<1> HIDE DEF less
<1>6. \A i \in 1 .. n - 1 : less[i] = k.data[At(k.front, i + 1, k.size)]
  BY <1>1, <1>3, <1>4
<1>7. \A i \in 1 .. n - 1 : At(l.front, i, l.size) = At(k.front, i + 1, k.size)
  <2>1. \A i \in 1 .. n - 1 : i \in 1 .. k.size - 1
    BY <1>1
  <2> QED BY <2>1, BlockSlots
<1>8. Content(l) = [i \in 1 .. n - 1 |-> k.data[At(l.front, i, l.size)]]
  BY <1>1 DEF Content
<1> QED BY <1>5, <1>6, <1>7, <1>8 DEF less

\* The element at the front is destroyed: the content is as it was behind it.
LEMMA SameRest ==
    ASSUME NEW k, NEW l, BlockInv(k), BlockInv(l), k.front # k.tail,
           k.size = l.size, k.front = l.front, k.tail = l.tail,
           \A i \in Slots(k) : i # k.front => k.data[i] = l.data[i]
    PROVE  Content(l) # <<>> /\ Tail(Content(l)) = Tail(Content(k))
<1> DEFINE n == Filled(k)
<1>1. n \in Nat /\ n # 0 /\ Filled(l) = n /\ n < k.size
  BY BlockSlots, EmptyOrNot DEF Filled
<1>2. /\ Content(k) \in Seq(Values \cup {Raw}) /\ Len(Content(k)) = n
      /\ Content(l) \in Seq(Values \cup {Raw}) /\ Len(Content(l)) = n
  BY <1>1, ContentType
<1>3. \A i \in 2 .. n : Content(k)[i] = Content(l)[i]
  <2>1. SUFFICES ASSUME NEW i \in 2 .. n PROVE Content(k)[i] = Content(l)[i]
    OBVIOUS
  <2>2. i \in 1 .. n /\ i \in 1 .. k.size /\ 1 \in 1 .. k.size /\ i - 1 # 1 - 1
    BY <1>1, BlockSlots
  <2>3. At(k.front, i, k.size) \in Slots(k) /\ At(k.front, i, k.size) # k.front
    BY <2>2, BlockSlots
  <2>4. k.data[At(k.front, i, k.size)] = l.data[At(l.front, i, l.size)]
    BY <2>3
  <2> QED BY <1>1, <2>2, <2>4 DEF Content
<1> HIDE DEF n
<1>4. /\ Tail(Content(k)) \in Seq(Values \cup {Raw}) /\ Len(Tail(Content(k))) = n - 1
      /\ Tail(Content(l)) \in Seq(Values \cup {Raw}) /\ Len(Tail(Content(l))) = n - 1
      /\ \A i \in 1 .. n - 1 : /\ Tail(Content(k))[i] = Content(k)[i + 1]
                               /\ Tail(Content(l))[i] = Content(l)[i + 1]
  BY <1>1, <1>2
<1>5. \A i \in 1 .. n - 1 : Tail(Content(k))[i] = Tail(Content(l))[i]
  BY <1>1, <1>3, <1>4
<1> QED BY <1>1, <1>2, <1>4, <1>5, SeqEqual

-----------------------------------------------------------------------------
(* The elements of the queue, block by block.                                *)

ContentsOf(bs, b) ==
    [k \in 1 .. ((bs[b].tail - bs[b].front) % bs[b].size) |->
        bs[b].data[(bs[b].front + k - 1) % bs[b].size]]

\* Elements, of these blocks.
ElementsOf(bs, front, tail) ==
    LET nth[k \in 0 .. Cardinality(DOMAIN bs)] ==
            IF k = 0 THEN front ELSE bs[nth[k - 1]].next
        last == CHOOSE k \in DOMAIN nth :
                    nth[k] = tail /\ \A j \in 0 .. k - 1 : nth[j] # tail
    IN  FlattenSeq([k \in 1 .. last + 1 |-> ContentsOf(bs, nth[k - 1])])

LEMMA ElementsAreThose == Elements = ElementsOf(blocks, frontBlock, tailBlock)
  BY Zenon DEF Elements, ElementsOf, Contents, ContentsOf

LEMMA ElementsWillBeThose == Elements' = ElementsOf(blocks', frontBlock', tailBlock')
  BY Zenon DEF Elements, ElementsOf, Contents, ContentsOf

\* These are blocks of a circle.
Sound(bs) ==
    /\ \E n \in Nat : DOMAIN bs = 1 .. n
    /\ \A b \in DOMAIN bs : BlockInv(bs[b]) /\ bs[b].next \in DOMAIN bs

\* The blocks from the front one to the tail one.
Path(bs, front, tail, live, first, last) ==
    /\ live \in [Nat -> DOMAIN bs] /\ first \in Nat /\ last \in Nat /\ first <= last
    /\ live[first] = front /\ live[last] = tail
    /\ \A i \in first .. last - 1 : bs[live[i]].next = live[i + 1]
    /\ \A i, j \in first .. last : live[i] = live[j] => i = j

\* Their contents.
Along(bs, live, first, last) == [i \in 1 .. last - first + 1 |-> Content(bs[live[first + i - 1]])]

LEMMA ContentsAre ==
    ASSUME NEW bs, Sound(bs), NEW b \in DOMAIN bs
    PROVE  ContentsOf(bs, b) = Content(bs[b])
<1> DEFINE k == bs[b]
<1>1. BlockInv(k)
  BY DEF Sound
<1>2. ContentsOf(bs, b) = [i \in 1 .. ((k.tail - k.front) % k.size) |->
                              k.data[(k.front + i - 1) % k.size]]
  BY DEF ContentsOf
<1> HIDE DEF k
<1>3. /\ k.size \in Nat /\ k.size >= 2 /\ k.front \in 0 .. k.size - 1
      /\ k.tail \in 0 .. k.size - 1 /\ Filled(k) \in 0 .. k.size - 1
  BY <1>1, BlockSlots DEF Slots
<1>4. (k.tail - k.front) % k.size = Filled(k)
  BY <1>3, BehindIs DEF Filled
<1>5. \A i \in 1 .. Filled(k) : (k.front + i - 1) % k.size = At(k.front, i, k.size)
  <2>1. \A i \in 1 .. Filled(k) : i \in 1 .. k.size
    BY <1>3
  <2> QED BY <1>3, <2>1, AtIs
<1>6. ContentsOf(bs, b) = Content(k)
  BY <1>2, <1>4, <1>5 DEF Content
<1> QED BY <1>6 DEF k

\* What a number of steps along the circle leads to.
Goes(f, bs, front, n) == f = [k \in 0 .. n |-> IF k = 0 THEN front ELSE bs[f[k - 1]].next]

LEMMA GoesExist ==
    ASSUME NEW bs, NEW front
    PROVE  \A n \in Nat : \E f : Goes(f, bs, front, n)
<1> DEFINE Reached == {n \in Nat : \E f : Goes(f, bs, front, n)}
<1>1. 0 \in Reached
  <2>1. PICK f : f = [k \in 0 .. 0 |-> front]
    OBVIOUS
  <2>2. Goes(f, bs, front, 0)
    BY <2>1 DEF Goes
  <2> QED BY <2>2
<1>2. \A n \in Nat : n \in Reached => n + 1 \in Reached
  <2> TAKE n \in Nat
  <2> HAVE n \in Reached
  <2>1. PICK f : Goes(f, bs, front, n)
    OBVIOUS
  <2>2. PICK g : g = [k \in 0 .. n + 1 |-> IF k = n + 1 THEN bs[f[n]].next ELSE f[k]]
    OBVIOUS
  <2>3. \A k \in 0 .. n : f[k] = (IF k = 0 THEN front ELSE bs[f[k - 1]].next)
    BY <2>1 DEF Goes
  <2>4. \A k \in 0 .. n : g[k] = f[k]
    BY <2>2
  <2>5. ASSUME NEW k \in 0 .. n + 1
        PROVE  g[k] = IF k = 0 THEN front ELSE bs[g[k - 1]].next
    <3>1. CASE k = n + 1
      <4>1. n \in 0 .. n /\ k - 1 = n /\ k # 0
        BY <3>1
      <4> QED BY <2>2, <2>4, <3>1, <4>1
    <3>2. CASE k # n + 1
      <4>1. k \in 0 .. n /\ (k # 0 => k - 1 \in 0 .. n)
        BY <3>2
      <4> QED BY <2>3, <2>4, <4>1
    <3> QED BY <3>1, <3>2
  <2>6. g = [k \in 0 .. n + 1 |-> g[k]]
    BY <2>2
  <2>7. Goes(g, bs, front, n + 1)
    BY <2>5, <2>6 DEF Goes
  <2> QED BY <2>7
<1> HIDE DEF Reached
<1>3. \A n \in Nat : n \in Reached
  BY <1>1, <1>2, AllNumbers
<1> QED BY <1>3 DEF Reached

\* The blocks are no more than there are.
LEMMA PathIsShort ==
    ASSUME NEW bs, Sound(bs), NEW front, NEW tail, NEW live, NEW first, NEW last,
           Path(bs, front, tail, live, first, last)
    PROVE  /\ Cardinality(DOMAIN bs) \in Nat
           /\ last - first + 1 <= Cardinality(DOMAIN bs)
<1>1. PICK n \in Nat : DOMAIN bs = 1 .. n
  BY DEF Sound
<1>2. IsFiniteSet(DOMAIN bs) /\ Cardinality(DOMAIN bs) = n
  BY <1>1, FS_Interval
<1>3. first \in Nat /\ last \in Nat /\ first <= last
  BY DEF Path
<1>4. IsFiniteSet(first .. last) /\ Cardinality(first .. last) = last - first + 1
  BY <1>3, FS_Interval
<1>5. PICK f : f = [i \in first .. last |-> live[i]]
  OBVIOUS
<1>6. f \in Injection(first .. last, DOMAIN bs)
  <2>1. f \in [first .. last -> DOMAIN bs]
    BY <1>3, <1>5 DEF Path
  <2>2. \A i, j \in first .. last : f[i] = f[j] => i = j
    BY <1>5 DEF Path
  <2> QED BY <2>1, <2>2 DEF Injection, IsInjective
<1>7. Cardinality(first .. last) <= Cardinality(DOMAIN bs)
  BY <1>2, <1>4, <1>6, FS_Injection
<1> QED BY <1>1, <1>2, <1>4, <1>7

\* Elements goes along them.
LEMMA ElementsAre ==
    ASSUME NEW bs, Sound(bs), NEW front, NEW tail, NEW live, NEW first, NEW last,
           Path(bs, front, tail, live, first, last)
    PROVE  ElementsOf(bs, front, tail) = FlattenSeq(Along(bs, live, first, last))
<1> DEFINE N == Cardinality(DOMAIN bs)
           body(f) == [k \in 0 .. N |-> IF k = 0 THEN front ELSE bs[f[k - 1]].next]
           nth == CHOOSE f : f = body(f)
           Ends(k) == nth[k] = tail /\ \A j \in 0 .. k - 1 : nth[j] # tail
           end == CHOOSE k \in DOMAIN nth : Ends(k)
           length == last - first
<1>1. ElementsOf(bs, front, tail) =
          FlattenSeq([k \in 1 .. end + 1 |-> ContentsOf(bs, nth[k - 1])])
  BY Zenon DEF ElementsOf
<1>2. /\ N \in Nat /\ first \in Nat /\ last \in Nat /\ first <= last
      /\ length \in Nat /\ length + 1 <= N
  <2>1. N \in Nat /\ length + 1 <= N
    BY PathIsShort
  <2>2. first \in Nat /\ last \in Nat /\ first <= last
    BY DEF Path
  <2> QED BY <2>1, <2>2
<1> HIDE DEF N
<1>3. \A f : Goes(f, bs, front, N) <=> f = body(f)
  BY DEF Goes
<1>4. nth = body(nth)
  <2>1. PICK f : Goes(f, bs, front, N)
    BY <1>2, GoesExist
  <2>2. f = body(f)
    BY <1>3, <2>1
  <2> QED BY <2>2
<1> HIDE DEF nth
<1>5. /\ DOMAIN nth = 0 .. N
      /\ \A k \in 0 .. N : nth[k] = (IF k = 0 THEN front ELSE bs[nth[k - 1]].next)
  BY <1>4
<1> DEFINE Known == {k \in Nat : k <= length => nth[k] = live[first + k]}
<1>6. 0 \in Known
  BY <1>2, <1>5 DEF Path
<1>7. \A k \in Nat : k \in Known => k + 1 \in Known
  <2> SUFFICES ASSUME NEW k \in Nat, k \in Known, k + 1 <= length
               PROVE  nth[k + 1] = live[first + (k + 1)]
    OBVIOUS
  <2>1. k <= length /\ k + 1 \in 0 .. N /\ k + 1 # 0 /\ (k + 1) - 1 = k
    BY <1>2
  <2>2. nth[k] = live[first + k]
    BY <2>1
  <2>3. nth[k + 1] = bs[nth[k]].next
    BY <1>5, <2>1
  <2>4. first + k \in first .. last - 1 /\ (first + k) + 1 = first + (k + 1)
    BY <1>2, <2>1
  <2> QED BY <2>2, <2>3, <2>4 DEF Path
<1> HIDE DEF Known
<1>8. \A k \in Nat : k \in Known
  BY <1>6, <1>7, AllNumbers
<1>9. \A k \in 0 .. length : nth[k] = live[first + k]
  <2>1. \A k \in 0 .. length : k \in Nat /\ k <= length
    BY <1>2
  <2> QED BY <1>8, <2>1 DEF Known
<1>10. nth[length] = tail
  <2>1. length \in 0 .. length /\ first + length = last
    BY <1>2
  <2> QED BY <1>9, <2>1 DEF Path
<1>11. \A j \in 0 .. length - 1 : nth[j] # tail
  <2>1. SUFFICES ASSUME NEW j \in 0 .. length - 1 PROVE nth[j] # tail
    OBVIOUS
  <2>2. j \in 0 .. length /\ first + j \in first .. last /\ last \in first .. last
        /\ first + j # last
    BY <1>2
  <2> QED BY <1>9, <2>2 DEF Path
<1>12. end = length
  <2>1. length \in DOMAIN nth /\ Ends(length)
    BY <1>2, <1>5, <1>10, <1>11
  <2>2. \A k \in DOMAIN nth : Ends(k) => k = length
    <3>1. SUFFICES ASSUME NEW k \in DOMAIN nth, Ends(k) PROVE k = length
      OBVIOUS
    <3>2. k \in 0 .. N
      BY <1>5
    <3>3. ~ (k < length)
      <4>1. k < length => k \in 0 .. length - 1
        BY <1>2, <3>2
      <4> QED BY <1>11, <3>1, <4>1
    <3>4. ~ (length < k)
      <4>1. length < k => length \in 0 .. k - 1
        BY <1>2, <3>2
      <4> QED BY <1>10, <3>1, <4>1
    <3> QED BY <1>2, <3>2, <3>3, <3>4
  <2> HIDE DEF Ends
  <2> QED BY <2>1, <2>2
<1> HIDE DEF end
<1>13. ASSUME NEW k \in 1 .. length + 1
       PROVE  ContentsOf(bs, nth[k - 1]) = Content(bs[live[first + k - 1]])
  <2>1. k - 1 \in 0 .. length /\ first + (k - 1) = first + k - 1 /\ first + k - 1 \in Nat
    BY <1>2
  <2>2. nth[k - 1] = live[first + k - 1] /\ live[first + k - 1] \in DOMAIN bs
    BY <1>9, <2>1 DEF Path
  <2> QED BY <2>2, ContentsAre
<1> QED BY <1>1, <1>12, <1>13 DEF Along

Slot == Values \cup {Raw}

LEMMA AlongType ==
    ASSUME NEW bs, Sound(bs), NEW live \in [Nat -> DOMAIN bs], NEW first \in Nat,
           NEW last \in Int, first <= last + 1
    PROVE  /\ Along(bs, live, first, last) \in Seq(Seq(Slot))
           /\ Len(Along(bs, live, first, last)) = last - first + 1
           /\ FlattenSeq(Along(bs, live, first, last)) \in Seq(Slot)
<1> DEFINE n == last - first + 1
<1>1. n \in Nat
  OBVIOUS
<1>2. \A i \in 1 .. n : Content(bs[live[first + i - 1]]) \in Seq(Slot)
  <2>1. SUFFICES ASSUME NEW i \in 1 .. n PROVE Content(bs[live[first + i - 1]]) \in Seq(Slot)
    OBVIOUS
  <2>2. first + i - 1 \in Nat
    OBVIOUS
  <2>3. BlockInv(bs[live[first + i - 1]])
    BY <2>2 DEF Sound
  <2> QED BY <2>3, ContentType DEF Slot
<1>3. Along(bs, live, first, last) \in [1 .. n -> Seq(Slot)]
  BY <1>2 DEF Along
<1> HIDE DEF n
<1>4. Along(bs, live, first, last) \in Seq(Seq(Slot)) /\ Len(Along(bs, live, first, last)) = n
  BY <1>1, <1>3
<1> QED BY <1>4, FlattenType DEF n

\* Two blocks' worth of steps along the circle: what goes before, and what is left.
LEMMA AlongSplits ==
    ASSUME NEW bs, Sound(bs), NEW live \in [Nat -> DOMAIN bs], NEW first \in Nat,
           NEW last \in Nat, first <= last
    PROVE  /\ Along(bs, live, first, last) =
                  <<Content(bs[live[first]])>> \o Along(bs, live, first + 1, last)
           /\ Along(bs, live, first, last) =
                  Append(Along(bs, live, first, last - 1), Content(bs[live[last]]))
<1> DEFINE n == last - first + 1
           all == Along(bs, live, first, last)
           most == Along(bs, live, first, last - 1)
           rest == Along(bs, live, first + 1, last)
           head == Content(bs[live[first]])
           end == Content(bs[live[last]])
<1>1. n \in Nat /\ n >= 1 /\ last - 1 \in Int
  OBVIOUS
<1>2. head \in Seq(Slot) /\ end \in Seq(Slot)
  BY ContentType DEF Sound, Slot
<1>3. /\ all \in Seq(Seq(Slot)) /\ Len(all) = n
      /\ \A i \in 1 .. n : all[i] = Content(bs[live[first + i - 1]])
  <2>1. first <= last + 1 /\ last \in Int
    BY <1>1
  <2>2. all \in Seq(Seq(Slot)) /\ Len(all) = n
    BY <2>1, AlongType
  <2>3. \A i \in 1 .. n : all[i] = Content(bs[live[first + i - 1]])
    BY DEF Along
  <2> QED BY <2>2, <2>3
<1>4. /\ most \in Seq(Seq(Slot)) /\ Len(most) = n - 1
      /\ \A i \in 1 .. n - 1 : most[i] = Content(bs[live[first + i - 1]])
  <2>1. (last - 1) - first + 1 = n - 1 /\ first <= (last - 1) + 1
    BY <1>1
  <2>2. most \in Seq(Seq(Slot)) /\ Len(most) = n - 1
    BY <1>1, <2>1, AlongType
  <2>3. \A i \in 1 .. n - 1 : most[i] = Content(bs[live[first + i - 1]])
    BY <2>1 DEF Along
  <2> QED BY <2>2, <2>3
<1>5. /\ rest \in Seq(Seq(Slot)) /\ Len(rest) = n - 1
      /\ \A i \in 1 .. n - 1 : rest[i] = Content(bs[live[first + i]])
  <2>1. last - (first + 1) + 1 = n - 1 /\ first + 1 \in Nat /\ first + 1 <= last + 1
    BY <1>1
  <2>2. rest \in Seq(Seq(Slot)) /\ Len(rest) = n - 1
    BY <1>1, <2>1, AlongType
  <2>3. \A i \in 1 .. n - 1 : rest[i] = Content(bs[live[(first + 1) + i - 1]])
    BY <2>1 DEF Along
  <2>4. \A i \in 1 .. n - 1 : (first + 1) + i - 1 = first + i
    BY <1>1
  <2> QED BY <2>2, <2>3, <2>4
<1>6. first + 1 - 1 = first /\ first + n - 1 = last
  BY <1>1
<1>7. all[1] = head /\ all[n] = end
  BY <1>1, <1>3, <1>6
<1>8. \A i \in 2 .. n : i - 1 \in 1 .. n - 1 /\ i \in 1 .. n /\ first + i - 1 = first + (i - 1)
  BY <1>1
<1>9. \A i \in 2 .. n : all[i] = rest[i - 1]
  BY <1>3, <1>5, <1>8
<1>10. \A i \in 1 .. n - 1 : all[i] = most[i]
  BY <1>1, <1>3, <1>4
<1> HIDE DEF n, all, most, rest, head, end
<1>11. all = <<head>> \o rest
  <2>1. /\ <<head>> \o rest \in Seq(Seq(Slot)) /\ Len(<<head>> \o rest) = n
        /\ (<<head>> \o rest)[1] = head
        /\ \A i \in 2 .. n : (<<head>> \o rest)[i] = rest[i - 1]
    BY <1>1, <1>2, <1>5
  <2>2. \A i \in 1 .. n : (<<head>> \o rest)[i] = all[i]
    <3>1. \A i \in 1 .. n : i = 1 \/ i \in 2 .. n
      BY <1>1
    <3> QED BY <1>7, <1>9, <2>1, <3>1
  <2> QED BY <1>3, <2>1, <2>2, SeqEqual
<1>12. all = Append(most, end)
  <2>1. /\ Append(most, end) \in Seq(Seq(Slot)) /\ Len(Append(most, end)) = n
        /\ Append(most, end)[n] = end
        /\ \A i \in 1 .. n - 1 : Append(most, end)[i] = most[i]
    BY <1>1, <1>2, <1>4
  <2>2. \A i \in 1 .. n : Append(most, end)[i] = all[i]
    <3>1. \A i \in 1 .. n : i = n \/ i \in 1 .. n - 1
      BY <1>1
    <3> QED BY <1>7, <1>10, <2>1, <3>1
  <2> QED BY <1>3, <2>1, <2>2, SeqEqual
<1> QED BY <1>11, <1>12 DEF all, most, rest, head, end

\* The elements, as those of the first block and the others, and as those of the last
\* and the others.
LEMMA ElementsSplit ==
    ASSUME NEW bs, NEW front, NEW tail, NEW live, NEW first, NEW last,
           Sound(bs), Path(bs, front, tail, live, first, last)
    PROVE  /\ ElementsOf(bs, front, tail) \in Seq(Slot)
           /\ Content(bs[front]) \in Seq(Slot) /\ Content(bs[tail]) \in Seq(Slot)
           /\ FlattenSeq(Along(bs, live, first + 1, last)) \in Seq(Slot)
           /\ FlattenSeq(Along(bs, live, first, last - 1)) \in Seq(Slot)
           /\ ElementsOf(bs, front, tail) =
                  Content(bs[front]) \o FlattenSeq(Along(bs, live, first + 1, last))
           /\ ElementsOf(bs, front, tail) =
                  FlattenSeq(Along(bs, live, first, last - 1)) \o Content(bs[tail])
<1> DEFINE all == Along(bs, live, first, last)
           most == Along(bs, live, first, last - 1)
           rest == Along(bs, live, first + 1, last)
<1>1. /\ live \in [Nat -> DOMAIN bs] /\ first \in Nat /\ last \in Nat /\ first <= last
      /\ live[first] = front /\ live[last] = tail
  BY DEF Path
<1>2. ElementsOf(bs, front, tail) = FlattenSeq(all)
  BY ElementsAre
<1>3. Content(bs[front]) \in Seq(Slot) /\ Content(bs[tail]) \in Seq(Slot)
  BY <1>1, ContentType DEF Sound, Slot
<1>4. /\ first + 1 \in Nat /\ last - 1 \in Int /\ last \in Int
      /\ first <= (last - 1) + 1 /\ first + 1 <= last + 1 /\ first <= last + 1
  BY <1>1
<1>5. FlattenSeq(all) \in Seq(Slot)
  BY <1>1, <1>4, AlongType
<1>6. most \in Seq(Seq(Slot)) /\ FlattenSeq(most) \in Seq(Slot)
  BY <1>1, <1>4, AlongType
<1>7. rest \in Seq(Seq(Slot)) /\ FlattenSeq(rest) \in Seq(Slot)
  BY <1>1, <1>4, AlongType
<1>8. all = <<Content(bs[front])>> \o rest /\ all = Append(most, Content(bs[tail]))
  BY <1>1, AlongSplits
<1> HIDE DEF all, most, rest
<1>9. FlattenSeq(Append(most, Content(bs[tail]))) = FlattenSeq(most) \o Content(bs[tail])
  BY <1>3, <1>6, FlattenAppend
<1>10. FlattenSeq(<<Content(bs[front])>> \o rest) = Content(bs[front]) \o FlattenSeq(rest)
  <2>1. <<Content(bs[front])>> \in Seq(Seq(Slot))
    BY <1>3
  <2>2. FlattenSeq(<<Content(bs[front])>>) = Content(bs[front])
    BY <1>3, FlattenOne
  <2> QED BY <1>7, <2>1, <2>2, FlattenConcat
<1> QED BY <1>2, <1>3, <1>5, <1>6, <1>7, <1>8, <1>9, <1>10 DEF most, rest

\* One sequence goes on with another.
Joined(e, s, t) == s \in Seq(Slot) /\ t \in Seq(Slot) /\ e \in Seq(Slot) /\ e = s \o t

LEMMA TailOfBoth ==
    ASSUME NEW S, NEW s \in Seq(S), s # <<>>, NEW r \in Seq(S)
    PROVE  /\ s \o r # <<>> /\ Head(s \o r) = Head(s)
           /\ Tail(s \o r) = Tail(s) \o r /\ Tail(s) \in Seq(S)
<1> DEFINE t == s \o r
           u == Tail(s) \o r
<1>1. /\ Len(s) \in Nat /\ Len(s) >= 1 /\ Len(r) \in Nat /\ t \in Seq(S)
      /\ Len(t) = Len(s) + Len(r) /\ Tail(s) \in Seq(S) /\ Len(Tail(s)) = Len(s) - 1
  OBVIOUS
<1>2. t # <<>> /\ Head(t) = Head(s)
  BY <1>1
<1>3. u \in Seq(S) /\ Len(u) = Len(s) - 1 + Len(r)
  BY <1>1
<1>4. Tail(t) \in Seq(S) /\ Len(Tail(t)) = Len(t) - 1
  BY <1>1, <1>2
<1>5. \A i \in 1 .. Len(s) - 1 + Len(r) : Tail(t)[i] = u[i]
  <2>1. TAKE i \in 1 .. Len(s) - 1 + Len(r)
  <2>2. Tail(t)[i] = t[i + 1]
    BY <1>1, <1>2
  <2>3. t[i + 1] = IF i + 1 <= Len(s) THEN s[i + 1] ELSE r[i + 1 - Len(s)]
    BY <1>1
  <2>4. u[i] = IF i <= Len(s) - 1 THEN Tail(s)[i] ELSE r[i - (Len(s) - 1)]
    BY <1>1
  <2>5. i <= Len(s) - 1 => Tail(s)[i] = s[i + 1]
    BY <1>1
  <2>6. i + 1 - Len(s) = i - (Len(s) - 1) /\ (i + 1 <= Len(s) <=> i <= Len(s) - 1)
    BY <1>1
  <2> QED BY <2>2, <2>3, <2>4, <2>5, <2>6
<1> HIDE DEF t, u
<1>6. Tail(t) = u
  BY <1>1, <1>3, <1>4, <1>5
<1> QED BY <1>1, <1>2, <1>6 DEF t, u

LEMMA JoinedOnce ==
    ASSUME NEW e, NEW f, NEW s, NEW t, Joined(e, s, t), Joined(f, s, t)
    PROVE  e = f
  BY DEF Joined

LEMMA JoinedGrows ==
    ASSUME NEW e, NEW f, NEW s, NEW t, NEW x \in Slot, Joined(e, s, t), Joined(f, s, Append(t, x))
    PROVE  f = Append(e, x)
<1>1. s \in Seq(Slot) /\ t \in Seq(Slot) /\ e = s \o t /\ f = s \o Append(t, x)
  BY DEF Joined
<1>2. s \o Append(t, x) = Append(s \o t, x)
  BY <1>1
<1> QED BY <1>1, <1>2

LEMMA JoinedShrinks ==
    ASSUME NEW e, NEW s, NEW t, Joined(e, s, t), s # <<>>
    PROVE  /\ e \in Seq(Slot) /\ e # <<>> /\ Head(e) = Head(s)
           /\ Joined(Tail(e), Tail(s), t)
<1>1. s \in Seq(Slot) /\ t \in Seq(Slot) /\ e \in Seq(Slot) /\ e = s \o t
  BY DEF Joined
<1>2. /\ s \o t # <<>> /\ Head(s \o t) = Head(s)
      /\ Tail(s \o t) = Tail(s) \o t /\ Tail(s) \in Seq(Slot)
  BY <1>1, TailOfBoth
<1>3. Tail(e) \in Seq(Slot)
  BY <1>1, <1>2
<1> QED BY <1>1, <1>2, <1>3 DEF Joined

\* What is behind the first block.
LEMMA FirstAndRest ==
    ASSUME NEW bs, NEW front, NEW tail, NEW live, NEW first, NEW last,
           Sound(bs), Path(bs, front, tail, live, first, last)
    PROVE  Joined(ElementsOf(bs, front, tail), Content(bs[front]),
                  FlattenSeq(Along(bs, live, first + 1, last)))
  BY ElementsSplit DEF Joined

\* What is before the last block.
LEMMA MostAndLast ==
    ASSUME NEW bs, NEW front, NEW tail, NEW live, NEW first, NEW last,
           Sound(bs), Path(bs, front, tail, live, first, last)
    PROVE  Joined(ElementsOf(bs, front, tail), FlattenSeq(Along(bs, live, first, last - 1)),
                  Content(bs[tail]))
  BY ElementsSplit DEF Joined

\* Contents that stay.
LEMMA AlongStays ==
    ASSUME NEW bs, NEW cs, NEW live \in [Nat -> DOMAIN bs], NEW first \in Nat, NEW last \in Int,
           \A i \in first .. last : Content(cs[live[i]]) = Content(bs[live[i]])
    PROVE  Along(cs, live, first, last) = Along(bs, live, first, last)
<1>1. \A i \in 1 .. last - first + 1 : first + i - 1 \in first .. last
  OBVIOUS
<1> QED BY <1>1 DEF Along

\* A path that stays.
LEMMA PathStays ==
    ASSUME NEW bs, NEW cs, NEW front, NEW tail, NEW live, NEW first, NEW last,
           Path(bs, front, tail, live, first, last),
           DOMAIN bs \subseteq DOMAIN cs,
           \A i \in first .. last - 1 : cs[live[i]].next = bs[live[i]].next
    PROVE  Path(cs, front, tail, live, first, last)
  BY DEF Path

LEMMA ElementsStay ==
    ASSUME NEW bs, NEW cs, Sound(bs), Sound(cs), NEW front, NEW tail, NEW live, NEW first, NEW last,
           Path(bs, front, tail, live, first, last),
           DOMAIN bs \subseteq DOMAIN cs,
           \A i \in first .. last - 1 : cs[live[i]].next = bs[live[i]].next,
           \A i \in first .. last : Content(cs[live[i]]) = Content(bs[live[i]])
    PROVE  ElementsOf(cs, front, tail) = ElementsOf(bs, front, tail)
<1>1. Path(cs, front, tail, live, first, last)
  BY PathStays
<1>2. /\ ElementsOf(bs, front, tail) = FlattenSeq(Along(bs, live, first, last))
      /\ ElementsOf(cs, front, tail) = FlattenSeq(Along(cs, live, first, last))
  BY <1>1, ElementsAre
<1>3. Along(cs, live, first, last) = Along(bs, live, first, last)
  <2>1. live \in [Nat -> DOMAIN bs] /\ first \in Nat /\ last \in Int
    BY DEF Path
  <2> QED BY <2>1, AlongStays
<1> QED BY <1>2, <1>3

-----------------------------------------------------------------------------
(* The queue as a mailbox.                                                   *)

\* The element is in the queue, and not announced.
Signalling == IF producer = "signalling" THEN 1 ELSE 0

\* What the producer has written is its element.
ItemInv ==
    /\ producer = "publishing" => blocks[into].data[blocks[into].tail] = item
    /\ producer \in {"moving", "linking"} => Content(blocks[into]) = <<item>>

\* The elements of the queue are those announced and not taken, the one that the
\* consumer was granted and the one that the producer has yet to announce.
CountInv == Len(InQueue) = Available + Granting + Signalling

\* What a step is to the users of the queue.
Seen == [MailboxOf!Next]_(MailboxOf!mailbox)

LEMMA BlocksAreSound == ASSUME BlocksInv PROVE Sound(blocks)
  BY DEF BlocksInv, Sound

LEMMA ChainIsPath ==
    ASSUME NEW live, NEW first, NEW last, Chain(live, first, last)
    PROVE  Path(blocks, frontBlock, tailBlock, live, first, last)
  BY DEF Chain, Path

LEMMA ElementsType == ASSUME BlocksInv, ChainInv PROVE Elements \in Seq(Slot)
<1>1. PICK live, first, last : Chain(live, first, last)
  BY DEF ChainInv
<1>2. Sound(blocks) /\ Path(blocks, frontBlock, tailBlock, live, first, last)
  BY <1>1, BlocksAreSound, ChainIsPath
<1>3. Joined(Elements, Content(blocks[frontBlock]),
             FlattenSeq(Along(blocks, live, first + 1, last)))
  BY <1>2, FirstAndRest, ElementsAreThose
<1> QED BY <1>3 DEF Joined

LEMMA ContentKept ==
    ASSUME Kept({"size", "front", "tail", "data"})
    PROVE  \A b \in DOMAIN blocks : Content(blocks'[b]) = Content(blocks[b])
<1> SUFFICES ASSUME NEW b \in DOMAIN blocks
             PROVE  Content(blocks'[b]) = Content(blocks[b])
  OBVIOUS
<1>1. /\ blocks'[b].size = blocks[b].size /\ blocks'[b].front = blocks[b].front
      /\ blocks'[b].tail = blocks[b].tail /\ blocks'[b].data = blocks[b].data
  BY DEF Kept
<1> QED BY <1>1 DEF Content, Filled

\* The elements stay, whatever happens to the block that is about to be the last.
LEMMA ElementsKept ==
    ASSUME BlocksInv, BlocksInv', ChainInv, UNCHANGED <<frontBlock, tailBlock>>,
           DOMAIN blocks \subseteq DOMAIN blocks',
           \A b \in DOMAIN blocks : b # tailBlock => blocks'[b].next = blocks[b].next,
           \A b \in DOMAIN blocks : \/ Content(blocks'[b]) = Content(blocks[b])
                                    \/ b = into /\ into # tailBlock /\ producer \in Entering
    PROVE  Elements' = Elements
<1>1. PICK live, first, last : Chain(live, first, last)
  BY DEF ChainInv
<1>2. Path(blocks, frontBlock, tailBlock, live, first, last)
  BY <1>1, ChainIsPath
<1>3. Sound(blocks) /\ Sound(blocks')
  <2>1. Sound(blocks')
    BY DEF BlocksInv, Sound
  <2> QED BY <2>1, BlocksAreSound
<1>4. \A i \in first .. last - 1 : blocks'[live[i]].next = blocks[live[i]].next
  <2>1. TAKE i \in first .. last - 1
  <2>2. i \in first .. last /\ last \in first .. last /\ i # last /\ live[i] \in DOMAIN blocks
    BY <1>1 DEF Chain
  <2>3. live[i] # tailBlock
    BY <1>1, <2>2 DEF Chain
  <2> QED BY <2>2, <2>3
<1>5. \A i \in first .. last : Content(blocks'[live[i]]) = Content(blocks[live[i]])
  <2>1. TAKE i \in first .. last
  <2>2. /\ live[i] \in DOMAIN blocks
        /\ ~ (live[i] = into /\ into # tailBlock /\ producer \in Entering)
    BY <1>1 DEF Chain
  <2> QED BY <2>2
<1>6. ElementsOf(blocks', frontBlock, tailBlock) = ElementsOf(blocks, frontBlock, tailBlock)
  BY <1>2, <1>3, <1>4, <1>5, ElementsStay
<1> QED BY <1>6, ElementsAreThose, ElementsWillBeThose

\* A step that the users of the queue do not see.
LEMMA QuietStep ==
    ASSUME CountInv, Elements' = Elements, UNCHANGED result,
           producer # "destroyed", producer' # "destroyed",
           Available' = Available, Granting' = Granting, Signalling' = Signalling,
           consumer = "leaving" <=> consumer' = "leaving"
    PROVE  Seen /\ CountInv'
<1>1. InQueue' = InQueue
  BY DEF InQueue
<1>2. MailboxOf!mailbox' = MailboxOf!mailbox
  BY <1>1 DEF MailboxOf!mailbox, Granting
<1> QED BY <1>1, <1>2 DEF Seen, CountInv

\* The same, if no block's content changes.
LEMMA SilentStep ==
    ASSUME Open, Open', CountInv, UNCHANGED <<frontBlock, tailBlock, result>>,
           Kept({"size", "front", "tail", "data"}), Kept({"next"}),
           Available' = Available, Granting' = Granting, Signalling' = Signalling,
           consumer = "leaving" <=> consumer' = "leaving"
    PROVE  Seen /\ CountInv'
<1>1. Elements' = Elements
  BY ContentKept, ElementsKept DEF Open, Kept
<1>2. producer # "destroyed" /\ producer' # "destroyed"
  BY DEF Open, ProducerInv, Entering
<1> QED BY <1>1, <1>2, QuietStep

-----------------------------------------------------------------------------
(* The producer, as the users of the queue see it.                           *)

\* A step of the producer before it is done, which changes no content.
LEMMA ProducerSilent ==
    ASSUME Open, Open', CountInv, UNCHANGED <<semaphoreVars, consumerVars, frontBlock, tailBlock>>,
           Kept({"size", "front", "tail", "data"}), Kept({"next"}),
           Signalling = 0, Signalling' = 0
    PROVE  Seen /\ CountInv'
<1>1. UNCHANGED <<count, waiter, consumer, result>>
  BY DEF semaphoreVars, consumerVars
<1>2. Available' = Available /\ Granting' = Granting
  BY <1>1 DEF Available, Owes, Granting
<1> QED BY <1>1, <1>2, SilentStep

LEMMA EnqueueSeen ==
    ASSUME Open, Open', CountInv, NEW x, NEW alloc, Enqueue(x, alloc)
    PROVE  Seen /\ ItemInv' /\ CountInv'
<1>1. /\ UNCHANGED <<semaphoreVars, consumerVars, blocks, frontBlock, tailBlock>>
      /\ producer = "idle" /\ producer' \in {"writing", "checking"}
  BY DEF Enqueue, blockVars
<1>2. Signalling = 0 /\ Signalling' = 0 /\ ItemInv'
  BY <1>1 DEF Signalling, ItemInv
<1> QED BY <1>1, <1>2, AllKept, ProducerSilent

LEMMA CheckFrontSeen ==
    ASSUME Open, Open', CountInv, CheckFront
    PROVE  Seen /\ ItemInv' /\ CountInv'
<1>1. /\ UNCHANGED <<semaphoreVars, consumerVars, frontBlock, tailBlock, largestBlockSize, into>>
      /\ producer = "checking" /\ producer' \in {"writing", "full"}
      /\ blocks' = [blocks EXCEPT ![tailBlock].localFront = blocks[tailBlock].front]
  BY DEF CheckFront, ProducerTo
<1>2. Signalling = 0 /\ Signalling' = 0 /\ ItemInv'
  BY <1>1 DEF Signalling, ItemInv
<1>3. tailBlock \in DOMAIN blocks /\ UNCHANGED from
  BY <1>1 DEF Open, BlocksInv, consumerVars
<1>4. Kept({"size", "front", "tail", "data"}) /\ Kept({"next"})
  BY <1>1, <1>3, FrontLooked DEF Open, BlockFields
<1> QED BY <1>1, <1>2, <1>4, ProducerSilent

LEMMA UseNextSeen ==
    ASSUME Open, Open', CountInv, UseNext \/ Refuse
    PROVE  Seen /\ ItemInv' /\ CountInv'
<1>1. /\ UNCHANGED <<semaphoreVars, consumerVars, blocks, frontBlock, tailBlock>>
      /\ producer = "full" /\ producer' \in {"entering", "idle"}
  BY DEF UseNext, Refuse, ProducerTo, blockVars
<1>2. Signalling = 0 /\ Signalling' = 0 /\ ItemInv'
  BY <1>1 DEF Signalling, ItemInv
<1> QED BY <1>1, <1>2, AllKept, ProducerSilent

LEMMA EnterSeen ==
    ASSUME Open, Open', CountInv, Enter
    PROVE  Seen /\ ItemInv' /\ CountInv'
<1>1. /\ UNCHANGED <<semaphoreVars, consumerVars, frontBlock, tailBlock, largestBlockSize, into>>
      /\ producer = "entering" /\ producer' = "writing"
      /\ blocks' = [blocks EXCEPT ![into].localFront = blocks[into].front]
  BY DEF Enter, ProducerTo
<1>2. Signalling = 0 /\ Signalling' = 0 /\ ItemInv'
  BY <1>1 DEF Signalling, ItemInv
<1>3. into \in DOMAIN blocks /\ UNCHANGED from
  BY <1>1 DEF Open, BlocksInv, consumerVars
<1>4. Kept({"size", "front", "tail", "data"}) /\ Kept({"next"})
  BY <1>1, <1>3, FrontLooked DEF Open, BlockFields
<1> QED BY <1>1, <1>2, <1>4, ProducerSilent

\* The element is written where the block holds none.
LEMMA WriteSeen ==
    ASSUME Open, Open', CountInv, Write
    PROVE  Seen /\ ItemInv' /\ CountInv'
<1> DEFINE b == into
           i == blocks[b].tail
           k == [blocks[b] EXCEPT !.data[i] = item]
<1>1. /\ UNCHANGED <<semaphoreVars, consumerVars, frontBlock, tailBlock, largestBlockSize, into>>
      /\ producer = "writing" /\ producer' = "publishing" /\ item' = item
      /\ blocks' = [blocks EXCEPT ![b] = k]
  BY DEF Write, ProducerTo
<1>2. UNCHANGED <<count, waiter, consumer, from, result>>
  BY <1>1 DEF semaphoreVars, consumerVars
<1>b. /\ b \in DOMAIN blocks /\ BlockInv(blocks[b]) /\ item \in Values
      /\ blocks[b].next \in DOMAIN blocks
  BY <1>1 DEF Open, BlocksInv, ProducerInv
<1>s. i \in Slots(blocks[b])
  BY <1>b DEF BlockInv, Indices, Slots
<1>3. /\ BlockInv(k) /\ Others(k, blocks[b], "data")
      /\ k.data = [j \in Slots(blocks[b]) |-> IF j = i THEN item ELSE blocks[b].data[j]]
  BY <1>b, <1>s, SlotIsSet
<1> HIDE DEF k
<1>4. /\ \A fields : "data" \notin fields /\ fields \subseteq BlockFields => Kept(fields)
      /\ DOMAIN blocks' = DOMAIN blocks
      /\ blocks'[b] = k /\ \A c \in DOMAIN blocks : c # b => blocks'[c] = blocks[c]
  <2>1. "data" \in BlockFields /\ k.next = blocks[b].next
    BY <1>3 DEF BlockFields, Others
  <2> QED BY <1>1, <1>2, <1>b, <1>3, <2>1, BlockChanges DEF Open, BlocksInv
<1>5. Content(k) = Content(blocks[b])
  <2>1. k.size = blocks[b].size /\ k.front = blocks[b].front /\ k.tail = blocks[b].tail
    BY <1>3 DEF Others, BlockFields
  <2>2. \A j \in Slots(blocks[b]) : Holds(blocks[b], j) => j # i
    BY <1>b, EmptyOrNot
  <2>3. \A j \in Slots(blocks[b]) : Holds(blocks[b], j) => blocks[b].data[j] = k.data[j]
    BY <1>3, <2>2
  <2> QED BY <1>b, <1>3, <2>1, <2>3, SameContent
<1>6. Elements' = Elements
  <2>1. Kept({"next"})
    BY <1>4 DEF BlockFields
  <2> QED BY <1>1, <1>4, <1>5, <2>1, ElementsKept DEF Open, Kept
<1>7. ItemInv'
  <2>1. k.tail = i
    BY <1>3 DEF Others, BlockFields
  <2>2. blocks'[into'].data[blocks'[into'].tail] = item'
    BY <1>1, <1>3, <1>4, <1>s, <2>1
  <2> QED BY <1>1, <2>2 DEF ItemInv
<1>8. /\ Available' = Available /\ Granting' = Granting /\ Signalling' = Signalling
      /\ producer # "destroyed" /\ producer' # "destroyed"
  BY <1>1, <1>2 DEF Available, Owes, Granting, Signalling
<1>9. Seen /\ CountInv'
  BY <1>2, <1>6, <1>8, QuietStep
<1> QED BY <1>7, <1>9

\* The queue's first element, if its first block has one.
LEMMA FirstElement ==
    ASSUME BlocksInv, ChainInv, NotEmpty(frontBlock)
    PROVE  /\ Elements \in Seq(Slot) /\ Elements # <<>>
           /\ Head(Elements) = blocks[frontBlock].data[blocks[frontBlock].front]
<1>1. PICK live, first, last : Chain(live, first, last)
  BY DEF ChainInv
<1> DEFINE k == blocks[frontBlock]
           rest == FlattenSeq(Along(blocks, live, first + 1, last))
<1>2. Sound(blocks) /\ Path(blocks, frontBlock, tailBlock, live, first, last)
  BY <1>1, BlocksAreSound, ChainIsPath
<1>3. Joined(Elements, Content(k), rest)
  BY <1>2, FirstAndRest, ElementsAreThose
<1>4. BlockInv(k) /\ k.front # k.tail
  BY DEF BlocksInv, NotEmpty
<1> HIDE DEF k, rest
<1>5. Content(k) # <<>> /\ Head(Content(k)) = k.data[k.front]
  BY <1>4, FirstContent
<1>6. Elements # <<>> /\ Elements \in Seq(Slot) /\ Head(Elements) = Head(Content(k))
  BY <1>3, <1>5, JoinedShrinks
<1> QED BY <1>5, <1>6 DEF k

\* While the consumer leaves, what it read is still there.
LEMMA LeavingFirst ==
    ASSUME Open, consumer = "leaving"
    PROVE  /\ Elements \in Seq(Slot) /\ Elements # <<>>
           /\ from = frontBlock /\ NotEmpty(frontBlock) /\ Wanting(frontBlock)
<1>1. from = frontBlock /\ Wanting(from) /\ from \in DOMAIN blocks /\ BlockInv(blocks[from])
  BY DEF Open, ConsumerInv, BlocksInv
<1>2. NotEmpty(from)
  BY <1>1, EmptyOrNot DEF Wanting, NotEmpty
<1> QED BY <1>1, <1>2, FirstElement DEF Open

\* The step that puts the element into the queue.
LEMMA EnqueuedStep ==
    ASSUME Open, CountInv, Elements' = Append(Elements, item), item \in Values,
           UNCHANGED <<count, waiter, consumer, result>>,
           Signalling = 0, Signalling' = 1, producer' # "destroyed", SemaphoreInv
    PROVE  Seen /\ CountInv'
<1>1. Elements \in Seq(Slot) /\ producer # "destroyed" /\ item \in Slot
  BY ElementsType DEF Open, ProducerInv, Entering, Slot
<1>2. /\ InQueue \in Seq(Slot) /\ InQueue' = Append(InQueue, item)
  <2>1. CASE consumer = "leaving"
    <3>1. Elements # <<>>
      BY <2>1, LeavingFirst
    <3>2. /\ Tail(Append(Elements, item)) = Append(Tail(Elements), item)
          /\ Tail(Elements) \in Seq(Slot)
      BY <1>1, <3>1
    <3> QED BY <1>1, <2>1, <3>2 DEF InQueue
  <2>2. CASE consumer # "leaving"
    BY <1>1, <2>2 DEF InQueue
  <2> QED BY <2>1, <2>2
<1>3. Available' = Available /\ Granting' = Granting
  BY DEF Available, Owes, Granting
<1>4. CountInv'
  <2>1. Len(InQueue') = Len(InQueue) + 1 /\ Len(InQueue) \in Nat
    BY <1>1, <1>2
  <2>2. Available \in Int /\ Granting \in Int
    BY DEF SemaphoreInv, SemaphoreType, Available, Granting
  <2> QED BY <1>3, <2>1, <2>2 DEF CountInv
<1>5. MailboxOf!Enqueue
  BY <1>1, <1>2, <1>3 DEF MailboxOf!Enqueue, Granting
<1> QED BY <1>4, <1>5 DEF Seen, MailboxOf!Next

Grown(k, l, x) == Content(l) = Append(Content(k), x)

OthersStay ==
    /\ frontBlock' = frontBlock /\ tailBlock' = tailBlock
    /\ \A b \in DOMAIN blocks : b # tailBlock => blocks'[b] = blocks[b]

\* The last block's content grows by the element.
LEMMA LastContentGrows ==
    ASSUME BlocksInv, BlocksInv', ChainInv, Kept({"next"}), item \in Values, OthersStay,
           Grown(blocks[tailBlock], blocks'[tailBlock], item)
    PROVE  Elements' = Append(Elements, item)
<1>1. PICK live, first, last : Chain(live, first, last)
  BY DEF ChainInv
<1>2. Path(blocks, frontBlock, tailBlock, live, first, last)
  BY <1>1, ChainIsPath
<1>3. Sound(blocks)
  BY BlocksAreSound
<1>c. Sound(blocks')
  BY DEF BlocksInv, Sound
<1>4. \A i \in first .. last : live[i] \in DOMAIN blocks /\ (i # last => live[i] # tailBlock)
  <2>1. TAKE i \in first .. last
  <2>2. last \in first .. last /\ live[i] \in DOMAIN blocks
    BY <1>1 DEF Chain
  <2> QED BY <1>1, <2>2 DEF Chain
<1>5. Path(blocks', frontBlock, tailBlock, live, first, last)
  <2>1. \A i \in first .. last - 1 : blocks'[live[i]].next = blocks[live[i]].next
    <3>1. \A i \in first .. last - 1 : live[i] \in DOMAIN blocks
      BY <1>1 DEF Chain
    <3> QED BY <3>1 DEF Kept
  <2> QED BY <1>2, <2>1, PathStays DEF Kept
<1>6. Along(blocks', live, first, last - 1) = Along(blocks, live, first, last - 1)
  <2>1. /\ live \in [Nat -> DOMAIN blocks] /\ first \in Nat /\ last - 1 \in Int
        /\ \A i \in first .. last - 1 : i \in first .. last /\ i # last
    BY <1>1 DEF Chain
  <2>2. \A i \in first .. last - 1 : Content(blocks'[live[i]]) = Content(blocks[live[i]])
    BY <1>4, <2>1 DEF OthersStay
  <2> QED BY <2>1, <2>2, AlongStays
<1> DEFINE content == Content(blocks[tailBlock])
<1>a. PICK most : most = FlattenSeq(Along(blocks, live, first, last - 1))
  OBVIOUS
<1>7. Joined(Elements, most, content)
  BY <1>2, <1>3, <1>a, MostAndLast, ElementsAreThose
<1>8. Joined(Elements', most, Content(blocks'[tailBlock]))
  <2>1. Joined(ElementsOf(blocks', frontBlock, tailBlock), most, Content(blocks'[tailBlock]))
    BY <1>c, <1>5, <1>6, <1>a, MostAndLast
  <2> QED BY <2>1, ElementsWillBeThose DEF OthersStay
<1>9. item \in Slot
  BY DEF Slot
<1>10. Joined(Elements', most, Append(content, item))
  BY <1>8 DEF Grown
<1> HIDE DEF content
<1> QED BY <1>7, <1>9, <1>10, JoinedGrows

\* The element is in the queue once the tail of its block is stored, if that is the last.
LEMMA PublishSeen ==
    ASSUME Open, Open', SemaphoreInv, ItemInv, CountInv, Publish
    PROVE  Seen /\ ItemInv' /\ CountInv'
<1> DEFINE b == into
           i == blocks[b].tail
           k == [blocks[b] EXCEPT !.tail = Succ(i, blocks[b].size)]
<1>b. /\ b \in DOMAIN blocks /\ BlockInv(blocks[b]) /\ blocks[b].next \in DOMAIN blocks
      /\ tailBlock \in DOMAIN blocks /\ frontBlock \in DOMAIN blocks
  BY DEF Open, BlocksInv
<1>s. i \in Slots(blocks[b])
  BY <1>b DEF BlockInv, Indices, Slots
<1>a. After(b, i) = Succ(i, blocks[b].size)
  BY <1>b, <1>s, AfterIs
<1>1. /\ UNCHANGED <<semaphoreVars, consumerVars, frontBlock, tailBlock, largestBlockSize, into>>
      /\ producer = "publishing"
      /\ producer' = IF b = tailBlock THEN "signalling" ELSE "moving"
      /\ item' = item
      /\ blocks' = [blocks EXCEPT ![b] = k]
  BY <1>a DEF Publish, ProducerTo
<1>2. UNCHANGED <<count, waiter, consumer, from, result>>
  BY <1>1 DEF consumerVars, semaphoreVars
<1>3. /\ item \in Values /\ HasRoom(b, blocks[b].localFront)
      /\ b # tailBlock => ~ NotEmpty(b)
      /\ blocks[b].data[i] = item
  BY <1>1 DEF Open, ProducerInv, ItemInv
<1>4. /\ BlockInv(k) /\ Others(k, blocks[b], "tail") /\ Filled(k) = Filled(blocks[b]) + 1
  BY <1>a, <1>b, <1>3, TailMoves DEF HasRoom
<1> HIDE DEF k
<1>5. /\ \A fields : "tail" \notin fields /\ fields \subseteq BlockFields => Kept(fields)
      /\ DOMAIN blocks' = DOMAIN blocks
      /\ blocks'[b] = k /\ \A c \in DOMAIN blocks : c # b => blocks'[c] = blocks[c]
  <2>1. "tail" \in BlockFields /\ k.next = blocks[b].next
    BY <1>4 DEF BlockFields, Others
  <2> QED BY <1>1, <1>2, <1>b, <1>4, <2>1, BlockChanges DEF Open, BlocksInv
<1>6. Content(k) = Append(Content(blocks[b]), item)
  <2>1. k.size = blocks[b].size /\ k.front = blocks[b].front /\ k.data = blocks[b].data
    BY <1>4 DEF Others, BlockFields
  <2> QED BY <1>b, <1>3, <1>4, <2>1, LongerContent
<1>7. Kept({"next"})
  BY <1>5 DEF BlockFields
<1>8. CASE b = tailBlock
  <2>1. Elements' = Append(Elements, item)
    <3>1. OthersStay
      BY <1>1, <1>5, <1>8 DEF OthersStay
    <3> QED BY <1>3, <1>5, <1>6, <1>7, <1>8, <3>1, LastContentGrows DEF Open, Grown
  <2>2. /\ Signalling = 0 /\ Signalling' = 1 /\ producer' # "destroyed" /\ ItemInv'
    BY <1>1, <1>8 DEF Signalling, ItemInv
  <2> QED BY <1>2, <1>3, <2>1, <2>2, EnqueuedStep
<1>9. CASE b # tailBlock
  <2>1. Elements' = Elements
    BY <1>1, <1>5, <1>7, <1>9, ElementsKept DEF Open, Kept, Entering
  <2>2. /\ Available' = Available /\ Granting' = Granting /\ Signalling' = Signalling
        /\ producer # "destroyed" /\ producer' # "destroyed"
    BY <1>1, <1>2, <1>9 DEF Available, Owes, Granting, Signalling
  <2>3. Content(blocks[b]) = <<>>
    BY <1>b, <1>3, <1>9, EmptyContent DEF NotEmpty
  <2>4. ItemInv'
    <3>1. Content(blocks'[into']) = <<item'>>
      BY <1>1, <1>5, <1>6, <2>3
    <3> QED BY <1>1, <1>9, <3>1 DEF ItemInv
  <2> QED BY <1>2, <2>1, <2>2, <2>4, QuietStep
<1> QED BY <1>8, <1>9

\* Or else once the block is the last.
LEMMA MoveToBlockSeen ==
    ASSUME Open, Open', SemaphoreInv, ItemInv, CountInv, MoveToBlock
    PROVE  Seen /\ ItemInv' /\ CountInv'
<1>1. /\ UNCHANGED <<semaphoreVars, consumerVars, blocks, frontBlock, largestBlockSize, into>>
      /\ producer = "moving" /\ producer' = "signalling"
      /\ tailBlock' = into
  BY DEF MoveToBlock, ProducerTo
<1>2. UNCHANGED <<count, waiter, consumer, result>>
  BY <1>1 DEF consumerVars, semaphoreVars
<1>3. /\ into \in DOMAIN blocks /\ item \in Values
      /\ into # tailBlock /\ blocks[tailBlock].next = into
      /\ Content(blocks[into]) = <<item>>
  BY <1>1 DEF Open, BlocksInv, ProducerInv, ItemInv
<1>4. PICK live, first, last : Chain(live, first, last)
  BY DEF Open, ChainInv
<1> DEFINE end == last + 1
<1>5. /\ first \in Nat /\ last \in Nat /\ first <= last /\ end \in Nat /\ first <= end
      /\ live \in [Nat -> DOMAIN blocks] /\ last \in first .. last /\ first \in first .. last
      /\ \A j \in first .. end : j = end \/ j \in first .. last
      /\ \A j \in first .. last : j \in Nat /\ j # end /\ j \in first .. end
      /\ end \in first .. end /\ end # first /\ end - 1 = last
  BY <1>4 DEF Chain
<1>6. PICK more \in [Nat -> DOMAIN blocks] :
          more[end] = into /\ \A j \in first .. last : more[j] = live[j]
  <2> DEFINE more == [live EXCEPT ![end] = into]
  <2>1. /\ more \in [Nat -> DOMAIN blocks]
        /\ more[end] = into /\ \A j \in first .. last : more[j] = live[j]
    BY <1>3, <1>5
  <2> QED BY <2>1
<1>7. Path(blocks, frontBlock, into, more, first, end)
  <2>1. more[first] = frontBlock
    BY <1>4, <1>5, <1>6 DEF Chain
  <2>2. \A j \in first .. end - 1 : blocks[more[j]].next = more[j + 1]
    <3>1. TAKE j \in first .. end - 1
    <3>2. CASE j = last
      BY <1>3, <1>4, <1>5, <1>6, <3>2 DEF Chain
    <3>3. CASE j # last
      <4>1. j \in first .. last - 1 /\ j \in first .. last /\ j + 1 \in first .. last
        BY <1>5, <3>3
      <4> QED BY <1>4, <1>6, <4>1 DEF Chain
    <3> QED BY <3>2, <3>3
  <2>3. \A j \in first .. last : live[j] # into
    BY <1>1, <1>3, <1>4 DEF Chain, Entering
  <2>4. \A j, l \in first .. end : more[j] = more[l] => j = l
    BY <1>4, <1>5, <1>6, <2>3 DEF Chain
  <2> QED BY <1>5, <1>6, <2>1, <2>2, <2>4 DEF Path
<1>8. Sound(blocks) /\ Path(blocks, frontBlock, tailBlock, live, first, last)
  BY <1>4, BlocksAreSound, ChainIsPath DEF Open
<1>9. Along(blocks, more, first, last) = Along(blocks, live, first, last)
  <2>1. \A i \in 1 .. last - first + 1 : first + i - 1 \in first .. last
    BY <1>5
  <2> QED BY <1>6, <2>1 DEF Along
<1>10. Joined(ElementsOf(blocks, frontBlock, into),
              FlattenSeq(Along(blocks, more, first, end - 1)), Content(blocks[into]))
  BY <1>7, <1>8, MostAndLast
<1>11. ElementsOf(blocks, frontBlock, tailBlock) = FlattenSeq(Along(blocks, live, first, last))
  BY <1>8, ElementsAre
<1>12. Elements' = Elements \o <<item>>
  <2>1. Elements' = ElementsOf(blocks, frontBlock, into)
    BY <1>1, ElementsWillBeThose
  <2> QED BY <1>3, <1>5, <1>9, <1>10, <1>11, <2>1, ElementsAreThose DEF Joined
<1>13. Elements' = Append(Elements, item)
  <2>1. Elements \in Seq(Slot) /\ item \in Slot
    BY <1>3, ElementsType DEF Open, Slot
  <2>2. Elements \o <<item>> = Append(Elements, item)
    BY <2>1
  <2> QED BY <1>12, <2>2
<1>14. /\ Signalling = 0 /\ Signalling' = 1 /\ producer' # "destroyed" /\ ItemInv'
  BY <1>1 DEF Signalling, ItemInv
<1> QED BY <1>2, <1>3, <1>13, <1>14, EnqueuedStep

\* A new block is not in the circle yet.
LEMMA AllocateSeen ==
    ASSUME Open, Open', SemaphoreInv, CountInv, Allocate
    PROVE  Seen /\ ItemInv' /\ CountInv'
<1>0. PICK n \in Nat : DOMAIN blocks = 1 .. n
  BY DEF Open, BlocksInv
<1> DEFINE size == IF largestBlockSize >= MaxBlockSize THEN largestBlockSize
                   ELSE largestBlockSize * 2
           new == n + 1
           k == Filling(size, blocks[tailBlock].next)
<1>c. Cardinality(DOMAIN blocks) + 1 = new
  <2>1. Cardinality(1 .. n) = IF 1 > n THEN 0 ELSE n - 1 + 1
    BY FS_Interval
  <2>2. (IF 1 > n THEN 0 ELSE n - 1 + 1) = n
    OBVIOUS
  <2> QED BY <1>0, <2>1, <2>2
<1>1. /\ UNCHANGED <<semaphoreVars, consumerVars, frontBlock, tailBlock>>
      /\ producer = "full" /\ producer' = "linking" /\ item' = item
      /\ blocks' = [b \in DOMAIN blocks \cup {new} |-> IF b = new THEN k ELSE blocks[b]]
      /\ into' = new
  BY <1>c DEF Allocate, ProducerTo, Filling
<1>2. UNCHANGED <<count, waiter, consumer, result>>
  BY <1>1 DEF semaphoreVars, consumerVars
<1>3. new \notin DOMAIN blocks /\ size \in Nat /\ size >= 2 /\ item \in Values
  <2>1. largestBlockSize \in Nat /\ largestBlockSize >= 2 /\ item \in Values
    BY <1>1 DEF Open, BlocksInv, ProducerInv
  <2> QED BY <1>0, <2>1
<1> HIDE DEF size
<1>4. /\ BlockInv(k) /\ k.next = blocks[tailBlock].next /\ k.size = size
      /\ k.front = 0 /\ k.tail = 1
      /\ k.data = [i \in 0 .. size - 1 |-> IF i = 0 THEN item ELSE Raw]
      /\ Filled(k) = 1 /\ \A i \in Slots(k) : Holds(k, i) <=> i = 0
  BY <1>3, FillingIsBlock
<1> HIDE DEF k, new
<1>5. Content(k) = <<item>>
  <2>1. At(0, 1, size) = 0 /\ 0 \in 0 .. size - 1
    BY <1>3 DEF At
  <2>2. Content(k) = [i \in 1 .. 1 |-> k.data[At(0, i, size)]]
    BY <1>4 DEF Content
  <2>3. \A i \in 1 .. 1 : k.data[At(0, i, size)] = item
    BY <1>4, <2>1
  <2> QED BY <2>2, <2>3
<1>6. /\ DOMAIN blocks \subseteq DOMAIN blocks' /\ blocks'[new] = k
      /\ \A b \in DOMAIN blocks : blocks'[b] = blocks[b]
  BY <1>1, <1>3
<1>7. Elements' = Elements
  BY <1>1, <1>6, ElementsKept DEF Open
<1>8. ItemInv'
  BY <1>1, <1>5, <1>6 DEF ItemInv
<1>9. /\ Available' = Available /\ Granting' = Granting /\ Signalling' = Signalling
      /\ producer # "destroyed" /\ producer' # "destroyed"
  BY <1>1, <1>2 DEF Available, Owes, Granting, Signalling
<1>10. Seen /\ CountInv'
  BY <1>2, <1>7, <1>9, QuietStep
<1> QED BY <1>8, <1>10

LEMMA LinkSeen ==
    ASSUME Open, Open', ItemInv, CountInv, Link
    PROVE  Seen /\ ItemInv' /\ CountInv'
<1> DEFINE b == tailBlock
           k == [blocks[b] EXCEPT !.next = into]
<1>1. /\ UNCHANGED <<semaphoreVars, consumerVars, frontBlock, tailBlock, largestBlockSize, into>>
      /\ producer = "linking" /\ producer' = "moving" /\ item' = item
      /\ blocks' = [blocks EXCEPT ![b] = k]
  BY DEF Link, ProducerTo
<1>2. UNCHANGED <<from, consumer, waiter, count, result>>
  BY <1>1 DEF consumerVars, semaphoreVars
<1>b. b \in DOMAIN blocks /\ BlockInv(blocks[b]) /\ into \in DOMAIN blocks /\ into # b
  BY <1>1 DEF Open, BlocksInv, ProducerInv
<1>3. /\ k.size = blocks[b].size /\ k.front = blocks[b].front /\ k.tail = blocks[b].tail
      /\ k.data = blocks[b].data
  BY <1>b DEF BlockInv, BlockFields
<1> HIDE DEF k
<1>4. /\ DOMAIN blocks' = DOMAIN blocks /\ blocks'[b] = k
      /\ \A c \in DOMAIN blocks : c # b => blocks'[c] = blocks[c]
  BY <1>1, <1>b DEF Open, BlocksInv
<1>5. Content(k) = Content(blocks[b])
  BY <1>3 DEF Content, Filled
<1>6. Elements' = Elements
  BY <1>1, <1>4, <1>5, ElementsKept DEF Open
<1>7. ItemInv'
  BY <1>1, <1>b, <1>4 DEF ItemInv
<1>8. /\ Available' = Available /\ Granting' = Granting /\ Signalling' = Signalling
      /\ producer # "destroyed" /\ producer' # "destroyed"
  BY <1>1, <1>2 DEF Available, Owes, Granting, Signalling
<1>9. Seen /\ CountInv'
  BY <1>2, <1>6, <1>8, QuietStep
<1> QED BY <1>7, <1>9

\* Nothing is changed but the two counts.
LEMMA InQueueStays ==
    ASSUME UNCHANGED <<blocks, frontBlock, tailBlock>>,
           producer # "destroyed", producer' # "destroyed",
           consumer = "leaving" <=> consumer' = "leaving"
    PROVE  InQueue' = InQueue
<1>1. Elements' = Elements
  <2>1. Elements' = ElementsOf(blocks, frontBlock, tailBlock)
    BY ElementsWillBeThose
  <2> QED BY <2>1, ElementsAreThose
<1> QED BY <1>1 DEF InQueue

\* signal() announces the element.
LEMMA SignalElementSeen ==
    ASSUME Open, Open', SemaphoreInv, CountInv, SignalElement
    PROVE  Seen /\ ItemInv' /\ CountInv'
<1>1. /\ UNCHANGED <<consumerVars, blocks, frontBlock, tailBlock>>
      /\ producer = "signalling" /\ producer' = "idle"
      /\ count' = count + 1 /\ waiter' = waiter
  BY DEF SignalElement, ProducerTo, Signal, blockVars
<1>2. UNCHANGED <<consumer, result>>
  BY <1>1 DEF consumerVars
<1>3. /\ Available' = Available + 1 /\ Available \in Nat
      /\ Granting' = Granting /\ Granting \in Nat
      /\ Signalling = 1 /\ Signalling' = 0
  BY <1>1, <1>2 DEF SemaphoreInv, SemaphoreType, Available, Owes, Granting, Signalling
<1>4. InQueue' = InQueue
  BY <1>1, <1>2, InQueueStays
<1>5. CountInv'
  BY <1>3, <1>4 DEF CountInv
<1>6. ItemInv'
  BY <1>1 DEF ItemInv
<1>7. Available + Granting < Len(InQueue)
  BY <1>3 DEF CountInv
<1>8. MailboxOf!Announce
  BY <1>1, <1>2, <1>3, <1>4, <1>7 DEF MailboxOf!Announce, Granting
<1> QED BY <1>5, <1>6, <1>8 DEF Seen, MailboxOf!Next

LEMMA PostElementSeen ==
    ASSUME Open, Open', ItemInv, CountInv, PostElement
    PROVE  Seen /\ ItemInv' /\ CountInv'
<1>1. /\ UNCHANGED <<consumerVars, producerVars, blocks, frontBlock, tailBlock>>
      /\ count' = count /\ waiter' = waiter
  BY DEF PostElement, Post, blockVars
<1>2. UNCHANGED <<consumer, result, producer, item, into>>
  BY <1>1 DEF consumerVars, producerVars
<1>3. /\ Available' = Available /\ Granting' = Granting /\ Signalling' = Signalling
  BY <1>1, <1>2 DEF Available, Owes, Granting, Signalling
<1>4. ItemInv'
  BY <1>1, <1>2 DEF ItemInv
<1> QED BY <1>1, <1>2, <1>3, <1>4, AllKept, SilentStep

-----------------------------------------------------------------------------
(* The consumer, as the users of the queue see it.                           *)

\* A step of the consumer that takes nothing and changes no content.
LEMMA ConsumerSilent ==
    ASSUME Open, Open', ItemInv, CountInv,
           UNCHANGED <<producerVars, frontBlock, tailBlock, result>>,
           Kept({"size", "front", "tail", "data"}), Kept({"next"}),
           Available' = Available, Granting' = Granting,
           consumer # "leaving", consumer' # "leaving"
    PROVE  Seen /\ ItemInv' /\ CountInv'
<1>1. UNCHANGED <<producer, item, into>> /\ into \in DOMAIN blocks
  BY DEF producerVars, Open, BlocksInv
<1>2. /\ Content(blocks'[into]) = Content(blocks[into])
      /\ blocks'[into].tail = blocks[into].tail /\ blocks'[into].data = blocks[into].data
  BY <1>1, ContentKept DEF Kept
<1>3. ItemInv'
  BY <1>1, <1>2 DEF ItemInv
<1>4. Signalling' = Signalling
  BY <1>1 DEF Signalling
<1> QED BY <1>3, <1>4, SilentStep

LEMMA CallWaitSeen ==
    ASSUME Open, Open', ItemInv, CountInv, NEW o \in {"dequeue", "pop"}, NEW p, CallWait(o, p)
    PROVE  Seen /\ ItemInv' /\ CountInv'
<1>1. /\ consumer = "idle" /\ consumer' = "waiting"
      /\ UNCHANGED <<blocks, frontBlock, tailBlock, producerVars, result>>
      /\ waiter = "idle" /\ waiter' \in {"taking", "refused", "spinning"} /\ count' = count
  BY DEF CallWait, Wait, blockVars
<1>2. Available' = Available /\ Granting' = Granting
  BY <1>1 DEF Available, Owes, Granting
<1> QED BY <1>1, <1>2, AllKept, ConsumerSilent

LEMMA RefusedSeen ==
    ASSUME Open, Open', ItemInv, CountInv, Refused
    PROVE  Seen /\ ItemInv' /\ CountInv'
<1>1. /\ consumer = "waiting" /\ consumer' = "idle"
      /\ UNCHANGED <<blocks, frontBlock, tailBlock, producerVars, result>>
      /\ waiter = "refused" /\ waiter' = "idle" /\ count' = count
  BY DEF Refused, ConsumerTo, Return, blockVars
<1>2. Available' = Available /\ Granting' = Granting
  BY <1>1 DEF Available, Owes, Granting
<1> QED BY <1>1, <1>2, AllKept, ConsumerSilent

\* What an operation begins with, and what it does if its first block is the last.
LEMMA BeginSeen ==
    ASSUME Open, Open', ItemInv, CountInv, Granted \/ Peek \/ Compare \/ FindEmpty
    PROVE  Seen /\ ItemInv' /\ CountInv'
<1>1. /\ consumer # "leaving" /\ consumer' # "leaving"
      /\ UNCHANGED <<blocks, frontBlock, tailBlock, producerVars, result, semaphoreVars>>
  BY DEF Granted, Peek, Compare, FindEmpty, Begin, ConsumerTo, blockVars
<1>2. UNCHANGED <<count, waiter>>
  BY <1>1 DEF semaphoreVars
<1>3. Available' = Available /\ Granting' = Granting
  BY <1>1, <1>2 DEF Available, Owes, Granting
<1> QED BY <1>1, <1>3, AllKept, ConsumerSilent

\* A look at a tail.
LEMMA LookSeen ==
    ASSUME Open, Open', ItemInv, CountInv, Look \/ LookAgain \/ Advance
    PROVE  Seen /\ ItemInv' /\ CountInv'
<1>1. /\ consumer # "leaving" /\ consumer' # "leaving"
      /\ UNCHANGED <<frontBlock, tailBlock, largestBlockSize, producerVars, result,
                     semaphoreVars>>
      /\ \/ blocks' = blocks
         \/ blocks' = [blocks EXCEPT ![from].localTail = blocks[from].tail]
         \/ LET next == blocks[from].next
            IN  blocks' = [blocks EXCEPT ![next].localTail = blocks[next].tail]
  <2>1. CASE Look BY <2>1 DEF Look, ConsumerTo
  <2>2. CASE LookAgain BY <2>2 DEF LookAgain, ConsumerTo
  <2>3. CASE Advance BY <2>3 DEF Advance, ConsumerTo
  <2> QED BY <2>1, <2>2, <2>3
<1>2. UNCHANGED <<count, waiter, into>>
  BY <1>1 DEF semaphoreVars, producerVars
<1>3. Available' = Available /\ Granting' = Granting
  BY <1>1, <1>2 DEF Available, Owes, Granting
<1>4. from \in DOMAIN blocks /\ blocks[from].next \in DOMAIN blocks
  BY DEF Open, BlocksInv
<1>5. DOMAIN blocks' = DOMAIN blocks /\ from' \in DOMAIN blocks
  <2>1. DOMAIN blocks' = DOMAIN blocks
    BY <1>1
  <2> QED BY <2>1 DEF Open, BlocksInv
<1>6. Kept({"size", "front", "tail", "data"}) /\ Kept({"next"})
  <2>1. ASSUME NEW b \in DOMAIN blocks,
               blocks' = [blocks EXCEPT ![b].localTail = blocks[b].tail]
        PROVE  Kept({"size", "front", "tail", "data"}) /\ Kept({"next"})
    <3>1. \A fields : "localTail" \notin fields /\ fields \subseteq BlockFields => Kept(fields)
      BY <1>1, <1>2, <1>5, <2>1, TailLooked DEF Open
    <3> QED BY <3>1 DEF BlockFields
  <2> QED BY <1>1, <1>4, <2>1, AllKept
<1> QED BY <1>1, <1>3, <1>6, ConsumerSilent

\* A wait takes what was announced, or nothing yet.
LEMMA WaiterStepSeen ==
    ASSUME SemaphoreInv, WaiterStep, consumer = "waiting", consumer' = "waiting"
    PROVE  \/ /\ Available > 0 /\ Available' = Available - 1
              /\ Granting = 0 /\ Granting' = 1
           \/ Available' = Available /\ Granting = 0 /\ Granting' = 0
<1> USE DEF SemaphoreInv, SemaphoreType, Available, Owes, Posted, Granting, WaiterTo
<1>1. CASE TakeOne BY <1>1 DEF TakeOne
<1>2. CASE SpinSees BY <1>2 DEF SpinSees
<1>3. CASE SpinEnds BY <1>3 DEF SpinEnds
<1>4. CASE Commit BY <1>4 DEF Commit
<1>5. CASE Wake BY <1>5 DEF Wake
<1>6. CASE TimeOut BY <1>6 DEF TimeOut
<1>7. CASE Restore BY <1>7 DEF Restore
<1>8. CASE Retake BY <1>8 DEF Retake
<1>9. CASE PollFinds BY <1>9 DEF PollFinds
<1>10. CASE PollMisses BY <1>10 DEF PollMisses
<1> QED BY <1>1, <1>2, <1>3, <1>4, <1>5, <1>6, <1>7, <1>8, <1>9, <1>10 DEF WaiterStep

LEMMA WaitingSeen ==
    ASSUME Open, Open', SemaphoreInv, ItemInv, CountInv, Waiting
    PROVE  Seen /\ ItemInv' /\ CountInv'
<1>1. WaiterStep /\ UNCHANGED <<blockVars, producerVars, consumerVars>>
  BY DEF Waiting
<1>2. waiter \notin {"idle", "granted"}
  BY <1>1, WaiterStepGoesOn
<1>3. UNCHANGED <<blocks, frontBlock, tailBlock, consumer, from, result, producer, item, into>>
  BY <1>1 DEF blockVars, consumerVars, producerVars
<1>4. consumer = "waiting" /\ producer # "destroyed"
  BY <1>2 DEF Open, ConsumerInv, Taking, ProducerInv, Entering
<1>5. InQueue' = InQueue /\ Signalling' = Signalling /\ ItemInv'
  <2>1. ItemInv'
    BY <1>3 DEF ItemInv
  <2> QED BY <1>3, <1>4, <2>1, InQueueStays DEF Signalling
<1>6. CountInv'
  <2>1. Available' + Granting' = Available + Granting
    BY <1>1, <1>3, <1>4, WaiterStepTakes
  <2> QED BY <1>5, <2>1 DEF CountInv
<1>7. CASE /\ Available > 0 /\ Available' = Available - 1
           /\ Granting = 0 /\ Granting' = 1
  <2>1. MailboxOf!Take
    BY <1>3, <1>4, <1>5, <1>7 DEF MailboxOf!Take, Granting
  <2> QED BY <1>5, <1>6, <2>1 DEF Seen, MailboxOf!Next
<1>8. CASE Available' = Available /\ Granting = 0 /\ Granting' = 0
  <2>1. MailboxOf!mailbox' = MailboxOf!mailbox
    BY <1>3, <1>4, <1>5, <1>8 DEF MailboxOf!mailbox, Granting
  <2> QED BY <1>5, <1>6, <2>1 DEF Seen
<1> QED BY <1>1, <1>3, <1>4, <1>7, <1>8, WaiterStepSeen

\* The first block is given up once it is empty.
LEMMA ReleaseBlockSeen ==
    ASSUME Open, Open', ItemInv, CountInv, ReleaseBlock
    PROVE  Seen /\ ItemInv' /\ CountInv'
<1>1. /\ consumer = "releasing" /\ consumer' = "reading" /\ frontBlock' = from
      /\ UNCHANGED <<semaphoreVars, producerVars, blocks, tailBlock, largestBlockSize, result>>
  BY DEF ReleaseBlock, ConsumerTo
<1>2. UNCHANGED <<waiter, count, into, item, producer>>
  BY <1>1 DEF semaphoreVars, producerVars
<1>3. /\ frontBlock # tailBlock /\ ~ NotEmpty(frontBlock) /\ from = blocks[frontBlock].next
      /\ frontBlock \in DOMAIN blocks /\ BlockInv(blocks[frontBlock])
  BY <1>1 DEF Open, BlocksInv, ConsumerInv, Taking
<1>4. Content(blocks[frontBlock]) = <<>>
  BY <1>3, EmptyContent DEF NotEmpty
<1>5. PICK live, first, last : Chain(live, first, last)
  BY DEF Open, ChainInv
<1>6. Sound(blocks) /\ Path(blocks, frontBlock, tailBlock, live, first, last)
  BY <1>5, BlocksAreSound, ChainIsPath DEF Open
<1> DEFINE begin == first + 1
<1>7. /\ first \in Nat /\ last \in Nat /\ first # last /\ begin \in Nat /\ begin <= last
      /\ first \in first .. last - 1
      /\ \A j \in begin .. last - 1 : j \in first .. last - 1
      /\ \A j \in begin .. last : j \in first .. last
  BY <1>3, <1>6 DEF Path
<1>8. live[begin] = from
  BY <1>3, <1>6, <1>7 DEF Path
<1> HIDE DEF begin
<1>9. Path(blocks, from, tailBlock, live, begin, last)
  BY <1>6, <1>7, <1>8 DEF Path
<1>10. ElementsOf(blocks, from, tailBlock) = FlattenSeq(Along(blocks, live, begin, last))
  BY <1>6, <1>9, ElementsAre
<1>11. Joined(ElementsOf(blocks, frontBlock, tailBlock), Content(blocks[frontBlock]),
              FlattenSeq(Along(blocks, live, begin, last)))
  BY <1>6, FirstAndRest DEF begin
<1>12. Elements' = Elements
  <2>1. Elements' = ElementsOf(blocks, from, tailBlock)
    BY <1>1, ElementsWillBeThose
  <2> QED BY <1>4, <1>10, <1>11, <2>1, ElementsAreThose DEF Joined
<1>13. /\ Available' = Available /\ Granting' = Granting /\ Signalling' = Signalling
       /\ producer # "destroyed" /\ producer' # "destroyed" /\ ItemInv'
  BY <1>1, <1>2 DEF Available, Owes, Granting, Signalling, Open, ProducerInv, Entering, ItemInv
<1> QED BY <1>1, <1>12, <1>13, QuietStep

\* A step of the consumer that changes what its first block holds.
OthersHold ==
    /\ frontBlock' = frontBlock /\ tailBlock' = tailBlock
    /\ \A c \in DOMAIN blocks : c # frontBlock => Content(blocks'[c]) = Content(blocks[c])

LEMMA FirstContentChanges ==
    ASSUME BlocksInv, BlocksInv', ChainInv, Kept({"next"}), OthersHold
    PROVE  \E rest : /\ Joined(Elements, Content(blocks[frontBlock]), rest)
                    /\ Joined(Elements', Content(blocks'[frontBlock]), rest)
<1>1. PICK live, first, last : Chain(live, first, last)
  BY DEF ChainInv
<1>2. Sound(blocks) /\ Path(blocks, frontBlock, tailBlock, live, first, last)
  BY <1>1, BlocksAreSound, ChainIsPath
<1>3. Sound(blocks')
  BY DEF BlocksInv, Sound
<1>4. /\ live \in [Nat -> DOMAIN blocks] /\ first \in Nat /\ last \in Nat
      /\ first + 1 \in Nat /\ first \in first .. last
      /\ \A i \in first .. last - 1 : i \in Nat /\ live[i] \in DOMAIN blocks
      /\ \A i \in first + 1 .. last :
            i \in first .. last /\ i # first /\ live[i] \in DOMAIN blocks
      /\ live[first] = frontBlock
  BY <1>2 DEF Path
<1>5. Path(blocks', frontBlock, tailBlock, live, first, last)
  <2>1. \A i \in first .. last - 1 : blocks'[live[i]].next = blocks[live[i]].next
    BY <1>4 DEF Kept
  <2> QED BY <1>2, <2>1, PathStays DEF Kept
<1>6. \A i \in first + 1 .. last : Content(blocks'[live[i]]) = Content(blocks[live[i]])
  <2>1. TAKE i \in first + 1 .. last
  <2>2. live[i] # frontBlock
    BY <1>2, <1>4 DEF Path
  <2> QED BY <1>4, <2>2 DEF OthersHold
<1>7. Along(blocks', live, first + 1, last) = Along(blocks, live, first + 1, last)
  BY <1>4, <1>6, AlongStays
<1>8. PICK rest : rest = FlattenSeq(Along(blocks, live, first + 1, last))
  OBVIOUS
<1>9. Joined(ElementsOf(blocks, frontBlock, tailBlock), Content(blocks[frontBlock]), rest)
  <2>1. Joined(ElementsOf(blocks, frontBlock, tailBlock), Content(blocks[frontBlock]),
               FlattenSeq(Along(blocks, live, first + 1, last)))
    BY <1>2, FirstAndRest
  <2> QED BY <1>8, <2>1
<1>10. Joined(ElementsOf(blocks', frontBlock, tailBlock), Content(blocks'[frontBlock]), rest)
  BY <1>3, <1>5, <1>7, <1>8, FirstAndRest
<1>11. Elements' = ElementsOf(blocks', frontBlock, tailBlock)
  BY ElementsWillBeThose DEF OthersHold
<1> QED BY <1>9, <1>10, <1>11, ElementsAreThose

\* peek finds the first element, in the first block or, if that is empty, in the next.
LEMMA ReadPeekSeen ==
    ASSUME Open, Open', ItemInv, CountInv, Read, operation = "peek"
    PROVE  Seen /\ ItemInv' /\ CountInv'
<1>1. /\ consumer = "reading" /\ consumer' = "idle"
      /\ result' = blocks[from].data[blocks[from].front]
      /\ UNCHANGED <<semaphoreVars, producerVars, blocks, frontBlock, tailBlock>>
  BY DEF Read
<1>2. UNCHANGED <<waiter, count, producer, item, into>>
  BY <1>1 DEF semaphoreVars, producerVars
<1>3. /\ waiter = "idle" /\ NotEmpty(from) /\ from \in DOMAIN blocks
      /\ frontBlock \in DOMAIN blocks /\ BlockInv(blocks[from]) /\ BlockInv(blocks[frontBlock])
      /\ from # frontBlock => /\ frontBlock # tailBlock /\ ~ NotEmpty(frontBlock)
                              /\ from = blocks[frontBlock].next
  BY <1>1 DEF Open, BlocksInv, ConsumerInv
<1>4. Elements # <<>> /\ Head(Elements) = blocks[from].data[blocks[from].front]
  <2>1. CASE from = frontBlock
    BY <1>3, <2>1, FirstElement DEF Open
  <2>2. CASE from # frontBlock
    <3>1. PICK live, first, last : Chain(live, first, last)
      BY DEF Open, ChainInv
    <3>2. Sound(blocks) /\ Path(blocks, frontBlock, tailBlock, live, first, last)
      BY <3>1, BlocksAreSound, ChainIsPath DEF Open
    <3> DEFINE begin == first + 1
               rest == FlattenSeq(Along(blocks, live, begin, last))
               more == FlattenSeq(Along(blocks, live, begin + 1, last))
    <3>3. Joined(Elements, Content(blocks[frontBlock]), rest)
      BY <3>2, FirstAndRest, ElementsAreThose
    <3>4. Content(blocks[frontBlock]) = <<>>
      BY <1>3, <2>2, EmptyContent DEF NotEmpty
    <3>5. Elements = rest
      <4> HIDE DEF rest
      <4> QED BY <3>3, <3>4 DEF Joined
    <3>6. /\ first \in Nat /\ last \in Nat /\ first # last /\ begin \in Nat /\ begin <= last
          /\ first \in first .. last - 1
          /\ \A j \in begin .. last - 1 : j \in first .. last - 1
          /\ \A j \in begin .. last : j \in first .. last
      BY <1>3, <2>2, <3>2 DEF Path
    <3>7. live[begin] = from
      BY <1>3, <2>2, <3>2, <3>6 DEF Path
    <3> HIDE DEF begin
    <3>8. Path(blocks, from, tailBlock, live, begin, last)
      BY <3>2, <3>6, <3>7 DEF Path
    <3>9. ElementsOf(blocks, from, tailBlock) = rest
      BY <3>2, <3>8, ElementsAre
    <3>10. Joined(ElementsOf(blocks, from, tailBlock), Content(blocks[from]), more)
      BY <3>2, <3>8, FirstAndRest
    <3>11. /\ Content(blocks[from]) # <<>>
           /\ Head(Content(blocks[from])) = blocks[from].data[blocks[from].front]
      BY <1>3, FirstContent DEF NotEmpty
    <3> HIDE DEF rest, more
    <3> QED BY <3>5, <3>9, <3>10, <3>11, JoinedShrinks
  <2> QED BY <2>1, <2>2
<1>5. /\ InQueue = Elements /\ InQueue' = Elements /\ producer # "destroyed"
  <2>1. Elements' = Elements
    BY <1>1, ElementsAreThose, ElementsWillBeThose
  <2>2. producer # "destroyed"
    BY DEF Open, ProducerInv, Entering
  <2> QED BY <1>1, <1>2, <2>1, <2>2 DEF InQueue
<1>6. Available' = Available /\ Granting' = Granting /\ Signalling' = Signalling
  BY <1>1, <1>2, <1>3 DEF Available, Owes, Granting, Signalling
<1>7. MailboxOf!Peek
  BY <1>1, <1>2, <1>4, <1>5, <1>6 DEF MailboxOf!Peek, Granting
<1>8. ItemInv' /\ CountInv'
  BY <1>1, <1>2, <1>5, <1>6 DEF ItemInv, CountInv
<1> QED BY <1>7, <1>8 DEF Seen, MailboxOf!Next

\* What the producer wrote is not in the first block's first slot.
LEMMA ItemKept ==
    ASSUME Open, ItemInv, UNCHANGED <<producer, item, into>>,
           \A c \in DOMAIN blocks : c # frontBlock => blocks'[c] = blocks[c],
           blocks'[frontBlock].tail = blocks[frontBlock].tail,
           blocks'[frontBlock].data[blocks[frontBlock].tail]
               = blocks[frontBlock].data[blocks[frontBlock].tail]
    PROVE  ItemInv'
<1>1. into \in DOMAIN blocks
  BY DEF Open, BlocksInv
<1>2. producer = "publishing" => blocks'[into'].data[blocks'[into'].tail] = item'
  <2>1. CASE into = frontBlock
    BY <2>1 DEF ItemInv
  <2>2. CASE into # frontBlock
    BY <1>1, <2>2 DEF ItemInv
  <2> QED BY <2>1, <2>2
<1>3. producer \in {"moving", "linking"} => Content(blocks'[into']) = <<item'>>
  <2>1. producer \in {"moving", "linking"} => into # frontBlock
    BY EnteredIsNotFront DEF Open, ProducerInv, Entering
  <2> QED BY <1>1, <2>1 DEF ItemInv
<1> QED BY <1>2, <1>3 DEF ItemInv

\* The other operations take it: they announce that it is gone when it is read.
LEMMA ReadTakesSeen ==
    ASSUME Open, Open', SemaphoreInv, ItemInv, CountInv, Read, operation # "peek"
    PROVE  Seen /\ ItemInv' /\ CountInv'
<1> DEFINE b == from
           i == blocks[b].front
           k == [blocks[b] EXCEPT !.data[i] = Raw]
<1>1. /\ consumer = "reading" /\ consumer' = "leaving" /\ from' = from
      /\ result' \in {blocks[b].data[i], result}
      /\ blocks' = [blocks EXCEPT ![b] = k]
      /\ semaphoreVars' = semaphoreVars /\ producerVars' = producerVars
      /\ frontBlock' = frontBlock /\ tailBlock' = tailBlock
      /\ largestBlockSize' = largestBlockSize
  BY DEF Read
<1>2. UNCHANGED <<into, item, producer, waiter, count>>
  BY <1>1 DEF producerVars, semaphoreVars
<1>b. /\ b \in DOMAIN blocks /\ BlockInv(blocks[b]) /\ blocks[b].next \in DOMAIN blocks
      /\ blocks[b].front # blocks[b].tail /\ b = frontBlock /\ waiter = "granted"
  BY <1>1 DEF Open, BlocksInv, ConsumerInv, Taking, NotEmpty
<1>s. i \in Slots(blocks[b]) /\ blocks[b].tail \in Slots(blocks[b])
  BY <1>b DEF BlockInv, Indices, Slots
<1>3. /\ BlockInv(k) /\ Others(k, blocks[b], "data")
      /\ k.data = [j \in Slots(blocks[b]) |-> IF j = i THEN Raw ELSE blocks[b].data[j]]
  <2>1. BlockInv(blocks[b]) /\ i \in Slots(blocks[b]) /\ Raw \in Values \cup {Raw}
    BY <1>b, <1>s
  <2> QED BY <2>1, SlotIsSet
<1> HIDE DEF k
<1>4. /\ BlocksInv'
      /\ \A fields : "data" \notin fields /\ fields \subseteq BlockFields => Kept(fields)
      /\ blocks'[b] = k /\ \A c \in DOMAIN blocks : c # b => blocks'[c] = blocks[c]
  <2>1. "data" \in BlockFields /\ k.next = blocks[b].next
    BY <1>3 DEF BlockFields, Others
  <2> QED BY <1>1, <1>2, <1>b, <1>3, <2>1, BlockChanges DEF Open, BlocksInv
<1>5. Kept({"next"})
  BY <1>4 DEF BlockFields
<1>6. k.size = blocks[b].size /\ k.front = blocks[b].front /\ k.tail = blocks[b].tail
  BY <1>3 DEF Others, BlockFields
<1>7. Content(k) # <<>> /\ Tail(Content(k)) = Tail(Content(blocks[b]))
  <2>1. \A j \in Slots(blocks[b]) : j # blocks[b].front => blocks[b].data[j] = k.data[j]
    BY <1>3
  <2> QED BY <1>b, <1>3, <1>6, <2>1, SameRest
<1>8. Content(blocks[b]) # <<>> /\ Head(Content(blocks[b])) = blocks[b].data[i]
  BY <1>b, FirstContent
<1>10. PICK rest : Joined(Elements, Content(blocks[b]), rest) /\ Joined(Elements', Content(k), rest)
  <2>1. OthersHold
    BY <1>1, <1>b, <1>4 DEF OthersHold
  <2>2. blocks'[frontBlock] = k /\ blocks[frontBlock] = blocks[b]
    BY <1>b, <1>4
  <2> QED BY <1>4, <1>5, <2>1, <2>2, FirstContentChanges DEF Open
<1>11. /\ Elements # <<>> /\ Elements \in Seq(Slot) /\ Head(Elements) = blocks[b].data[i]
       /\ Tail(Elements') = Tail(Elements)
  <2>1. /\ Elements \in Seq(Slot) /\ Elements # <<>>
        /\ Head(Elements) = Head(Content(blocks[b]))
        /\ Joined(Tail(Elements), Tail(Content(blocks[b])), rest)
    BY <1>8, <1>10, JoinedShrinks
  <2>2. Joined(Tail(Elements'), Tail(Content(k)), rest)
    BY <1>7, <1>10, JoinedShrinks
  <2> QED BY <1>7, <1>8, <2>1, <2>2, JoinedOnce
<1>12. InQueue = Elements /\ InQueue' = Tail(Elements) /\ producer # "destroyed"
  <2>1. producer # "destroyed"
    BY DEF Open, ProducerInv, Entering
  <2> QED BY <1>1, <1>2, <1>11, <2>1 DEF InQueue
<1>13. /\ Available' = Available /\ Granting = 1 /\ Granting' = 0 /\ Signalling' = Signalling
  BY <1>1, <1>2, <1>b DEF Available, Owes, Granting, Signalling
<1>14. ItemInv'
  <2>1. k.data[blocks[b].tail] = blocks[b].data[blocks[b].tail]
    BY <1>b, <1>s, <1>3
  <2> QED BY <1>2, <1>b, <1>4, <1>6, <2>1, ItemKept
<1>15. CountInv'
  <2>1. Len(InQueue') = Len(InQueue) - 1
    BY <1>11, <1>12
  <2>2. Available \in Int /\ Signalling \in Int
    BY DEF SemaphoreInv, SemaphoreType, Available, Signalling
  <2> QED BY <1>13, <2>1, <2>2 DEF CountInv
<1>16. MailboxOf!Dequeue
  <2>1. result' \in {Head(InQueue), result}
    BY <1>1, <1>11, <1>12
  <2> QED BY <1>2, <1>12, <1>13, <2>1 DEF MailboxOf!Dequeue, Granting
<1> QED BY <1>14, <1>15, <1>16 DEF Seen, MailboxOf!Next

\* When the front is stored the element is gone already.
LEMMA LeaveSeen ==
    ASSUME Open, Open', SemaphoreInv, ItemInv, CountInv, Leave
    PROVE  Seen /\ ItemInv' /\ CountInv'
<1> DEFINE b == from
           i == blocks[b].front
           k == [blocks[b] EXCEPT !.front = Succ(i, blocks[b].size)]
<1>0. consumer = "leaving"
  BY DEF Leave, ConsumerTo
<1>b. /\ b \in DOMAIN blocks /\ BlockInv(blocks[b]) /\ blocks[b].next \in DOMAIN blocks
      /\ Wanting(b) /\ b = frontBlock /\ waiter = "granted"
  BY <1>0 DEF Open, BlocksInv, ConsumerInv, Taking
<1>s. i \in Slots(blocks[b])
  BY <1>b DEF BlockInv, Indices, Slots
<1>a. After(b, i) = Succ(i, blocks[b].size)
  BY <1>b, <1>s, AfterIs
<1>1. /\ producerVars' = producerVars /\ frontBlock' = frontBlock /\ tailBlock' = tailBlock
      /\ largestBlockSize' = largestBlockSize /\ from' = from /\ result' = result
      /\ count' = count /\ waiter' = "idle" /\ consumer' = "idle"
      /\ blocks' = [blocks EXCEPT ![b] = k]
  BY <1>a DEF Leave, ConsumerTo, Return
<1>2. UNCHANGED <<into, item, producer>>
  BY <1>1 DEF producerVars
<1>3. /\ BlockInv(k) /\ Others(k, blocks[b], "front")
      /\ Filled(k) = Filled(blocks[b]) - 1
  BY <1>b, FrontMoves DEF Wanting
<1>n. k.front = Succ(i, blocks[b].size)
  BY <1>b DEF BlockInv, BlockFields
<1> HIDE DEF k
<1>4. /\ BlocksInv'
      /\ \A fields : "front" \notin fields /\ fields \subseteq BlockFields => Kept(fields)
      /\ blocks'[b] = k /\ \A c \in DOMAIN blocks : c # b => blocks'[c] = blocks[c]
  <2>1. "front" \in BlockFields /\ k.next = blocks[b].next
    BY <1>3 DEF BlockFields, Others
  <2> QED BY <1>1, <1>2, <1>b, <1>3, <2>1, BlockChanges DEF Open, BlocksInv
<1>5. Kept({"next"})
  BY <1>4 DEF BlockFields
<1>6. k.size = blocks[b].size /\ k.data = blocks[b].data /\ k.tail = blocks[b].tail
  BY <1>3 DEF Others, BlockFields
<1>t. blocks[b].front # blocks[b].tail
  BY <1>b, EmptyOrNot DEF Wanting
<1>7. Content(k) = Tail(Content(blocks[b]))
  BY <1>b, <1>t, <1>3, <1>n, <1>6, ShorterContent
<1>8. Content(blocks[b]) # <<>>
  BY <1>b, <1>t, FirstContent
<1>10. PICK rest : Joined(Elements, Content(blocks[b]), rest) /\ Joined(Elements', Content(k), rest)
  <2>1. OthersHold
    BY <1>1, <1>b, <1>4 DEF OthersHold
  <2>2. blocks'[frontBlock] = k /\ blocks[frontBlock] = blocks[b]
    BY <1>b, <1>4
  <2> QED BY <1>4, <1>5, <2>1, <2>2, FirstContentChanges DEF Open
<1>11. Elements' = Tail(Elements)
  <2>1. Joined(Tail(Elements), Tail(Content(blocks[b])), rest)
    BY <1>8, <1>10, JoinedShrinks
  <2> QED BY <1>7, <1>10, <2>1, JoinedOnce
<1>12. InQueue' = InQueue /\ producer # "destroyed"
  <2>1. producer # "destroyed"
    BY DEF Open, ProducerInv, Entering
  <2> QED BY <1>0, <1>1, <1>2, <1>11, <2>1 DEF InQueue
<1>13. /\ Available' = Available /\ Granting = 0 /\ Granting' = 0 /\ Signalling' = Signalling
  BY <1>0, <1>1, <1>2, <1>b DEF Available, Owes, Granting, Signalling
<1>14. ItemInv'
  BY <1>2, <1>b, <1>4, <1>6, ItemKept
<1>15. CountInv'
  BY <1>12, <1>13 DEF CountInv
<1>16. MailboxOf!mailbox' = MailboxOf!mailbox
  BY <1>1, <1>2, <1>12, <1>13 DEF MailboxOf!mailbox, Granting
<1> QED BY <1>14, <1>15, <1>16 DEF Seen

\* The destructor ends it.
LEMMA DestroySeen ==
    ASSUME Open, SemaphoreInv, Destroy
    PROVE  Seen
<1>1. /\ consumer = "idle" /\ producer' = "destroyed" /\ semaphoreVars' = semaphoreVars
      /\ consumer' = consumer /\ result' = result
  BY DEF Destroy, consumerVars
<1>2. waiter = "idle" /\ waiter' = "idle"
  BY <1>1 DEF Open, ConsumerInv, semaphoreVars
<1>3. MailboxOf!Close
  BY <1>1, <1>2 DEF MailboxOf!Close, InQueue
<1> QED BY <1>3 DEF Seen, MailboxOf!Next

LEMMA StutterSeen ==
    ASSUME UNCHANGED vars
    PROVE  Seen /\ (ItemInv => ItemInv') /\ (CountInv => CountInv')
<1>1. /\ UNCHANGED <<semaphoreVars, blockVars, producerVars, consumerVars>>
      /\ UNCHANGED <<count, waiter, blocks, frontBlock, tailBlock, producer, item, into,
                     consumer, result>>
  BY DEF vars, semaphoreVars, blockVars, producerVars, consumerVars
<1>2. Elements' = Elements
  <2>1. Elements' = ElementsOf(blocks, frontBlock, tailBlock)
    BY <1>1, ElementsWillBeThose
  <2> QED BY <2>1, ElementsAreThose
<1>3. InQueue' = InQueue /\ Available' = Available
  BY <1>1, <1>2 DEF InQueue, Available, Owes
<1>4. MailboxOf!mailbox' = MailboxOf!mailbox
  BY <1>1, <1>3 DEF MailboxOf!mailbox
<1>5. ItemInv => ItemInv'
  BY <1>1 DEF ItemInv
<1>6. CountInv => CountInv'
  <2>1. Granting' = Granting /\ Signalling' = Signalling
    BY <1>1 DEF Granting, Signalling
  <2> QED BY <1>3, <2>1 DEF CountInv
<1> QED BY <1>4, <1>5, <1>6 DEF Seen

\* The constructor makes it empty.
LEMMA InitIsEmpty ==
    ASSUME Init
    PROVE  ItemInv /\ CountInv /\ MailboxOf!Init
<1>1. /\ SemaphoreInv /\ Open /\ count = 0 /\ waiter = "idle" /\ producer = "idle"
      /\ consumer = "idle" /\ frontBlock = 1 /\ tailBlock = 1 /\ result \in Values
  BY InitOpens DEF Init, SemaphoreInit
<1>2. blocks[1].front = blocks[1].tail /\ BlockInv(blocks[1])
  <2>1. 1 \in DOMAIN blocks /\ BlockInv(blocks[1])
    BY <1>1 DEF Open, BlocksInv
  <2>2. blocks = [b \in 1 .. InitialCount |-> NewBlock(InitialSize, (b % InitialCount) + 1)]
    BY DEF Init
  <2>3. blocks[1] = NewBlock(InitialSize, (1 % InitialCount) + 1)
    BY <2>1, <2>2
  <2> QED BY <2>1, <2>3, SizesAre, NewBlockIsBlock
<1>3. Content(blocks[1]) = <<>>
  BY <1>2, EmptyContent
<1>4. PICK live : live = [i \in Nat |-> 1]
  OBVIOUS
<1>5. Sound(blocks) /\ Path(blocks, 1, 1, live, 0, 0)
  <2>1. Sound(blocks) /\ 1 \in DOMAIN blocks
    BY <1>1, BlocksAreSound DEF Open, BlocksInv
  <2> QED BY <1>4, <2>1 DEF Path
<1>6. Along(blocks, live, 0, 0) = <<Content(blocks[1])>>
  BY <1>4 DEF Along
<1>7. Elements = <<>>
  <2>1. ElementsOf(blocks, 1, 1) = FlattenSeq(<<Content(blocks[1])>>)
    BY <1>5, <1>6, ElementsAre
  <2>2. <<>> \in Seq(Slot)
    OBVIOUS
  <2> QED BY <1>1, <1>3, <2>1, <2>2, FlattenOne, ElementsAreThose
<1>8. InQueue = <<>> /\ Available = 0 /\ Granting = 0 /\ Signalling = 0
  BY <1>1, <1>7 DEF InQueue, Available, Owes, Granting, Signalling
<1>9. ItemInv
  BY <1>1 DEF ItemInv
<1>10. CountInv
  BY <1>8 DEF CountInv
<1>11. MailboxOf!Init
  BY <1>1, <1>8 DEF MailboxOf!Init
<1> QED BY <1>9, <1>10, <1>11

\* Every step.
MailInv == QueueInv /\ (Open => ItemInv /\ CountInv)

LEMMA OpenSeen ==
    ASSUME Open, Open', SemaphoreInv, SemaphoreInv', ItemInv, CountInv, Next, ~ Destroy, ~ Destroyed
    PROVE  Seen /\ ItemInv' /\ CountInv'
<1>1. ASSUME NEW x \in Values, NEW alloc \in BOOLEAN, Enqueue(x, alloc)
      PROVE  Seen /\ ItemInv' /\ CountInv'
  BY <1>1, EnqueueSeen
<1>2. ASSUME NEW o \in {"dequeue", "pop"}, NEW p, CallWait(o, p)
      PROVE  Seen /\ ItemInv' /\ CountInv'
  BY <1>2, CallWaitSeen
<1>3. CASE Peek
  BY <1>3, BeginSeen
<1>4. CASE ProducerStep
  BY <1>4, CheckFrontSeen, UseNextSeen, EnterSeen, WriteSeen, PublishSeen, MoveToBlockSeen,
     AllocateSeen, LinkSeen, SignalElementSeen, PostElementSeen DEF ProducerStep
<1>5. CASE ConsumerStep
  BY <1>5, WaitingSeen, RefusedSeen, BeginSeen, LookSeen, ReleaseBlockSeen, ReadPeekSeen,
     ReadTakesSeen, LeaveSeen DEF ConsumerStep
<1> QED BY <1>1, <1>2, <1>3, <1>4, <1>5 DEF Next

LEMMA DestroyedByDestroy ==
    ASSUME Open, Next, ~ Destroy, ~ Destroyed
    PROVE  producer' # "destroyed"
<1>1. producer # "destroyed"
  BY DEF Open, ProducerInv, Entering
<1>2. CASE ProducerStep
  BY <1>1, <1>2 DEF ProducerStep, ProducerTo, CheckFront, UseNext, Enter, Write, Publish,
     MoveToBlock, Allocate, Link, Refuse, SignalElement, PostElement, producerVars
<1>3. CASE ConsumerStep
  BY <1>1, <1>3 DEF ConsumerStep, ConsumerTo, Waiting, Refused, Granted, Begin, Look, Compare,
     FindEmpty, LookAgain, Advance, ReleaseBlock, Read, Leave, producerVars
<1>4. CASE Peek
  BY <1>1, <1>4 DEF Peek, Begin, producerVars
<1>5. ASSUME NEW x, NEW alloc, Enqueue(x, alloc) PROVE producer' # "destroyed"
  BY <1>5 DEF Enqueue
<1>6. ASSUME NEW o, NEW p, CallWait(o, p) PROVE producer' # "destroyed"
  BY <1>1, <1>6 DEF CallWait, producerVars
<1> QED BY <1>2, <1>3, <1>4, <1>5, <1>6 DEF Next

LEMMA MailKept == MailInv /\ [Next]_vars => MailInv' /\ Seen
<1> SUFFICES ASSUME MailInv, [Next]_vars
             PROVE  MailInv' /\ Seen
  OBVIOUS
<1>1. QueueInv' /\ SemaphoreInv /\ SemaphoreInv'
  BY InvKept DEF MailInv, QueueInv
<1>2. CASE UNCHANGED vars
  <2>1. Open' => Open
    <3>1. UNCHANGED producer
      BY <1>2 DEF vars, producerVars
    <3> QED BY <3>1 DEF MailInv, QueueInv, Open, Closed, ProducerInv, Entering
  <2> QED BY <1>1, <1>2, <2>1, StutterSeen DEF MailInv
<1>3. CASE Closed
  BY <1>2, <1>3, ClosedStutters
<1>4. CASE Open /\ Destroy
  <2>1. ~ Open'
    BY <1>4 DEF Destroy, Open, ProducerInv, Entering
  <2> QED BY <1>1, <1>4, <2>1, DestroySeen DEF MailInv
<1>5. CASE Open /\ Next /\ ~ Destroy /\ ~ Destroyed
  <2>1. Open'
    <3>1. producer' # "destroyed"
      BY <1>5, DestroyedByDestroy
    <3> QED BY <1>1, <3>1 DEF QueueInv, Closed
  <2> QED BY <1>1, <1>5, <2>1, OpenSeen DEF MailInv
<1>6. QueueInv
  BY DEF MailInv
<1> QED BY <1>2, <1>3, <1>4, <1>5, <1>6 DEF QueueInv, Destroyed

\* The circles of blocks, the copies that the two threads keep of each other's indices,
\* and the two counts of the semaphore are a mailbox: elements come out in the order in
\* which they went in, each once, whatever blocks they go through, and a wait of
\* wait_dequeue or try_dequeue is granted only for an element that is there.
THEOREM QueueIsMailbox == Spec => ImplementsMailbox
<1>1. Init => MailInv /\ MailboxOf!Init
  BY InitOpens, InitIsEmpty DEF MailInv, QueueInv
<1>2. MailInv /\ [Next]_vars => MailInv' /\ [MailboxOf!Next]_(MailboxOf!mailbox)
  BY MailKept DEF Seen
<1> QED BY <1>1, <1>2, PTL DEF Spec, ImplementsMailbox, MailboxOf!Safety

-----------------------------------------------------------------------------
(* How much the queue holds.                                                 *)

Full(b) == Filled(blocks[b]) = blocks[b].size - 1

\* The producer has left the last block, or is about to.
Turning == producer = "full" \/ (producer \in Entering /\ into # tailBlock)

\* No block is smaller, and there are no fewer, than the constructor made.
SizesInv ==
    /\ InitialCount \in DOMAIN blocks
    /\ largestBlockSize >= InitialSize
    /\ \A b \in DOMAIN blocks : blocks[b].size >= InitialSize

\* The blocks are one circle: whoever goes on from block to block comes to all of them.
OneCircle ==
    \A S \in SUBSET DOMAIN blocks :
        S # {} /\ (\A b \in S : blocks[b].next \in S)
            => \A b \in DOMAIN blocks : b \in S \/ Outside(b)

\* A block between the first and the last, or a last one that the producer turns from
\* and the consumer is not in, is full.
FullInv ==
    /\ \A b \in DOMAIN blocks :
          NotEmpty(b) => \/ b = frontBlock \/ b = tailBlock \/ Full(b)
                         \/ b = into /\ producer \in {"moving", "linking"}
    /\ Turning => tailBlock = frontBlock \/ Full(tailBlock)
    /\ producer = "full" => ~ HasRoom(tailBlock, blocks[tailBlock].localFront)

RoomInv == SizesInv /\ OneCircle /\ FullInv

LEMMA CircleStays ==
    ASSUME SizesInv, OneCircle, Kept({"size", "next"}), largestBlockSize' = largestBlockSize,
           \A b \in DOMAIN blocks : Outside(b) => Outside(b)'
    PROVE  SizesInv' /\ OneCircle'
<1>1. /\ DOMAIN blocks' = DOMAIN blocks
      /\ \A b \in DOMAIN blocks : /\ blocks'[b].size = blocks[b].size
                                  /\ blocks'[b].next = blocks[b].next
  BY DEF Kept
<1>2. SizesInv'
  BY <1>1 DEF SizesInv
<1>3. OneCircle'
  <2> SUFFICES ASSUME NEW S \in SUBSET DOMAIN blocks, S # {},
                      \A b \in S : blocks[b].next \in S,
                      NEW b \in DOMAIN blocks
               PROVE  b \in S \/ Outside(b)'
    BY <1>1 DEF OneCircle
  <2> QED BY DEF OneCircle
<1> QED BY <1>2, <1>3

LEMMA FullStays ==
    ASSUME FullInv, Kept({"size", "front", "tail"}),
           frontBlock' = frontBlock, tailBlock' = tailBlock, tailBlock \in DOMAIN blocks,
           producer \in {"moving", "linking"} =>
               producer' \in {"moving", "linking"} /\ into' = into,
           Turning' => Turning \/ tailBlock = frontBlock \/ Full(tailBlock),
           producer' = "full" =>
               /\ After(tailBlock, blocks[tailBlock].tail) = blocks'[tailBlock].localFront
    PROVE  FullInv'
<1>1. /\ DOMAIN blocks' = DOMAIN blocks
      /\ \A b \in DOMAIN blocks : /\ blocks'[b].size = blocks[b].size
                                  /\ blocks'[b].front = blocks[b].front
                                  /\ blocks'[b].tail = blocks[b].tail
  BY DEF Kept
<1>2. \A b \in DOMAIN blocks : (NotEmpty(b)' <=> NotEmpty(b)) /\ (Full(b)' <=> Full(b))
  BY <1>1 DEF NotEmpty, Full, Filled
<1>3. \A b \in DOMAIN blocks' :
          NotEmpty(b)' => \/ b = frontBlock' \/ b = tailBlock' \/ Full(b)'
                          \/ b = into' /\ producer' \in {"moving", "linking"}
  BY <1>1, <1>2 DEF FullInv
<1>4. Turning' => tailBlock' = frontBlock' \/ Full(tailBlock)'
  BY <1>1 DEF FullInv, Full, Filled
<1>5. producer' = "full" => ~ HasRoom(tailBlock, blocks[tailBlock].localFront)'
  BY <1>1 DEF HasRoom, After
<1> QED BY <1>3, <1>4, <1>5 DEF FullInv

\* A step that is none of the producer's.
LEMMA RoomKept ==
    ASSUME RoomInv, BlocksInv, Kept({"size", "front", "tail", "localFront", "next"}),
           producer' = producer, into' = into, frontBlock' = frontBlock,
           tailBlock' = tailBlock, largestBlockSize' = largestBlockSize
    PROVE  RoomInv'
<1>1. tailBlock \in DOMAIN blocks /\ Kept({"size", "next"}) /\ Kept({"size", "front", "tail"})
  BY DEF BlocksInv, Kept
<1>2. SizesInv' /\ OneCircle'
  BY <1>1, CircleStays DEF RoomInv, Outside
<1>3. blocks'[tailBlock].localFront = blocks[tailBlock].localFront
  BY <1>1 DEF Kept
<1>4. FullInv'
  <2>1. FullInv
    BY DEF RoomInv
  <2>2. Turning' => Turning
    BY DEF Turning
  <2>3. producer' = "full" =>
            After(tailBlock, blocks[tailBlock].tail) = blocks'[tailBlock].localFront
    BY <1>3, <2>1 DEF FullInv, HasRoom
  <2> QED BY <1>1, <2>1, <2>2, <2>3, FullStays
<1> QED BY <1>2, <1>4 DEF RoomInv

\* A step of the producer that stores no tail and links no block.
LEMMA ProducerRoom ==
    ASSUME RoomInv, BlocksInv, Kept({"size", "front", "tail", "next"}),
           frontBlock' = frontBlock, tailBlock' = tailBlock,
           largestBlockSize' = largestBlockSize,
           producer \notin {"moving", "linking"}, producer' # "full", Turning' => Turning
    PROVE  RoomInv'
<1>1. tailBlock \in DOMAIN blocks /\ Kept({"size", "next"}) /\ Kept({"size", "front", "tail"})
  BY DEF BlocksInv, Kept
<1>2. SizesInv' /\ OneCircle'
  BY <1>1, CircleStays DEF RoomInv, Outside
<1>3. FullInv'
  BY <1>1, FullStays DEF RoomInv
<1> QED BY <1>2, <1>3 DEF RoomInv

LEMMA EnqueueRoom ==
    ASSUME Open, RoomInv, NEW x, NEW alloc, Enqueue(x, alloc)
    PROVE  RoomInv'
<1>1. /\ UNCHANGED <<blocks, frontBlock, tailBlock, largestBlockSize>>
      /\ producer = "idle" /\ producer' \in {"writing", "checking"} /\ into' = tailBlock
  BY DEF Enqueue, blockVars
<1>2. ~ Turning'
  BY <1>1 DEF Turning
<1> QED BY <1>1, <1>2, AllKept, ProducerRoom DEF Open

\* The last block is full if no slot is left between its tail and its front.
LEMMA FullIs ==
    ASSUME NEW b \in DOMAIN blocks, BlockInv(blocks[b]), ~ HasRoom(b, blocks[b].front)
    PROVE  Full(b)
<1> DEFINE s == blocks[b].size
           f == blocks[b].front
           t == blocks[b].tail
<1>1. s \in Nat /\ s >= 2 /\ f \in 0 .. s - 1 /\ t \in 0 .. s - 1 /\ t \in Slots(blocks[b])
  BY DEF BlockInv, Indices, Slots
<1>2. Succ(t, s) = f
  BY <1>1, AfterIs DEF HasRoom
<1> HIDE DEF s, f, t
<1>3. Behind(f, t, s) = s - 1
  BY <1>1, <1>2 DEF Succ, Behind
<1> QED BY <1>3 DEF Full, Filled, s, f, t

LEMMA CheckFrontRoom == ASSUME Open, RoomInv, CheckFront PROVE RoomInv'
<1>1. /\ UNCHANGED <<frontBlock, tailBlock, largestBlockSize, into, from>>
      /\ producer = "checking" /\ into = tailBlock /\ tailBlock \in DOMAIN blocks
      /\ BlockInv(blocks[tailBlock])
      /\ producer' = IF HasRoom(tailBlock, blocks[tailBlock].front) THEN "writing" ELSE "full"
      /\ blocks' = [blocks EXCEPT ![tailBlock].localFront = blocks[tailBlock].front]
  BY DEF Open, BlocksInv, ProducerInv, CheckFront, ProducerTo, consumerVars
<1>2. /\ \A fields : "localFront" \notin fields /\ fields \subseteq BlockFields => Kept(fields)
      /\ blocks'[tailBlock].localFront = blocks[tailBlock].front
  BY <1>1, FrontLooked DEF Open
<1>3. Kept({"size", "next"}) /\ Kept({"size", "front", "tail"})
  BY <1>2 DEF BlockFields
<1>4. SizesInv' /\ OneCircle'
  BY <1>1, <1>3, CircleStays DEF RoomInv, Outside
<1>5. Turning' => Full(tailBlock)
  BY <1>1, FullIs DEF Turning
<1>6. producer' = "full" => After(tailBlock, blocks[tailBlock].tail) = blocks'[tailBlock].localFront
  BY <1>1, <1>2 DEF HasRoom
<1>7. FullInv'
  BY <1>1, <1>3, <1>5, <1>6, FullStays DEF RoomInv
<1> QED BY <1>4, <1>7 DEF RoomInv

LEMMA UseNextRoom == ASSUME Open, RoomInv, UseNext \/ Refuse PROVE RoomInv'
<1>1. /\ UNCHANGED <<blocks, frontBlock, tailBlock, largestBlockSize>>
      /\ producer = "full" /\ producer' \in {"entering", "idle"}
  BY DEF UseNext, Refuse, ProducerTo, blockVars
<1>2. Turning
  BY <1>1 DEF Turning
<1> QED BY <1>1, <1>2, AllKept, ProducerRoom DEF Open

LEMMA EnterRoom == ASSUME Open, RoomInv, Enter PROVE RoomInv'
<1>1. /\ UNCHANGED <<frontBlock, tailBlock, largestBlockSize, into, from>>
      /\ producer = "entering" /\ producer' = "writing" /\ into \in DOMAIN blocks
      /\ blocks' = [blocks EXCEPT ![into].localFront = blocks[into].front]
  BY DEF Open, BlocksInv, Enter, ProducerTo, consumerVars
<1>2. Kept({"size", "front", "tail", "next"})
  BY <1>1, FrontLooked DEF Open, BlockFields
<1>3. Turning' => Turning
  BY <1>1 DEF Turning, Entering
<1> QED BY <1>1, <1>2, <1>3, ProducerRoom DEF Open

\* A slot is written to.
LEMMA SlotKept ==
    ASSUME BlocksInv, NEW b \in DOMAIN blocks, NEW i \in Slots(blocks[b]),
           NEW x \in Values \cup {Raw}, blocks' = [blocks EXCEPT ![b].data[i] = x],
           UNCHANGED <<frontBlock, tailBlock, largestBlockSize, into, from>>
    PROVE  /\ Kept({"size", "front", "tail", "next"})
           /\ Kept({"size", "front", "tail", "localFront", "next"})
<1> DEFINE k == [blocks[b] EXCEPT !.data[i] = x]
<1>1. BlockInv(k) /\ Others(k, blocks[b], "data")
  BY SlotIsSet DEF BlocksInv
<1>2. blocks' = [blocks EXCEPT ![b] = k]
  OBVIOUS
<1> HIDE DEF k
<1>3. k.next = blocks[b].next /\ "data" \in BlockFields
  BY <1>1 DEF Others, BlockFields
<1>4. /\ frontBlock' \in DOMAIN blocks /\ tailBlock' \in DOMAIN blocks
      /\ into' \in DOMAIN blocks /\ from' \in DOMAIN blocks
      /\ k.next \in DOMAIN blocks /\ UNCHANGED largestBlockSize
  BY <1>3 DEF BlocksInv, BlockInv
<1>6. \A fields : "data" \notin fields /\ fields \subseteq BlockFields => Kept(fields)
  BY Zenon, <1>1, <1>2, <1>3, <1>4, BlockChanges
<1> QED BY <1>6 DEF BlockFields

LEMMA WriteRoom == ASSUME Open, RoomInv, Write PROVE RoomInv'
<1>1. /\ UNCHANGED <<frontBlock, tailBlock, largestBlockSize, into, from>>
      /\ producer = "writing" /\ producer' = "publishing"
      /\ into \in DOMAIN blocks /\ BlockInv(blocks[into]) /\ item \in Values
      /\ blocks' = [blocks EXCEPT ![into].data[blocks[into].tail] = item]
  BY DEF Open, BlocksInv, ProducerInv, Write, ProducerTo, consumerVars
<1>2. blocks[into].tail \in Slots(blocks[into])
  BY <1>1 DEF BlockInv, Indices, Slots
<1>3. Kept({"size", "front", "tail", "next"})
  BY <1>1, <1>2, SlotKept DEF Open
<1>4. Turning' => Turning
  BY <1>1 DEF Turning, Entering
<1> QED BY <1>1, <1>3, <1>4, ProducerRoom DEF Open

LEMMA SignalElementRoom == ASSUME Open, RoomInv, SignalElement PROVE RoomInv'
<1>1. /\ UNCHANGED <<blocks, frontBlock, tailBlock, largestBlockSize>>
      /\ producer = "signalling" /\ producer' = "idle"
  BY DEF SignalElement, ProducerTo, blockVars
<1>2. ~ Turning'
  BY <1>1 DEF Turning, Entering
<1> QED BY <1>1, <1>2, AllKept, ProducerRoom DEF Open

LEMMA PublishRoom == ASSUME Open, RoomInv, Publish PROVE RoomInv'
<1> DEFINE b == into
           i == blocks[b].tail
           k == [blocks[b] EXCEPT !.tail = Succ(i, blocks[b].size)]
<1>b. /\ b \in DOMAIN blocks /\ BlockInv(blocks[b]) /\ blocks[b].next \in DOMAIN blocks
      /\ tailBlock \in DOMAIN blocks /\ frontBlock \in DOMAIN blocks
  BY DEF Open, BlocksInv
<1>s. i \in Slots(blocks[b])
  BY <1>b DEF BlockInv, Indices, Slots
<1>a. After(b, i) = Succ(i, blocks[b].size)
  BY <1>b, <1>s, AfterIs
<1>1. /\ UNCHANGED <<frontBlock, tailBlock, largestBlockSize, into, from>>
      /\ producer = "publishing"
      /\ producer' = IF b = tailBlock THEN "signalling" ELSE "moving"
      /\ blocks' = [blocks EXCEPT ![b] = k]
  BY <1>a DEF Publish, ProducerTo, consumerVars
<1>2. BlockInv(k) /\ Others(k, blocks[b], "tail")
  <2>1. HasRoom(b, blocks[b].localFront)
    BY <1>1 DEF Open, ProducerInv
  <2> QED BY <1>a, <1>b, <2>1, TailMoves DEF HasRoom
<1> HIDE DEF k
<1>3. /\ \A fields : "tail" \notin fields /\ fields \subseteq BlockFields => Kept(fields)
      /\ DOMAIN blocks' = DOMAIN blocks
      /\ \A c \in DOMAIN blocks : c # b => blocks'[c] = blocks[c]
  <2>1. "tail" \in BlockFields /\ k.next = blocks[b].next
    BY <1>2 DEF BlockFields, Others
  <2> QED BY <1>1, <1>b, <1>2, <2>1, BlockChanges DEF Open, BlocksInv
<1>4. Kept({"size", "next"})
  BY <1>3 DEF BlockFields
<1>5. SizesInv' /\ OneCircle'
  BY <1>1, <1>4, CircleStays DEF RoomInv, Outside
<1>6. ASSUME NEW c \in DOMAIN blocks, c # b
      PROVE  (NotEmpty(c)' <=> NotEmpty(c)) /\ (Full(c)' <=> Full(c))
  BY <1>3, <1>6 DEF NotEmpty, Full
<1>7. ASSUME NEW c \in DOMAIN blocks, NotEmpty(c)'
      PROVE  \/ c = frontBlock' \/ c = tailBlock' \/ Full(c)'
             \/ c = into' /\ producer' \in {"moving", "linking"}
  BY <1>1, <1>6, <1>7 DEF RoomInv, FullInv
<1>8. Turning' => tailBlock' = frontBlock' \/ Full(tailBlock)'
  <2>1. SUFFICES ASSUME Turning'
                 PROVE  tailBlock = frontBlock \/ Full(tailBlock)'
    BY <1>1
  <2>2. Turning /\ tailBlock # b
    BY <1>1, <2>1 DEF Turning, Entering
  <2>3. Full(tailBlock)' <=> Full(tailBlock)
    BY <1>1, <1>3, <1>b, <2>2 DEF Full
  <2> QED BY <2>2, <2>3 DEF RoomInv, FullInv
<1>9. FullInv'
  BY <1>1, <1>3, <1>7, <1>8 DEF FullInv
<1> QED BY <1>5, <1>9 DEF RoomInv

\* The block that it leaves is full, or the one the consumer is in.
LEMMA MoveToBlockRoom == ASSUME Open, RoomInv, MoveToBlock PROVE RoomInv'
<1>1. /\ blocks' = blocks /\ frontBlock' = frontBlock /\ into' = into /\ tailBlock' = into
      /\ largestBlockSize' = largestBlockSize /\ into # tailBlock
      /\ producer = "moving" /\ producer' = "signalling"
  BY DEF MoveToBlock, ProducerTo, Open, ProducerInv
<1>2. SizesInv' /\ OneCircle'
  BY <1>1, AllKept, CircleStays DEF RoomInv, Outside
<1>3. Turning /\ ~ Turning'
  BY <1>1 DEF Turning, Entering
<1>4. \A b : (NotEmpty(b)' <=> NotEmpty(b)) /\ (Full(b)' <=> Full(b))
  BY <1>1 DEF NotEmpty, Full
<1>5. FullInv'
  BY <1>1, <1>3, <1>4 DEF RoomInv, FullInv
<1> QED BY <1>2, <1>5 DEF RoomInv

\* The new block is no smaller than the last that was made, and not in the circle yet.
LEMMA AllocateRoom == ASSUME Open, RoomInv, Allocate PROVE RoomInv'
<1>0. PICK n \in Nat : DOMAIN blocks = 1 .. n
  BY DEF Open, BlocksInv
<1> DEFINE size == IF largestBlockSize >= MaxBlockSize THEN largestBlockSize
                   ELSE largestBlockSize * 2
           new == n + 1
           k == Filling(size, blocks[tailBlock].next)
<1>c. Cardinality(DOMAIN blocks) + 1 = new
  <2>1. Cardinality(1 .. n) = IF 1 > n THEN 0 ELSE n - 1 + 1
    BY FS_Interval
  <2>2. (IF 1 > n THEN 0 ELSE n - 1 + 1) = n
    OBVIOUS
  <2> QED BY <1>0, <2>1, <2>2
<1>1. /\ frontBlock' = frontBlock /\ tailBlock' = tailBlock
      /\ producer = "full" /\ producer' = "linking" /\ into' = new
      /\ blocks' = [b \in DOMAIN blocks \cup {new} |-> IF b = new THEN k ELSE blocks[b]]
      /\ largestBlockSize' = size
  BY <1>c DEF Allocate, ProducerTo, Filling
<1>2. /\ tailBlock \in DOMAIN blocks /\ item \in Values
      /\ \A b \in DOMAIN blocks : blocks[b].next \in DOMAIN blocks
  BY <1>1 DEF Open, BlocksInv, ProducerInv
<1>3. size \in Nat /\ size >= 2 /\ size >= largestBlockSize
  <2>1. largestBlockSize \in Nat /\ largestBlockSize >= 2 /\ MaxBlockSize \in Nat
    BY SizesAssumption DEF Open, BlocksInv
  <2> QED BY <2>1
<1> HIDE DEF size
<1>4. k.next = blocks[tailBlock].next /\ k.size = size
  BY DEF k, Filling, NewBlock
<1> HIDE DEF k
<1>5. /\ DOMAIN blocks' = DOMAIN blocks \cup {new} /\ new \notin DOMAIN blocks
      /\ blocks'[new] = k /\ \A b \in DOMAIN blocks : blocks'[b] = blocks[b]
  BY <1>0, <1>1
<1> HIDE DEF new
<1>6. SizesInv'
  <2>1. InitialSize \in Nat /\ largestBlockSize \in Nat /\ largestBlockSize >= InitialSize
    BY SizesAre DEF RoomInv, SizesInv, Open, BlocksInv
  <2>2. size >= InitialSize
    BY <1>3, <2>1
  <2> QED BY <1>1, <1>4, <1>5, <2>2 DEF RoomInv, SizesInv
<1>7. OneCircle'
  <2> SUFFICES ASSUME NEW S \in SUBSET DOMAIN blocks', S # {},
                      \A b \in S : blocks'[b].next \in S,
                      NEW b \in DOMAIN blocks'
               PROVE  b \in S \/ Outside(b)'
    BY DEF OneCircle
  <2> DEFINE T == S \ {new}
  <2>1. \A c \in S : blocks'[c].next \in T
    BY <1>2, <1>4, <1>5
  <2>2. T \in SUBSET DOMAIN blocks /\ T # {} /\ \A c \in T : blocks[c].next \in T
    BY <1>5, <2>1
  <2> HIDE DEF T
  <2>3. \A c \in DOMAIN blocks : c \in T
    BY <1>1, <2>2 DEF RoomInv, OneCircle, Outside
  <2>4. Outside(new)'
    BY <1>1 DEF Outside
  <2> QED BY <1>5, <2>3, <2>4 DEF T
<1>8. FullInv'
  <2>1. \A b \in DOMAIN blocks : (NotEmpty(b)' <=> NotEmpty(b)) /\ (Full(b)' <=> Full(b))
    BY <1>5 DEF NotEmpty, Full
  <2>2. Turning
    BY <1>1 DEF Turning
  <2>3. Full(tailBlock)' <=> Full(tailBlock)
    BY <1>1, <1>2, <1>5 DEF Full
  <2> QED BY <1>1, <1>5, <2>1, <2>2, <2>3 DEF RoomInv, FullInv
<1> QED BY <1>6, <1>7, <1>8 DEF RoomInv

LEMMA LinkRoom == ASSUME Open, RoomInv, Link PROVE RoomInv'
<1> DEFINE b == tailBlock
           k == [blocks[b] EXCEPT !.next = into]
<1>1. /\ UNCHANGED <<frontBlock, tailBlock, largestBlockSize, into, from>>
      /\ producer = "linking" /\ producer' = "moving"
      /\ blocks' = [blocks EXCEPT ![b] = k]
  BY DEF Link, ProducerTo, consumerVars
<1>b. /\ b \in DOMAIN blocks /\ BlockInv(blocks[b]) /\ into \in DOMAIN blocks
      /\ into # b /\ blocks[into].next = blocks[b].next
      /\ \A c \in DOMAIN blocks : blocks[c].next # into /\ blocks[c].next \in DOMAIN blocks
  BY <1>1 DEF Open, BlocksInv, ProducerInv
<1>2. /\ k.size = blocks[b].size /\ k.front = blocks[b].front /\ k.tail = blocks[b].tail
      /\ k.next = into
  BY <1>b DEF BlockInv, BlockFields
<1> HIDE DEF k
<1>3. /\ DOMAIN blocks' = DOMAIN blocks
      /\ blocks'[b] = k /\ \A c \in DOMAIN blocks : c # b => blocks'[c] = blocks[c]
  BY <1>1, <1>b DEF Open, BlocksInv
<1>4. Kept({"size", "front", "tail"})
  BY <1>2, <1>3 DEF Kept
<1>5. SizesInv'
  BY <1>1, <1>2, <1>3 DEF RoomInv, SizesInv
<1>6. OneCircle'
  <2> SUFFICES ASSUME NEW S \in SUBSET DOMAIN blocks, S # {},
                      \A c \in S : blocks'[c].next \in S,
                      NEW c \in DOMAIN blocks
               PROVE  c \in S
    BY <1>3 DEF OneCircle
  <2> DEFINE T == S \ {into}
  <2>1. ASSUME NEW d \in S PROVE blocks[d].next \in T
    <3>1. CASE d = b
      <4>1. into \in S
        BY <1>2, <1>3, <3>1
      <4>2. blocks'[into].next = blocks[b].next
        BY <1>b, <1>3
      <4> QED BY <1>b, <3>1, <4>1, <4>2
    <3>2. CASE d # b
      BY <1>b, <1>3, <3>2
    <3> QED BY <3>1, <3>2
  <2>2. T \in SUBSET DOMAIN blocks /\ T # {} /\ \A d \in T : blocks[d].next \in T
    BY <2>1
  <2> HIDE DEF T
  <2>3. \A d \in DOMAIN blocks : d \in T \/ d = into
    BY <2>2 DEF RoomInv, OneCircle, Outside
  <2>4. b \in T
    BY <1>b, <2>3
  <2>5. into \in S
    BY <1>2, <1>3, <2>4 DEF T
  <2> QED BY <2>3, <2>5 DEF T
<1>7. FullInv'
  <2>1. Turning' => Turning
    BY <1>1 DEF Turning, Entering
  <2> QED BY <1>1, <1>b, <1>4, <2>1, FullStays DEF RoomInv
<1> QED BY <1>5, <1>6, <1>7 DEF RoomInv

\* The consumer's steps that change no block but for its copy of a tail, and those of the
\* semaphore.
LEMMA ConsumerRoom ==
    ASSUME Open, RoomInv, producerVars' = producerVars, frontBlock' = frontBlock,
           tailBlock' = tailBlock, largestBlockSize' = largestBlockSize,
           Kept({"size", "front", "tail", "localFront", "next"})
    PROVE  RoomInv'
<1>1. producer' = producer /\ into' = into
  BY DEF producerVars
<1> QED BY <1>1, RoomKept DEF Open

LEMMA LookRoom ==
    ASSUME Open, RoomInv, Look \/ LookAgain
    PROVE  RoomInv'
<1>1. /\ UNCHANGED <<frontBlock, tailBlock, largestBlockSize, into, from>>
      /\ producerVars' = producerVars /\ from \in DOMAIN blocks
      /\ blocks' = [blocks EXCEPT ![from].localTail = blocks[from].tail]
  BY DEF Look, LookAgain, ConsumerTo, producerVars, Open, BlocksInv
<1>2. Kept({"size", "front", "tail", "localFront", "next"})
  BY <1>1, TailLooked DEF Open, BlockFields
<1> QED BY <1>1, <1>2, ConsumerRoom

LEMMA AdvanceRoom ==
    ASSUME Open, RoomInv, Advance
    PROVE  RoomInv'
<1> DEFINE next == blocks[from].next
<1>1. /\ UNCHANGED <<frontBlock, tailBlock, largestBlockSize, into>>
      /\ producerVars' = producerVars /\ next \in DOMAIN blocks /\ from' = next
      /\ \/ blocks' = blocks
         \/ blocks' = [blocks EXCEPT ![next].localTail = blocks[next].tail]
  BY DEF Advance, ConsumerTo, producerVars, Open, BlocksInv
<1> HIDE DEF next
<1>2. Kept({"size", "front", "tail", "localFront", "next"})
  BY <1>1, TailLooked, AllKept DEF Open, BlockFields
<1> QED BY <1>1, <1>2, ConsumerRoom

LEMMA ReadRoom ==
    ASSUME Open, RoomInv, Read
    PROVE  RoomInv'
<1>1. /\ UNCHANGED <<frontBlock, tailBlock, largestBlockSize, into, from>>
      /\ producerVars' = producerVars /\ from \in DOMAIN blocks /\ BlockInv(blocks[from])
      /\ \/ blocks' = blocks
         \/ blocks' = [blocks EXCEPT ![from].data[blocks[from].front] = Raw]
  BY DEF Read, producerVars, Open, BlocksInv
<1>2. blocks[from].front \in Slots(blocks[from]) /\ Raw \in Values \cup {Raw}
  BY <1>1 DEF BlockInv, Indices, Slots
<1>3. Kept({"size", "front", "tail", "localFront", "next"})
  <2>1. CASE blocks' = blocks
    BY <2>1, AllKept
  <2>2. CASE blocks' = [blocks EXCEPT ![from].data[blocks[from].front] = Raw]
    BY <1>1, <1>2, <2>2, SlotKept DEF Open
  <2> QED BY <1>1, <2>1, <2>2
<1> QED BY <1>1, <1>3, ConsumerRoom

\* The consumer leaves a block that is empty for one that is the last or full.
LEMMA ReleaseBlockRoom == ASSUME Open, RoomInv, ReleaseBlock PROVE RoomInv'
<1>1. /\ blocks' = blocks /\ tailBlock' = tailBlock /\ into' = into /\ producer' = producer
      /\ largestBlockSize' = largestBlockSize /\ consumer = "releasing"
  BY DEF ReleaseBlock, ConsumerTo, producerVars
<1>2. frontBlock # tailBlock /\ ~ NotEmpty(frontBlock)
  BY <1>1 DEF Open, ConsumerInv
<1>3. SizesInv' /\ OneCircle'
  BY <1>1, AllKept, CircleStays DEF RoomInv, Outside
<1>4. /\ \A b : (NotEmpty(b)' <=> NotEmpty(b)) /\ (Full(b)' <=> Full(b))
      /\ Turning' <=> Turning
      /\ HasRoom(tailBlock, blocks[tailBlock].localFront)'
            <=> HasRoom(tailBlock, blocks[tailBlock].localFront)
  BY <1>1 DEF NotEmpty, Full, Turning, HasRoom, After
<1>5. Full(tailBlock)' <=> Full(tailBlock)
  BY <1>1, <1>4 DEF Full
<1>6. FullInv'
  BY <1>1, <1>2, <1>4, <1>5 DEF RoomInv, FullInv
<1> QED BY <1>3, <1>6 DEF RoomInv

\* The first block need not be full.
LEMMA LeaveRoom == ASSUME Open, RoomInv, Leave PROVE RoomInv'
<1> DEFINE b == from
           i == blocks[b].front
           k == [blocks[b] EXCEPT !.front = Succ(i, blocks[b].size)]
<1>0. consumer = "leaving"
  BY DEF Leave, ConsumerTo
<1>b. /\ b \in DOMAIN blocks /\ BlockInv(blocks[b]) /\ blocks[b].next \in DOMAIN blocks
      /\ Wanting(b) /\ b = frontBlock /\ tailBlock \in DOMAIN blocks
  BY <1>0 DEF Open, BlocksInv, ConsumerInv, Taking
<1>s. i \in Slots(blocks[b])
  BY <1>b DEF BlockInv, Indices, Slots
<1>a. After(b, i) = Succ(i, blocks[b].size)
  BY <1>b, <1>s, AfterIs
<1>1. /\ UNCHANGED <<frontBlock, tailBlock, largestBlockSize, into, from>>
      /\ producer' = producer
      /\ blocks' = [blocks EXCEPT ![b] = k]
  BY <1>a DEF Leave, ConsumerTo, producerVars
<1>2. BlockInv(k) /\ Others(k, blocks[b], "front")
  BY <1>b, FrontMoves DEF Wanting
<1> HIDE DEF k
<1>3. /\ \A fields : "front" \notin fields /\ fields \subseteq BlockFields => Kept(fields)
      /\ DOMAIN blocks' = DOMAIN blocks
      /\ \A c \in DOMAIN blocks : c # b => blocks'[c] = blocks[c]
  <2>1. "front" \in BlockFields /\ k.next = blocks[b].next
    BY <1>2 DEF BlockFields, Others
  <2> QED BY <1>1, <1>b, <1>2, <2>1, BlockChanges DEF Open, BlocksInv
<1>4. Kept({"size", "next"}) /\ Kept({"size", "tail", "localFront"})
  BY <1>3 DEF BlockFields
<1>5. SizesInv' /\ OneCircle'
  BY <1>1, <1>4, CircleStays DEF RoomInv, Outside
<1>6. ASSUME NEW c \in DOMAIN blocks, c # b
      PROVE  (NotEmpty(c)' <=> NotEmpty(c)) /\ (Full(c)' <=> Full(c))
  BY <1>3, <1>6 DEF NotEmpty, Full
<1>7. ASSUME NEW c \in DOMAIN blocks, NotEmpty(c)'
      PROVE  \/ c = frontBlock' \/ c = tailBlock' \/ Full(c)'
             \/ c = into' /\ producer' \in {"moving", "linking"}
  BY <1>1, <1>b, <1>6, <1>7 DEF RoomInv, FullInv
<1>8. Turning' => tailBlock' = frontBlock' \/ Full(tailBlock)'
  <2>1. SUFFICES ASSUME Turning, tailBlock # b
                 PROVE  Full(tailBlock)'
    BY <1>1, <1>b DEF Turning
  <2>2. Full(tailBlock)' <=> Full(tailBlock)
    BY <1>1, <1>3, <1>b, <2>1 DEF Full
  <2> QED BY <1>b, <2>1, <2>2 DEF RoomInv, FullInv
<1>9. HasRoom(tailBlock, blocks[tailBlock].localFront)'
          <=> HasRoom(tailBlock, blocks[tailBlock].localFront)
  BY <1>1, <1>b, <1>4 DEF HasRoom, After, Kept
<1>10. FullInv'
  BY <1>1, <1>3, <1>7, <1>8, <1>9 DEF RoomInv, FullInv
<1> QED BY <1>5, <1>10 DEF RoomInv

LEMMA ConsumerStepRoom == ASSUME Open, RoomInv, ConsumerStep PROVE RoomInv'
<1>1. CASE Waiting \/ Refused \/ Granted \/ Compare \/ FindEmpty
  <2>1. /\ producerVars' = producerVars /\ frontBlock' = frontBlock /\ blocks' = blocks
        /\ tailBlock' = tailBlock /\ largestBlockSize' = largestBlockSize
    BY <1>1 DEF Waiting, Refused, Granted, Compare, FindEmpty, Begin, ConsumerTo, blockVars
  <2> QED BY <2>1, AllKept, ConsumerRoom
<1> QED BY <1>1, LookRoom, AdvanceRoom, ReadRoom, ReleaseBlockRoom, LeaveRoom DEF ConsumerStep

LEMMA OtherRoom ==
    ASSUME Open, RoomInv,
           Peek \/ PostElement \/ UNCHANGED vars \/ \E o, p : CallWait(o, p)
    PROVE  RoomInv'
<1>1. /\ producerVars' = producerVars /\ frontBlock' = frontBlock /\ blocks' = blocks
      /\ tailBlock' = tailBlock /\ largestBlockSize' = largestBlockSize
  BY DEF Peek, Begin, PostElement, vars, CallWait, blockVars
<1> QED BY <1>1, AllKept, ConsumerRoom

LEMMA StepRoom ==
    ASSUME Open, RoomInv, [Next]_vars, ~ Destroy
    PROVE  RoomInv'
<1>1. ASSUME NEW x \in Values, NEW alloc \in BOOLEAN, Enqueue(x, alloc)
      PROVE  RoomInv'
  BY <1>1, EnqueueRoom
<1>2. CASE ProducerStep
  BY <1>2, CheckFrontRoom, UseNextRoom, EnterRoom, WriteRoom, PublishRoom, MoveToBlockRoom,
     AllocateRoom, LinkRoom, SignalElementRoom, OtherRoom DEF ProducerStep
<1>3. CASE ConsumerStep
  BY <1>3, ConsumerStepRoom
<1>4. ASSUME NEW o, NEW p, CallWait(o, p)
      PROVE  RoomInv'
  BY <1>4, OtherRoom
<1>5. CASE Peek \/ Destroyed \/ UNCHANGED vars
  BY <1>5, OtherRoom DEF Destroyed
<1> QED BY <1>1, <1>2, <1>3, <1>4, <1>5 DEF Next

\* From any block of the constructor's circle all are reached.
LEMMA RoundTrip ==
    ASSUME NEW n \in Nat, n >= 1, NEW S \in SUBSET (1 .. n), S # {},
           \A b \in S : (IF b = n THEN 1 ELSE b + 1) \in S
    PROVE  \A b \in 1 .. n : b \in S
<1>1. ASSUME NEW c \in S
      PROVE  \A i \in Nat : c + i <= n => c + i \in S
  <2> DEFINE T == {i \in Nat : c + i <= n => c + i \in S}
  <2>0. c \in 1 .. n
    OBVIOUS
  <2>1. 0 \in T
    BY <2>0
  <2>2. ASSUME NEW i \in Nat, i \in T PROVE i + 1 \in T
    <3>1. SUFFICES ASSUME c + (i + 1) <= n PROVE c + (i + 1) \in S
      BY <2>2
    <3>2. c + i \in S /\ c + i # n /\ c + (i + 1) = (c + i) + 1
      BY <2>0, <2>2, <3>1
    <3> QED BY <3>2
  <2> HIDE DEF T
  <2>3. \A i \in Nat : i \in T
    BY <2>1, <2>2, AllNumbers
  <2> QED BY <2>3 DEF T
<1>2. PICK c \in S : c \in 1 .. n
  OBVIOUS
<1>3. n \in S
  <2>1. n - c \in Nat /\ c + (n - c) = n /\ n <= n
    BY <1>2
  <2>2. c + (n - c) <= n => c + (n - c) \in S
    BY <1>1, <2>1
  <2> QED BY <2>1, <2>2
<1>4. 1 \in S
  BY <1>3
<1> SUFFICES ASSUME NEW b \in 1 .. n PROVE b \in S
  OBVIOUS
<1>5. b - 1 \in Nat /\ 1 + (b - 1) = b /\ b <= n
  OBVIOUS
<1> QED BY <1>1, <1>4, <1>5

LEMMA InitRoom == ASSUME Init PROVE RoomInv
<1> DEFINE n == InitialCount
           size == InitialSize
<1>1. n \in Nat /\ n >= 1 /\ size \in Nat /\ size >= 2
  BY SizesAre
<1>2. /\ producer = "idle" /\ largestBlockSize = size
      /\ blocks = [b \in 1 .. n |-> NewBlock(size, (b % n) + 1)]
  BY DEF Init
<1>3. \A b \in 1 .. n : (b % n) + 1 = IF b = n THEN 1 ELSE b + 1
  BY <1>1, NextIs
<1> HIDE DEF n, size
<1>4. /\ DOMAIN blocks = 1 .. n /\ n \in 1 .. n
      /\ \A b \in 1 .. n : blocks[b] = NewBlock(size, (b % n) + 1)
  BY <1>1, <1>2
<1>5. \A b \in 1 .. n : /\ blocks[b].size = size /\ blocks[b].next = (b % n) + 1
                        /\ blocks[b].front = blocks[b].tail
  BY <1>4 DEF NewBlock
<1>6. SizesInv
  BY <1>1, <1>2, <1>4, <1>5 DEF SizesInv, n, size
<1>7. OneCircle
  <2> SUFFICES ASSUME NEW S \in SUBSET (1 .. n), S # {},
                      \A b \in S : blocks[b].next \in S,
                      NEW b \in 1 .. n
               PROVE  b \in S
    BY <1>4 DEF OneCircle
  <2>1. \A c \in S : (IF c = n THEN 1 ELSE c + 1) \in S
    BY <1>3, <1>5
  <2> QED BY <1>1, <2>1, RoundTrip
<1>8. FullInv
  BY <1>2, <1>4, <1>5 DEF FullInv, NotEmpty, Turning, Entering
<1> QED BY <1>6, <1>7, <1>8 DEF RoomInv

\* The constructor's arithmetic: a block holds MaxSize, or all but one of the blocks do.
LEMMA SizesSuffice ==
    \/ InitialSize - 1 >= MaxSize
    \/ (InitialCount - 1) * (InitialSize - 1) >= MaxSize
<1> DEFINE m == MaxSize
           d == MaxBlockSize - 1
           x == MaxSize + MaxBlockSize * 2 - 3
           q == x \div d
<1>1. m \in Nat /\ d \in Nat /\ d >= 1 /\ x = m + 2 * d - 1 /\ x \in Nat /\ d = MaxBlockSize - 1
  BY SizesAssumption
<1>2. CASE ManyBlocks(MaxSize, MaxBlockSize)
  <2>1. InitialSize - 1 = d /\ InitialCount = q
    BY <1>2 DEF InitialSize, InitialCount, SizeFor, CountFor
  <2>2. q \in Int /\ d * q <= x /\ x < d * q + d
    <3> HIDE DEF x, d
    <3> QED BY <1>1
  <2> HIDE DEF q, x, d, m
  <2>3. (q - 1) * d = d * q - d
    BY <1>1, <2>2
  <2>4. d * q \in Int
    BY <1>1, <2>2
  <2>5. d * q - d >= m
    BY <1>1, <2>2, <2>4
  <2> QED BY <2>1, <2>3, <2>5 DEF m
<1>3. CASE ~ ManyBlocks(MaxSize, MaxBlockSize)
  <2>1. InitialSize = CeilToPow2(MaxSize + 1)
    BY <1>3 DEF InitialSize, SizeFor
  <2> QED BY <2>1, SizesAssumption, PowersAssumption
<1> QED BY <1>2, <1>3

\* When the producer may not go on to the next block, all blocks are between the first and
\* the last.
LEMMA AllAreLive ==
    ASSUME Open, OneCircle, producer = "full", ~ NextIsFree,
           NEW live, NEW first, NEW last, Chain(live, first, last)
    PROVE  \A b \in DOMAIN blocks : \E i \in first .. last : live[i] = b
<1> DEFINE S == {b \in DOMAIN blocks : \E i \in first .. last : live[i] = b}
<1>1. /\ first \in Nat /\ last \in Nat /\ first <= last
      /\ \A i \in first .. last : live[i] \in DOMAIN blocks
      /\ live[first] = frontBlock /\ live[last] = tailBlock
      /\ \A i \in first .. last - 1 : blocks[live[i]].next = live[i + 1]
      /\ blocks[tailBlock].next = frontBlock
  BY DEF Chain, NextIsFree
<1>2. first \in first .. last /\ \A i \in first .. last :
          i = last \/ (i \in first .. last - 1 /\ i + 1 \in first .. last)
  BY <1>1
<1>3. S # {} /\ S \in SUBSET DOMAIN blocks
  BY <1>1, <1>2
<1>4. ASSUME NEW b \in S PROVE blocks[b].next \in S
  <2>1. PICK i \in first .. last : live[i] = b
    OBVIOUS
  <2>2. CASE i = last
    BY <1>1, <1>2, <2>1, <2>2
  <2>3. CASE i # last
    <3>1. i \in first .. last - 1 /\ i + 1 \in first .. last
      BY <1>2, <2>3
    <3> QED BY <1>1, <2>1, <3>1
  <2> QED BY <2>2, <2>3
<1> HIDE DEF S
<1>5. \A b \in DOMAIN blocks : b \in S
  BY <1>3, <1>4 DEF OneCircle, Outside
<1> QED BY <1>5 DEF S

LEMMA ChainIsLong ==
    ASSUME Open, RoomInv, producer = "full", ~ NextIsFree,
           NEW live, NEW first, NEW last, Chain(live, first, last)
    PROVE  last - first + 1 >= InitialCount
<1>1. PICK n \in Nat : DOMAIN blocks = 1 .. n
  BY DEF Open, BlocksInv
<1>2. Cardinality(DOMAIN blocks) = n
  BY <1>1, FS_Interval
<1>3. InitialCount \in Nat /\ InitialCount <= n
  BY <1>1, SizesAre DEF RoomInv, SizesInv
<1>4. first \in Nat /\ last \in Nat /\ first <= last /\ live \in [Nat -> DOMAIN blocks]
  BY DEF Chain
<1>5. IsFiniteSet(first .. last) /\ Cardinality(first .. last) = last - first + 1
  BY <1>4, FS_Interval
<1>6. PICK f : f = [i \in first .. last |-> live[i]]
  OBVIOUS
<1>7. f \in Surjection(first .. last, DOMAIN blocks)
  <2>1. f \in [first .. last -> DOMAIN blocks]
    BY <1>4, <1>6
  <2>2. \A b \in DOMAIN blocks : \E i \in first .. last : live[i] = b
    BY AllAreLive DEF RoomInv
  <2>3. \A b \in DOMAIN blocks : \E i \in first .. last : f[i] = b
    BY <1>6, <2>2
  <2> QED BY <2>1, <2>3 DEF Surjection
<1>8. Cardinality(DOMAIN blocks) <= Cardinality(first .. last)
  BY <1>5, <1>7, FS_Surjection
<1> QED BY <1>1, <1>2, <1>3, <1>4, <1>5, <1>8

\* Then all blocks after the first are full.
LEMMA AllAreFull ==
    ASSUME Open, RoomInv, producer = "full", blocks[tailBlock].localFront = blocks[tailBlock].front,
           NEW live, NEW first, NEW last, Chain(live, first, last),
           NEW i \in first .. last, i # first \/ i = last
    PROVE  live[i] \in DOMAIN blocks /\ Len(Content(blocks[live[i]])) >= InitialSize - 1
<1> DEFINE b == live[i]
<1>1. /\ first \in Nat /\ last \in Nat /\ i \in Nat /\ b \in DOMAIN blocks
      /\ first \in first .. last
  BY DEF Chain
<1>2. BlockInv(blocks[b]) /\ blocks[b].size >= InitialSize
  BY <1>1 DEF Open, BlocksInv, RoomInv, SizesInv
<1>3. Full(b)
  <2>1. CASE b = tailBlock
    <3>1. ~ HasRoom(b, blocks[b].front)
      BY <2>1 DEF RoomInv, FullInv
    <3> QED BY <1>1, <1>2, <3>1, FullIs
  <2>2. CASE b # tailBlock
    <3>1. i # last /\ i # first /\ i \in first + 1 .. last
      BY <1>1, <2>2 DEF Chain
    <3>2. NotEmpty(b) /\ b # frontBlock
      BY <1>1, <3>1 DEF Chain
    <3> QED BY <1>1, <2>2, <3>2 DEF RoomInv, FullInv
  <2> QED BY <2>1, <2>2
<1>4. /\ InitialSize \in Nat /\ blocks[b].size \in Nat
      /\ Len(Content(blocks[b])) = blocks[b].size - 1
  BY <1>2, <1>3, ContentType, SizesAre DEF Full, BlockInv, Indices
<1> QED BY <1>1, <1>2, <1>4

LEMMA RoomHolds ==
    ASSUME Open, RoomInv
    PROVE  HoldsMaxSize
<1> SUFFICES ASSUME producer = "full", ~ NextIsFree,
                    blocks[tailBlock].localFront = blocks[tailBlock].front
             PROVE  Len(Elements) >= MaxSize
  BY DEF HoldsMaxSize
<1> DEFINE l == InitialSize - 1
<1>1. PICK live, first, last : Chain(live, first, last)
  BY DEF Open, ChainInv
<1>2. Sound(blocks) /\ Path(blocks, frontBlock, tailBlock, live, first, last)
  BY <1>1, BlocksAreSound, ChainIsPath DEF Open
<1>3. /\ first \in Nat /\ last \in Nat /\ first <= last /\ first + 1 \in Nat
      /\ live \in [Nat -> DOMAIN blocks] /\ live[last] = tailBlock
      /\ MaxSize \in Nat /\ InitialCount \in Nat /\ InitialCount >= 1 /\ l \in Nat
  BY <1>2, SizesAre, SizesAssumption DEF Path
<1> HIDE DEF l
<1>4. ASSUME NEW e, NEW s, NEW t, Joined(e, s, t)
      PROVE  /\ Len(s) \in Nat /\ Len(t) \in Nat /\ Len(e) = Len(s) + Len(t)
  BY <1>4 DEF Joined
<1>5. Len(Elements) \in Nat /\ Len(Elements) >= l
  <2>1. Joined(Elements, FlattenSeq(Along(blocks, live, first, last - 1)),
               Content(blocks[tailBlock]))
    BY <1>2, MostAndLast, ElementsAreThose
  <2>2. Len(Content(blocks[tailBlock])) >= l
    <3>1. last \in first .. last
      BY <1>3
    <3> QED BY <1>1, <1>3, <3>1, AllAreFull DEF l
  <2>3. \E u, v \in Nat : Len(Elements) = u + v /\ v >= l
    BY <1>4, <2>1, <2>2
  <2> QED BY <1>3, <2>3
<1>6. Len(Elements) >= (InitialCount - 1) * l
  <2> DEFINE along == Along(blocks, live, first + 1, last)
             k == last - first
  <2>1. Joined(Elements, Content(blocks[frontBlock]), FlattenSeq(along))
    BY <1>2, FirstAndRest, ElementsAreThose
  <2>2. along \in Seq(Seq(Slot)) /\ Len(along) = k
    <3>1. last - (first + 1) + 1 = k /\ last \in Int /\ first + 1 <= last + 1
      BY <1>3
    <3> QED BY <1>2, <1>3, <3>1, AlongType
  <2>3. \A i \in 1 .. k : Len(along[i]) >= l
    <3>1. TAKE i \in 1 .. k
    <3>2. /\ along[i] = Content(blocks[live[first + 1 + i - 1]])
          /\ first + 1 + i - 1 \in first .. last /\ first + 1 + i - 1 # first
      BY <1>3 DEF Along
    <3> QED BY <1>1, <3>2, AllAreFull DEF l
  <2> HIDE DEF along
  <2>4. Len(FlattenSeq(along)) >= k * l
    BY <1>3, <2>2, <2>3, FlattenLength
  <2>5. k \in Nat /\ k >= InitialCount - 1
    <3>1. last - first + 1 >= InitialCount
      BY <1>1, ChainIsLong
    <3> QED BY <1>3, <3>1
  <2>6. \E u, v \in Nat : Len(Elements) = u + v /\ v >= k * l
    BY <1>4, <2>1, <2>4
  <2> HIDE DEF k
  <2>7. k * l >= (InitialCount - 1) * l /\ k * l \in Nat /\ (InitialCount - 1) * l \in Nat
    <3> DEFINE j == k - (InitialCount - 1)
    <3>1. j \in Nat /\ InitialCount - 1 \in Nat /\ k = j + (InitialCount - 1)
      BY <1>3, <2>5
    <3> HIDE DEF j
    <3>2. k * l = j * l + (InitialCount - 1) * l /\ j * l \in Nat /\ (InitialCount - 1) * l \in Nat
      BY <1>3, <3>1
    <3> QED BY <3>2
  <2> QED BY <2>6, <2>7
<1>7. l >= MaxSize \/ (InitialCount - 1) * l >= MaxSize
  BY SizesSuffice DEF l
<1>8. (InitialCount - 1) * l \in Int
  BY <1>3
<1> QED BY <1>3, <1>5, <1>6, <1>7, <1>8

LEMMA RoomKeeps == QueueInv /\ (Open => RoomInv) /\ [Next]_vars => QueueInv' /\ (Open => RoomInv)'
<1> SUFFICES ASSUME QueueInv, Open => RoomInv, [Next]_vars, Open'
             PROVE  RoomInv'
  BY InvKept
<1>1. producer' # "destroyed"
  BY DEF Open, ProducerInv, Entering
<1>2. ~ Destroy /\ ~ Closed
  <2>1. Closed => producer' = producer
    BY ClosedStutters DEF vars, producerVars
  <2> QED BY <1>1, <2>1 DEF Destroy, Closed
<1> QED BY <1>2, StepRoom DEF QueueInv

\* What the constructor's comment says: the producer is refused a block, knowing all that
\* the consumer has taken, only if there are maxSize elements in the queue, wherever in the
\* circle the two are, for blocks of any size and any number of them.
THEOREM HoldsMaxSizeHolds == Spec => []HoldsMaxSize
<1>1. Init => QueueInv /\ (Open => RoomInv)
  BY InitOpens, InitRoom DEF QueueInv
<1>2. QueueInv /\ (Open => RoomInv) => HoldsMaxSize
  <2>1. Closed => HoldsMaxSize
    BY DEF Closed, HoldsMaxSize
  <2> QED BY <2>1, RoomHolds DEF QueueInv
<1> QED BY <1>1, <1>2, RoomKeeps, PTL DEF Spec

================================================================================
