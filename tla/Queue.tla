--------------------------------- MODULE Queue ---------------------------------
(*****************************************************************************)
(* The lock-free queue between the Synth and the loading thread: a circle of *)
(* blocks, each a circular buffer, written by one thread and read by one.    *)
(* The producer owns all tails, the consumer all fronts; each keeps a copy   *)
(* of the other's (localFront, localTail) and looks again only if the copy   *)
(* says that there is nothing to do.  A semaphore counts the elements.       *)
(*                                                                           *)
(* Each access to what the other thread may write is a step, in the order of *)
(* the code, which its fences impose.                                        *)
(*****************************************************************************)
EXTENDS Semaphore, Sequences, FiniteSets, SequencesExt

CONSTANTS
    Values,                 \* elements
    Raw,                    \* memory that holds none
    MaxSize,                \* maxSize of the constructor
    MaxBlockSize,           \* MAX_BLOCK_SIZE
    MaxBlocks               \* bound: blocks for which there is memory

\* The constructor asserts the bound on MaxBlockSize; a queue for no element, whose
\* block would be all spare, is not made.
ASSUME SizesAssumption ==
    /\ MaxSize \in Nat \ {0}
    /\ MaxBlockSize \in Nat \ {0, 1}
    /\ Raw \notin Values

VARIABLES
    blocks,                 \* the blocks of the circle
    frontBlock, tailBlock,
    largestBlockSize,
    producer,               \* where the enqueuing thread is
    item, mayAlloc, into,   \* its element, its mode, and the block it writes to; the
                            \* first two are gone when the call returns
    consumer,               \* where the dequeuing thread is
    operation, from,        \* what it does ("none" between calls), and the block it
                            \* reads from
    result                  \* the element it read last

blockVars == <<blocks, frontBlock, tailBlock, largestBlockSize>>
producerVars == <<producer, item, mayAlloc, into>>
consumerVars == <<consumer, operation, from, result>>
vars == <<semaphoreVars, blockVars, producerVars, consumerVars>>

CeilToPow2(x) == CHOOSE p \in {2 ^ k : k \in 0 .. x} : p \div 2 < x /\ x <= p

\* There is such a power.
ASSUME PowersAssumption ==
    CeilToPow2(MaxSize + 1) \in Nat /\ CeilToPow2(MaxSize + 1) > MaxSize

\* Block and make_block: a block is empty.
NewBlock(size, next) ==
    [size |-> size, front |-> 0, localTail |-> 0, tail |-> 0, localFront |-> 0,
     next |-> next, data |-> [i \in 0 .. size - 1 |-> Raw]]

\* The constructor, for m elements and blocks of up to b: one block, or several and
\* a spare one, each with a spare element.
ManyBlocks(m, b) == CeilToPow2(m + 1) > b * 2

SizeFor(m, b) == IF ManyBlocks(m, b) THEN b ELSE CeilToPow2(m + 1)

CountFor(m, b) == IF ManyBlocks(m, b) THEN (m + b * 2 - 3) \div (b - 1) ELSE 1

InitialSize == SizeFor(MaxSize, MaxBlockSize)
InitialCount == CountFor(MaxSize, MaxBlockSize)

Init ==
    /\ SemaphoreInit
    /\ blocks = [b \in 1 .. InitialCount |-> NewBlock(InitialSize, (b % InitialCount) + 1)]
    /\ frontBlock = 1
    /\ tailBlock = 1
    /\ largestBlockSize = InitialSize
    /\ producer = "idle"
    /\ item = Raw
    /\ mayAlloc = FALSE
    /\ into = 1
    /\ consumer = "idle"
    /\ operation = "none"
    /\ from = 1
    /\ result \in Values

After(b, i) == (i + 1) % blocks[b].size

-----------------------------------------------------------------------------
(* The producer: try_enqueue, and enqueue, which may allocate.               *)

ProducerTo(from_, to) ==
    /\ producer = from_
    /\ producer' = to
    /\ item' = IF to = "idle" THEN Raw ELSE item
    /\ mayAlloc' = (mayAlloc /\ to # "idle")
    /\ UNCHANGED consumerVars

\* Mutant: a second element is spared.
HasRoomForTwo(b, front) == After(b, After(b, blocks[b].tail)) # front

\* One element of a block stays empty, to tell a full block from an empty one.
HasRoom(b, front) == After(b, blocks[b].tail) # front

Enqueue(x, alloc) ==
    /\ producer = "idle"
    /\ signaller = "idle"
    /\ item' = x
    /\ mayAlloc' = alloc
    /\ into' = tailBlock
    /\ producer' = IF HasRoom(tailBlock, blocks[tailBlock].localFront)
                   THEN "writing" ELSE "checking"
    /\ UNCHANGED <<semaphoreVars, blockVars, consumerVars>>

CheckFront ==
    /\ ProducerTo("checking", IF HasRoom(tailBlock, blocks[tailBlock].front)
                              THEN "writing" ELSE "full")
    /\ blocks' = [blocks EXCEPT ![tailBlock].localFront = blocks[tailBlock].front]
    /\ UNCHANGED <<semaphoreVars, frontBlock, tailBlock, largestBlockSize, into>>

\* Mutant: the block after the last may be the one the consumer is in.
NextIsAlwaysFree == TRUE

\* The block is full.  The next one will do unless the consumer is in it, who would
\* take the new elements before those of the blocks between.
NextIsFree == blocks[tailBlock].next # frontBlock

\* Mutant: the block is the last one before it has an element.
UseNextAtOnce ==
    /\ NextIsFree
    /\ ProducerTo("full", "entering")
    /\ into' = blocks[tailBlock].next
    /\ tailBlock' = into'
    /\ UNCHANGED <<semaphoreVars, blocks, frontBlock, largestBlockSize>>

UseNext ==
    /\ NextIsFree
    /\ ProducerTo("full", "entering")
    /\ into' = blocks[tailBlock].next
    /\ UNCHANGED <<semaphoreVars, blockVars>>

Enter ==
    /\ ProducerTo("entering", "writing")
    /\ blocks' = [blocks EXCEPT ![into].localFront = blocks[into].front]
    /\ UNCHANGED <<semaphoreVars, frontBlock, tailBlock, largestBlockSize, into>>

Write ==
    /\ ProducerTo("writing", "publishing")
    /\ blocks' = [blocks EXCEPT ![into].data[blocks[into].tail] = item]
    /\ UNCHANGED <<semaphoreVars, frontBlock, tailBlock, largestBlockSize, into>>

Publish ==
    /\ ProducerTo("publishing", IF into = tailBlock THEN "signalling" ELSE "moving")
    /\ blocks' = [blocks EXCEPT ![into].tail = After(into, @)]
    /\ UNCHANGED <<semaphoreVars, frontBlock, tailBlock, largestBlockSize, into>>

MoveToBlock ==
    /\ ProducerTo("moving", "signalling")
    /\ tailBlock' = into
    /\ UNCHANGED <<semaphoreVars, blocks, frontBlock, largestBlockSize, into>>

\* A new block begins with the element, and is filled in before it is linked.
Allocate ==
    LET size == IF largestBlockSize >= MaxBlockSize THEN largestBlockSize
                ELSE largestBlockSize * 2
        new == Cardinality(DOMAIN blocks) + 1
        block == [NewBlock(size, blocks[tailBlock].next) EXCEPT
                      !.data[0] = item, !.tail = 1, !.localTail = 1]
    IN  /\ ~NextIsFree
        /\ mayAlloc
        /\ new <= MaxBlocks
        /\ ProducerTo("full", "linking")
        /\ blocks' = [b \in DOMAIN blocks \cup {new} |->
                          IF b = new THEN block ELSE blocks[b]]
        /\ largestBlockSize' = size
        /\ into' = new
        /\ UNCHANGED <<semaphoreVars, frontBlock, tailBlock>>

Link ==
    /\ ProducerTo("linking", "moving")
    /\ blocks' = [blocks EXCEPT ![tailBlock].next = into]
    /\ UNCHANGED <<semaphoreVars, frontBlock, tailBlock, largestBlockSize, into>>

\* No room, and no block may be, or could be, allocated.
Refuse ==
    /\ ~NextIsFree
    /\ ProducerTo("full", "idle")
    /\ UNCHANGED <<semaphoreVars, blockVars, into>>

SignalElement ==
    /\ ProducerTo("signalling", "idle")
    /\ Signal
    /\ UNCHANGED <<blockVars, into>>

PostElement ==
    /\ Post
    /\ UNCHANGED <<blockVars, producerVars, consumerVars>>

ProducerStep ==
    \/ CheckFront \/ UseNext \/ Enter \/ Write \/ Publish \/ MoveToBlock
    \/ Allocate \/ Link \/ Refuse \/ SignalElement \/ PostElement

-----------------------------------------------------------------------------
(* The consumer: try_dequeue, pop, wait_dequeue and wait_dequeue_timed, which *)
(* wait first, and peek, which does not.                                      *)

ConsumerTo(from_, to) ==
    /\ consumer = from_
    /\ consumer' = to
    /\ operation' = IF to = "idle" THEN "none" ELSE operation
    /\ UNCHANGED <<producerVars, result>>

\* What every operation begins with, the block and its two indices.
Begin(o) ==
    /\ operation' = o
    /\ from' = frontBlock
    /\ consumer' = IF blocks[frontBlock].front # blocks[frontBlock].localTail
                   THEN "reading" ELSE "looking"
    /\ UNCHANGED <<blockVars, producerVars, result>>

CallWait(o, p) ==
    /\ consumer = "idle"
    /\ producer # "destroyed"
    /\ consumer' = "waiting"
    /\ operation' = o
    /\ Wait(p)
    /\ UNCHANGED <<blockVars, producerVars, from, result>>

Waiting ==
    /\ WaiterStep
    /\ UNCHANGED <<blockVars, producerVars, consumerVars>>

Refused ==
    /\ waiter = "refused"
    /\ ConsumerTo("waiting", "idle")
    /\ Return
    /\ UNCHANGED <<blockVars, from>>

Granted ==
    /\ consumer = "waiting"
    /\ waiter = "granted"
    /\ Begin(operation)
    /\ UNCHANGED semaphoreVars

Peek ==
    /\ consumer = "idle"
    /\ producer # "destroyed"
    /\ Begin("peek")
    /\ UNCHANGED semaphoreVars

NotEmpty(b) == blocks[b].front # blocks[b].tail

Look ==
    /\ ConsumerTo("looking", IF NotEmpty(from) THEN "reading" ELSE "comparing")
    /\ blocks' = [blocks EXCEPT ![from].localTail = blocks[from].tail]
    /\ UNCHANGED <<semaphoreVars, frontBlock, tailBlock, largestBlockSize, from>>

\* The block looked empty.  Only if it is not the last one is there more to find.
Compare ==
    /\ from # tailBlock
    /\ ConsumerTo("comparing", "lookingAgain")
    /\ UNCHANGED <<semaphoreVars, blockVars, from>>

FindEmpty ==
    /\ from = tailBlock
    /\ ConsumerTo("comparing", IF operation = "peek" THEN "idle" ELSE "failed")
    /\ UNCHANGED <<semaphoreVars, blockVars, from>>

\* Mutant: what the producer wrote before it left the block is passed over.
LookAgainNever ==
    /\ ConsumerTo("lookingAgain", "advancing")
    /\ UNCHANGED <<semaphoreVars, blockVars, from>>

\* It may have been filled before the producer left it.
LookAgain ==
    /\ ConsumerTo("lookingAgain", IF NotEmpty(from) THEN "reading" ELSE "advancing")
    /\ blocks' = [blocks EXCEPT ![from].localTail = blocks[from].tail]
    /\ UNCHANGED <<semaphoreVars, frontBlock, tailBlock, largestBlockSize, from>>

\* next cannot change: it changes only in the last block.
Advance ==
    LET next == blocks[from].next
    IN  /\ ConsumerTo("advancing", IF operation = "peek" THEN "reading" ELSE "releasing")
        /\ from' = next
        /\ blocks' = IF operation = "peek" THEN blocks
                     ELSE [blocks EXCEPT ![next].localTail = blocks[next].tail]
        /\ UNCHANGED <<semaphoreVars, frontBlock, tailBlock, largestBlockSize>>

\* The producer may use the old block from here on.
ReleaseBlock ==
    /\ ConsumerTo("releasing", "reading")
    /\ frontBlock' = from
    /\ UNCHANGED <<semaphoreVars, blocks, tailBlock, largestBlockSize, from>>

\* The element is moved out and destroyed; pop only destroys, peek only reads.
Read ==
    /\ consumer = "reading"
    /\ consumer' = IF operation = "peek" THEN "idle" ELSE "leaving"
    /\ operation' = IF operation = "peek" THEN "none" ELSE operation
    /\ result' = IF operation = "pop" THEN result ELSE blocks[from].data[blocks[from].front]
    /\ blocks' = IF operation = "peek" THEN blocks
                 ELSE [blocks EXCEPT ![from].data[blocks[from].front] = Raw]
    /\ UNCHANGED <<semaphoreVars, producerVars, frontBlock, tailBlock, largestBlockSize,
                   from>>

Leave ==
    /\ ConsumerTo("leaving", "idle")
    /\ blocks' = [blocks EXCEPT ![from].front = After(from, @)]
    /\ Return
    /\ UNCHANGED <<frontBlock, tailBlock, largestBlockSize, from>>

ConsumerStep ==
    \/ Waiting \/ Refused \/ Granted \/ Look \/ Compare \/ FindEmpty \/ LookAgain
    \/ Advance \/ ReleaseBlock \/ Read \/ Leave

-----------------------------------------------------------------------------

\* The indices of the elements of a block.
Occupied(b) ==
    {i \in DOMAIN blocks[b].data :
        (i - blocks[b].front) % blocks[b].size
            < (blocks[b].tail - blocks[b].front) % blocks[b].size}

\* The destructor, when neither thread is in the queue: it goes round the circle.
Destroy ==
    /\ producer = "idle" /\ signaller = "idle" /\ consumer = "idle"
    /\ producer' = "destroyed"
    /\ blocks' = [b \in DOMAIN blocks |->
           [blocks[b] EXCEPT !.data = [i \in DOMAIN blocks[b].data |->
                IF i \in Occupied(b) THEN Raw ELSE blocks[b].data[i]]]]
    /\ UNCHANGED <<semaphoreVars, frontBlock, tailBlock, largestBlockSize, item, mayAlloc,
                   into, consumerVars>>

Destroyed == producer = "destroyed" /\ UNCHANGED vars

Next ==
    \/ \E x \in Values, alloc \in BOOLEAN : Enqueue(x, alloc)
    \/ \E o \in {"dequeue", "pop"} : CallWait(o, "none")
    \/ \E p \in {"timed", "forever"} : CallWait("dequeue", p)
    \/ Peek \/ ProducerStep \/ ConsumerStep \/ Destroy \/ Destroyed

\* A call that has begun runs on; a timeout passes.
Fairness == WF_vars(ProducerStep) /\ WF_vars(ConsumerStep)

Spec == Init /\ [][Next]_vars /\ Fairness

-----------------------------------------------------------------------------
(* Properties.                                                               *)

\* The elements between front and tail of a block, and those of the blocks from
\* frontBlock to tailBlock.
Contents(b) ==
    [k \in 1 .. ((blocks[b].tail - blocks[b].front) % blocks[b].size) |->
        blocks[b].data[(blocks[b].front + k - 1) % blocks[b].size]]

Elements ==
    LET nth[k \in 0 .. Cardinality(DOMAIN blocks)] ==
            IF k = 0 THEN frontBlock ELSE blocks[nth[k - 1]].next
        last == CHOOSE k \in DOMAIN nth :
                    nth[k] = tailBlock /\ \A j \in 0 .. k - 1 : nth[j] # tailBlock
    IN  FlattenSeq([k \in 1 .. last + 1 |-> Contents(nth[k - 1])])

\* The queue as its users see it: an element is in it from the moment its block can
\* be reached and its tail is stored, until it is read.
InQueue ==
    IF producer = "destroyed" THEN <<>>
    ELSE IF consumer = "leaving" THEN Tail(Elements) ELSE Elements

\* The circles of blocks, the shadow copies and the two counts of the semaphore are a
\* mailbox: no element is lost, repeated or overtaken, whatever blocks it goes through,
\* and a wait is granted for an element that is there.
MailboxOf == INSTANCE Mailbox WITH
    queue <- InQueue,
    tokens <- IF producer = "destroyed" THEN 0 ELSE Available,
    taking <- IF waiter = "granted" /\ consumer # "leaving" THEN 1 ELSE 0,
    out <- result

ImplementsMailbox == MailboxOf!Safety

\* No element is constructed over another, none is read that was not constructed or
\* was destroyed, and the destructor leaves none behind.
SlotsAreOwned ==
    /\ producer = "writing" => blocks[into].data[blocks[into].tail] = Raw
    /\ consumer = "reading" => blocks[from].data[blocks[from].front] # Raw
    /\ producer = "destroyed" => \A b \in DOMAIN blocks :
           \A i \in DOMAIN blocks[b].data : blocks[b].data[i] = Raw

\* The assertions of the code: a granted wait finds an element (try_dequeue, pop,
\* wait_dequeue), the block to advance to is not empty (try_dequeue, peek, pop), the
\* block to enter is (inner_enqueue), and at most one thread waits (signal).
AssertionsHold ==
    /\ consumer # "failed"
    /\ consumer = "advancing" => NotEmpty(blocks[from].next)
    /\ producer = "entering" => ~NotEmpty(into)
    /\ AtMostOneWaits

\* The constructor's comment: maxSize elements fit without an allocation, wherever in
\* the circle the two threads are.  A call may still be refused for an element that
\* left after the producer had looked.
HoldsMaxSize ==
    /\ producer = "full" /\ ~NextIsFree
    /\ blocks[tailBlock].localFront = blocks[tailBlock].front
    => Len(Elements) >= MaxSize

\* Every call returns; a wait without a timeout does once an element is announced,
\* also if the signal and the decision to sleep cross.  An element that is in the queue
\* is announced, and one that a wait was granted for is taken out.
CallsReturn ==
    /\ MailboxOf!Fairness
    /\ (producer # "idle") ~> (producer \in {"idle", "destroyed"})
    /\ (consumer # "idle" /\ (Available > 0 \/ patience # "forever" \/ operation = "peek"))
           ~> (consumer = "idle")

=================================================================================
