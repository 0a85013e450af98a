-------------------------------- MODULE Mailbox --------------------------------
(*****************************************************************************)
(* What the loading queue promises its two users: elements come out in the   *)
(* order in which they went in, each once, and a wait is granted only for an *)
(* element that is there.                                                    *)
(*****************************************************************************)
EXTENDS Naturals, Sequences

CONSTANT Values

VARIABLES
    queue,                  \* the elements, oldest first
    tokens,                 \* how many of them have been signalled
    taking,                 \* granted waits whose element is still in the queue
    out                     \* the element that was read last

mailbox == <<queue, tokens, taking, out>>

Init ==
    /\ queue = <<>>
    /\ tokens = 0
    /\ taking = 0
    /\ out \in Values

Enqueue ==
    /\ \E x \in Values : queue' = Append(queue, x)
    /\ UNCHANGED <<tokens, taking, out>>

Announce ==
    /\ tokens + taking < Len(queue)
    /\ tokens' = tokens + 1
    /\ UNCHANGED <<queue, taking, out>>

Take ==
    /\ tokens > 0
    /\ tokens' = tokens - 1
    /\ taking' = taking + 1
    /\ UNCHANGED <<queue, out>>

\* With the element, or without looking at it.
Dequeue ==
    /\ taking > 0
    /\ taking' = taking - 1
    /\ queue' = Tail(queue)
    /\ out' \in {Head(queue), out}
    /\ UNCHANGED tokens

Peek ==
    /\ queue # <<>>
    /\ out' = Head(queue)
    /\ UNCHANGED <<queue, tokens, taking>>

\* The end of the queue, when nobody is using it.
Close ==
    /\ taking = 0
    /\ queue' = <<>>
    /\ tokens' = 0
    /\ UNCHANGED <<taking, out>>

Next == Enqueue \/ Announce \/ Take \/ Dequeue \/ Peek \/ Close

Safety == Init /\ [][Next]_mailbox

\* Every element is announced, and one that was granted is taken out.
Fairness == WF_mailbox(Announce) /\ WF_mailbox(Dequeue)

Spec == Safety /\ Fairness
=================================================================================
