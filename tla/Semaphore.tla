------------------------------- MODULE Semaphore -------------------------------
(*****************************************************************************)
(* The LightweightSemaphore of the loading queue: one thread signals and one *)
(* waits.  A count in an atomic spares both the semaphore of the operating   *)
(* system, on which the waiter sleeps only once it has taken the count below *)
(* none.  A sleeper that times out has to give that back, and a signal may   *)
(* be on its way to it already.                                              *)
(*                                                                           *)
(* Each access to the count or to the system's semaphore is a step.          *)
(*****************************************************************************)
EXTENDS Integers

VARIABLES
    count,                  \* m_count
    posts,                  \* m_sema: what the system's semaphore holds
    signaller,              \* where the signalling thread is
    waiter,                 \* where the waiting thread is
    patience                \* how long it waits: "none", "timed", "forever"

semaphoreVars == <<count, posts, signaller, waiter, patience>>

Patiences == {"none", "timed", "forever"}

SemaphoreType ==
    /\ count \in Int
    /\ posts \in Nat
    /\ signaller \in {"idle", "posting"}
    /\ waiter \in {"idle", "taking", "spinning", "committing", "asleep", "restoring",
                   "retaking", "polling", "granted", "refused"}
    /\ patience \in Patiences

SemaphoreInit ==
    /\ count = 0
    /\ posts = 0
    /\ signaller = "idle"
    /\ waiter = "idle"
    /\ patience = "none"

-----------------------------------------------------------------------------
(* The signalling thread.                                                    *)

\* Mutant: the last sleeper is not woken.
SignalOnlyMany ==
    /\ signaller = "idle"
    /\ count' = count + 1
    /\ signaller' = IF count < -1 THEN "posting" ELSE "idle"
    /\ UNCHANGED <<posts, waiter, patience>>

\* signal(): the count goes up, and who took it below none has to be woken.
Signal ==
    /\ signaller = "idle"
    /\ count' = count + 1
    /\ signaller' = IF count < 0 THEN "posting" ELSE "idle"
    /\ UNCHANGED <<posts, waiter, patience>>

Post ==
    /\ signaller = "posting"
    /\ posts' = posts + 1
    /\ signaller' = "idle"
    /\ UNCHANGED <<count, waiter, patience>>

-----------------------------------------------------------------------------
(* The waiting thread.                                                       *)

WaiterTo(from, to) ==
    /\ waiter = from
    /\ waiter' = to
    /\ UNCHANGED <<signaller, patience>>

\* tryWait() and wait(): the count is read, and taken from in a second step.
Wait(p) ==
    /\ waiter = "idle"
    /\ waiter' = IF count > 0 THEN "taking"
                 ELSE IF p = "none" THEN "refused" ELSE "spinning"
    /\ patience' = p
    /\ UNCHANGED <<count, posts, signaller>>

TakeOne ==
    /\ WaiterTo("taking", "granted")
    /\ count' = count - 1
    /\ UNCHANGED posts

\* The loop that looks at the count 10000 times.
SpinSees ==
    /\ count > 0
    /\ WaiterTo("spinning", "taking")
    /\ UNCHANGED <<count, posts>>

SpinEnds ==
    /\ WaiterTo("spinning", "committing")
    /\ UNCHANGED <<count, posts>>

Commit ==
    /\ WaiterTo("committing", IF count > 0 THEN "granted" ELSE "asleep")
    /\ count' = count - 1
    /\ UNCHANGED posts

Wake ==
    /\ posts > 0
    /\ WaiterTo("asleep", "granted")
    /\ posts' = posts - 1
    /\ UNCHANGED count

\* sem_timedwait gives up; it does not as long as it could have what it waits for.
TimeOut ==
    /\ patience = "timed"
    /\ posts = 0
    /\ WaiterTo("asleep", "restoring")
    /\ UNCHANGED <<count, posts>>

\* The count is given back.  If it is no longer below none, a signal has counted on
\* a sleeper: the loop takes it back and looks for the post.
Restore ==
    /\ WaiterTo("restoring", IF count < 0 THEN "refused" ELSE "retaking")
    /\ count' = count + 1
    /\ UNCHANGED posts

Retake ==
    /\ WaiterTo("retaking", IF count > 0 THEN "polling" ELSE "restoring")
    /\ count' = count - 1
    /\ UNCHANGED posts

PollFinds ==
    /\ posts > 0
    /\ WaiterTo("polling", "granted")
    /\ posts' = posts - 1
    /\ UNCHANGED count

PollMisses ==
    /\ posts = 0
    /\ WaiterTo("polling", "restoring")
    /\ UNCHANGED <<count, posts>>

\* What a wait does between its call and its return.
WaiterStep ==
    \/ TakeOne \/ SpinSees \/ SpinEnds \/ Commit \/ Wake \/ TimeOut
    \/ Restore \/ Retake \/ PollFinds \/ PollMisses

Return ==
    /\ waiter \in {"granted", "refused"}
    /\ waiter' = "idle"
    /\ patience' = "none"
    /\ UNCHANGED <<count, posts, signaller>>

SemaphoreNext ==
    \/ Signal \/ Post \/ WaiterStep \/ Return
    \/ \E p \in Patiences : Wait(p)

SemaphoreSpec == SemaphoreInit /\ [][SemaphoreNext]_semaphoreVars

-----------------------------------------------------------------------------
(* Properties.                                                               *)

\* The waiter has taken the count below what it was given.
Owes == waiter \in {"asleep", "restoring", "polling"}

\* The count without that debt.
Available == count + (IF Owes THEN 1 ELSE 0)

\* A signal has met the debt, and its post has not been found.
Posted == posts + (IF signaller = "posting" THEN 1 ELSE 0)

\* The inductive invariant: there is a post, or one on its way, exactly if a signal
\* found the count below none and the waiter has not had it yet; and who is about to
\* take from the count finds something there.
SemaphoreInv ==
    /\ SemaphoreType
    /\ Available >= 0
    /\ Posted = IF waiter = "retaking" \/ (Owes /\ count >= 0) THEN 1 ELSE 0
    /\ waiter \in {"taking", "retaking"} => count > 0

\* signal() asserts that at most one thread waits.  It holds through a sleeper that
\* times out at the moment at which it is signalled.
AtMostOneWaits == count >= -1

\* A count that tells neither too little nor too much: a wait is granted exactly for
\* what a signal gave, whichever of the two counts the waiter got it from.
Abstract == INSTANCE Tokens WITH tokens <- Available

ImplementsTokens == Abstract!Spec
=================================================================================
