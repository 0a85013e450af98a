-------------------------------- MODULE Envelope --------------------------------
(*****************************************************************************)
(* ADSREnvelope, the amplitude envelope of a voice, as operators on a        *)
(* record.  What is kept is time: the stage, the samples left in each stage, *)
(* and the release that was asked for.  Gains are left out.                  *)
(*                                                                           *)
(* The class has two implementations of the same envelope, getNextValue for  *)
(* one sample and getBlock for a block of them.  A voice uses getBlock; the  *)
(* unit tests expect both to yield the same samples.                         *)
(*****************************************************************************)
EXTENDS Integers

\* In the order of the switch statements, which fall through from the top.
Rank == [Delay |-> 1, Attack |-> 2, Hold |-> 3, Decay |-> 4, Sustain |-> 5,
         Release |-> 6, Done |-> 7]

Stages == DOMAIN Rank

\* The stages with a counter; Sustain and Done last until something happens.
Timed == {"Delay", "Attack", "Hold", "Decay", "Release"}

Envelopes == [stage : Stages, left : [Timed -> Nat],
              releaseDelay : Nat \cup {-1}, shouldRelease : BOOLEAN]

Least(a, b) == IF a <= b THEN a ELSE b

\* n samples are taken from a stage.
Spent(left, stage, n) == [left EXCEPT ![stage] = @ - n]

\* An envelope that goes on in `stage', with what is left of each stage.
GoesOn(e, stage, left) ==
    [stage |-> stage, left |-> left,
     releaseDelay |-> e.releaseDelay, shouldRelease |-> e.shouldRelease]

\* reset: `lengths' are the lengths of the timed stages in samples.
Reset(lengths) ==
    [stage |-> "Delay", left |-> lengths,
     releaseDelay |-> 0, shouldRelease |-> FALSE]

\* startRelease: the release is to begin in `delay' samples.
StartRelease(e, delay) ==
    [stage |-> e.stage, left |-> e.left,
     releaseDelay |-> delay, shouldRelease |-> TRUE]

IsSmoothing(e) == e.stage # "Done"

(*****************************************************************************)
(* getNextValue.  The delay of the release counts down once per sample, past *)
(* zero (-1 stands for all of that), so the release begins once.  Then the   *)
(* sample is taken from the first stage that has one left.                   *)
(*****************************************************************************)
Counted(e) ==
    IF ~ e.shouldRelease
      THEN e
      ELSE [e EXCEPT !.releaseDelay = IF @ < 0 THEN @ ELSE @ - 1,
                     !.stage = IF e.releaseDelay = 0 THEN "Release" ELSE @]

\* Where the switch ends up for one sample.
ServingStage(e) ==
    LET offers(s) == s \notin Timed \/ e.left[s] > 0
        reachable == {s \in Stages : Rank[s] >= Rank[e.stage] /\ offers(s)}
    IN  CHOOSE s \in reachable : \A r \in reachable : Rank[s] <= Rank[r]

GetNextValue[e \in Envelopes] ==
    LET from == Counted(e)
        serving == ServingStage(from)
    IN  GoesOn(from, serving,
               IF serving \in Timed THEN Spent(from.left, serving, 1) ELSE from.left)

\* n samples, one by one.
GetValues(e, n) ==
    LET after[k \in 0 .. n] == IF k = 0 THEN e ELSE GetNextValue[after[k - 1]]
    IN  after[n]

(*****************************************************************************)
(* getBlock.  A stage takes what it can of the block; it is left only when   *)
(* samples remain, so that a block can end with an empty stage.              *)
(*****************************************************************************)
Following == [Delay |-> "Attack", Attack |-> "Hold", Hold |-> "Decay",
              Decay |-> "Sustain", Release |-> "Done"]

\* An envelope in the switch, and what remains of the block.
Blocks == [env : Envelopes, remaining : Nat]

\* One case of the switch.
Case(stage) ==
    [b \in Blocks |->
        LET length == Least(b.remaining, b.env.left[stage])
            next == IF length = b.remaining THEN stage ELSE Following[stage]
        IN  IF b.env.stage = stage
              THEN [env |-> GoesOn(b.env, next, Spent(b.env.left, stage, length)),
                    remaining |-> b.remaining - length]
              ELSE b]

\* Mutant: the case of the hold is missing.
SwitchNoHold(e, n) ==
    LET attack == Case("Attack")[Case("Delay")[[env |-> e, remaining |-> n]]]
        decay == Case("Decay")[attack]
    IN  Case("Release")[decay].env

Switch(e, n) ==
    LET attack == Case("Attack")[Case("Delay")[[env |-> e, remaining |-> n]]]
        decay == Case("Decay")[Case("Hold")[attack]]
    IN  Case("Release")[decay].env

\* After the switch, the release that begins in this block takes its share.
\* Nothing clears shouldRelease or releaseDelay: every later block comes here
\* too and takes a second share, from the same offset in the block.
ReleaseInBlock(e, n) ==
    LET length == Least(n - e.releaseDelay, e.left["Release"])
        last == IF length = e.left["Release"] THEN "Done" ELSE "Release"
    IN  GoesOn(e, last, Spent(e.left, "Release", length))

GetBlock(e, n) ==
    LET switched == Switch(e, n)
    IN  IF ~ e.shouldRelease
          THEN switched
          ELSE IF e.releaseDelay > n
                 THEN [switched EXCEPT !.releaseDelay = @ - n]
                 ELSE ReleaseInBlock(switched, n)
=============================================================================
