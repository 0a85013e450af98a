------------------------------- MODULE GateProofs -------------------------------
(*****************************************************************************)
(* What the gate guarantees, for every set of block sizes.                   *)
(*                                                                           *)
(* Exclusion is not inductive: that the gate is closed in a critical section *)
(* says nothing of a handler admitted earlier.  GateInv ties each flag to    *)
(* the positions of the two threads.                                         *)
(*****************************************************************************)
EXTENDS Gate, TLAPS

\* The gate is open exactly when no disabler is alive, but for loadSfzFile
\* whose own disabler was undone by that of clear().
GateFollowsControl == canEnterCallback <=> control \in {"outside", "parsing"}

\* The guard is down when no handler is past its construction, and up when
\* one is, except in a noteOn.
GuardFollowsAudio ==
    /\ audio \in {"outside", "admitted"} => ~inCallback
    /\ audio = "nested" => inCallback
    /\ Inside /\ handler # "noteOn" => audio = "inside" /\ inCallback

\* A handler that is alive in a critical section was there when it began.
OvertakenInCritical == Exclusive /\ audio # "outside" => overtaken

\* The host's block is the voices' block, but for the end of a resize.
HostFollows == control # "leaving" => hostBlock = samplesPerBlock

BlockInv ==
    audio # "outside" /\ frames > samplesPerBlock => overtaken

GateInv ==
    /\ GateFollowsControl
    /\ GuardFollowsAudio
    /\ OvertakenInCritical
    /\ HostFollows
    /\ BlockInv

-----------------------------------------------------------------------------
\* Every variable keeps its type.
THEOREM TypeCorrect == SafeSpec => []TypeOK
<1>1. Init => TypeOK
  BY BlockSizesAssumption DEF Init, TypeOK, AudioStates, ControlStates, Handlers, Entries
<1>2. TypeOK /\ [Next]_vars => TypeOK'
  <2> SUFFICES ASSUME TypeOK, [Next]_vars PROVE TypeOK'
    OBVIOUS
  <2> USE DEF TypeOK, AudioStates, ControlStates
  <2>1. CASE AudioThread
    BY <2>1 DEF AudioThread, Check, Enter, CheckNested, EnterNested, LeaveNested,
                Leave, controlVars
  <2>2. CASE ControlThread
    BY <2>2 DEF ControlThread, ControlStep, Begin, CallClear, EndWait, Work, Reopen,
                FinishLoad, audioVars
  <2>3. CASE UNCHANGED vars
    BY <2>3 DEF vars, audioVars, controlVars
  <2>4. QED
    BY <2>1, <2>2, <2>3 DEF Next
<1>3. QED
  BY <1>1, <1>2, PTL DEF SafeSpec

\* GateInv is inductive, given the types.
LEMMA GateInvInit == Init => GateInv
BY BlockSizesAssumption
   DEF Init, GateInv, GateFollowsControl, GuardFollowsAudio, OvertakenInCritical,
       HostFollows, BlockInv, Inside, Exclusive

LEMMA GateInvStep == TypeOK /\ GateInv /\ [Next]_vars => GateInv'
<1> SUFFICES ASSUME TypeOK, GateInv, [Next]_vars PROVE GateInv'
  OBVIOUS
<1> USE DEF GateInv, GateFollowsControl, GuardFollowsAudio, OvertakenInCritical,
            HostFollows, BlockInv, Inside, Exclusive
<1>1. ASSUME NEW h \in Handlers, Check(h) PROVE GateInv'
  BY <1>1, BlockSizesAssumption DEF Check, controlVars, TypeOK
<1>2. CASE Enter
  BY <1>2 DEF Enter, controlVars
<1>3. CASE CheckNested
  BY <1>3 DEF CheckNested, controlVars
<1>4. CASE EnterNested
  BY <1>4 DEF EnterNested, controlVars, TypeOK, AudioStates
<1>5. CASE LeaveNested
  BY <1>5 DEF LeaveNested, controlVars, TypeOK, AudioStates
<1>6. CASE Leave
  BY <1>6 DEF Leave, controlVars
<1>7. ASSUME NEW e \in Entries, NEW n \in BlockSizes, Begin(e, n) PROVE GateInv'
  BY <1>7 DEF Begin, audioVars
<1>8. CASE CallClear
  BY <1>8 DEF CallClear, audioVars
<1>9. CASE EndWait
  BY <1>9 DEF EndWait, audioVars
<1>10. CASE Work
  BY <1>10 DEF Work, audioVars
<1>11. CASE Reopen
  BY <1>11 DEF Reopen, audioVars
<1>12. CASE FinishLoad
  BY <1>12 DEF FinishLoad, audioVars
<1>13. CASE UNCHANGED vars
  BY <1>13 DEF vars, audioVars, controlVars
<1>14. QED
  BY <1>1, <1>2, <1>3, <1>4, <1>5, <1>6, <1>7, <1>8, <1>9, <1>10, <1>11, <1>12, <1>13
     DEF Next, AudioThread, ControlThread, ControlStep

THEOREM GateInvariant == SafeSpec => [](TypeOK /\ GateInv)
<1>1. SafeSpec => []TypeOK
  BY TypeCorrect
<1>2. Init => GateInv
  BY GateInvInit
<1>3. TypeOK /\ GateInv /\ [Next]_vars => GateInv'
  BY GateInvStep
<1>4. QED
  BY <1>1, <1>2, <1>3, PTL DEF SafeSpec

-----------------------------------------------------------------------------
\* A handler that runs during a critical section of the control thread passed
\* the gate before that section began: the flags exclude every other overlap.
THEOREM ExclusionHolds == SafeSpec => []Exclusion
<1>1. GateInv => Exclusion
  BY DEF GateInv, OvertakenInCritical, Exclusion, Inside
<1>2. QED
  BY <1>1, GateInvariant, PTL

\* The nested disablers and guards leave both flags as they found them.
THEOREM GateRestoredHolds == SafeSpec => []GateRestored
<1>1. GateInv => GateRestored
  BY DEF GateInv, GateFollowsControl, GuardFollowsAudio, GateRestored
<1>2. QED
  BY <1>1, GateInvariant, PTL

\* A block overflows the voices' buffers only in a handler that a resize overtook.
THEOREM BlockFitsHolds == SafeSpec => []BlockFitsUnlessOvertaken
<1>1. GateInv => BlockFitsUnlessOvertaken
  BY DEF GateInv, BlockInv, BlockFitsUnlessOvertaken, Inside
<1>2. QED
  BY <1>1, GateInvariant, PTL

\* A wait ends on a raised guard in no execution, so that what it can interrupt is
\* an unguarded handler or a noteOn that its noteOff has unguarded.
THEOREM WaitDrainsHolds == SafeSpec => WaitDrains
<1> DEFINE Drained == \/ audio \in {"outside", "admitted"}
                      \/ handler = "noteOn" /\ audio \in {"inside", "readmitted"}
<1>1. TypeOK /\ GateInv /\ [Next]_vars => [EndWait => Drained]_vars
  BY DEF TypeOK, AudioStates, GateInv, GuardFollowsAudio, Inside, EndWait
<1>2. QED
  BY <1>1, GateInvariant, PTL DEF SafeSpec, WaitDrains

=================================================================================
