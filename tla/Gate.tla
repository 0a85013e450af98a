---------------------------------- MODULE Gate ----------------------------------
(*****************************************************************************)
(* The gate between the audio thread and the control thread of a Synth.      *)
(*                                                                           *)
(* Every handler of the audio thread (noteOn, noteOff, cc, renderBlock)      *)
(* first reads canEnterCallback and returns if it is false; it then holds an *)
(* AtomicGuard, which keeps inCallback true until the handler returns.  The  *)
(* control thread (clear, loadSfzFile, setSampleRate, setSamplesPerBlock)    *)
(* holds an AtomicDisabler, which keeps canEnterCallback false, and sleeps   *)
(* until inCallback is false before it touches the engine.                   *)
(*                                                                           *)
(* Both classes write constants in their constructors and destructors, they  *)
(* do not save what was there.  The two places where they nest are modelled: *)
(* noteOn calls noteOff for the voices it chokes, and loadSfzFile calls      *)
(* clear.  The test of canEnterCallback and the construction of the guard    *)
(* are two statements, hence two steps.                                      *)
(*****************************************************************************)
EXTENDS Integers

CONSTANT BlockSizes         \* block sizes the host may choose

ASSUME BlockSizesAssumption == BlockSizes # {} /\ BlockSizes \subseteq Nat \ {0}

VARIABLES
    canEnterCallback,       \* the two atomics of Synth
    inCallback,
    audio,                  \* where the audio thread is in a handler
    handler,                \* the handler it runs, or the last one it ran
    frames,                 \* frames that renderBlock was asked for
    control,                \* where the control thread is in an entry point
    entry,                  \* the entry point it runs, or the last one
    argument,               \* the argument of setSamplesPerBlock
    samplesPerBlock,        \* the capacity of tempBuffer and of the voices
    hostBlock,              \* the block size the host renders with
    overtaken               \* history: a control section began since the test
                            \* of canEnterCallback that admitted the handler

audioVars == <<audio, handler, frames>>
controlVars == <<control, entry, argument, samplesPerBlock, hostBlock>>
vars == <<canEnterCallback, inCallback, audioVars, controlVars, overtaken>>

Handlers == {"noteOn", "noteOff", "cc", "renderBlock"}
Entries == {"clear", "loadSfzFile", "setSampleRate", "setSamplesPerBlock"}

\* "admitted" and "readmitted" are between the test and the guard; "nested"
\* is inside the noteOff that a noteOn calls.
AudioStates == {"outside", "admitted", "inside", "readmitted", "nested"}

\* "loading" is the first wait of loadSfzFile; "waiting", "critical" and
\* "leaving" are those of the other entries, and of the clear() that
\* loadSfzFile calls; "parsing" is the rest of loadSfzFile.
ControlStates ==
    {"outside", "loading", "waiting", "critical", "leaving", "parsing"}

TypeOK ==
    /\ canEnterCallback \in BOOLEAN
    /\ inCallback \in BOOLEAN
    /\ audio \in AudioStates
    /\ handler \in Handlers
    /\ frames \in BlockSizes
    /\ control \in ControlStates
    /\ entry \in Entries
    /\ argument \in BlockSizes
    /\ samplesPerBlock \in BlockSizes
    /\ hostBlock \in BlockSizes
    /\ overtaken \in BOOLEAN

Init ==
    /\ canEnterCallback = TRUE
    /\ inCallback = FALSE
    /\ audio = "outside"
    /\ handler \in Handlers
    /\ control = "outside"
    /\ entry \in Entries
    /\ samplesPerBlock \in BlockSizes
    /\ hostBlock = samplesPerBlock
    /\ frames = hostBlock
    /\ argument = hostBlock
    /\ overtaken = FALSE

-----------------------------------------------------------------------------
(* The audio thread.                                                         *)

\* Mutant: a handler that does not test the gate.
CheckAlways(h) ==
    /\ audio = "outside"
    /\ audio' = "admitted"
    /\ handler' = h
    /\ frames' = hostBlock
    /\ overtaken' = FALSE
    /\ UNCHANGED <<canEnterCallback, inCallback, controlVars>>

\* if (!canEnterCallback) return;
\* A refused handler changes nothing that is modelled here.
Check(h) ==
    /\ audio = "outside"
    /\ canEnterCallback
    /\ audio' = "admitted"
    /\ handler' = h
    /\ frames' = hostBlock
    /\ overtaken' = FALSE
    /\ UNCHANGED <<canEnterCallback, inCallback, controlVars>>

\* AtomicGuard callbackGuard { inCallback };
Enter ==
    /\ audio = "admitted"
    /\ audio' = "inside"
    /\ inCallback' = TRUE
    /\ UNCHANGED <<canEnterCallback, handler, frames, controlVars, overtaken>>

\* noteOn chokes a voice and calls noteOff, which tests the gate again; a
\* refused noteOff returns at once.
CheckNested ==
    /\ audio = "inside"
    /\ handler = "noteOn"
    /\ canEnterCallback
    /\ audio' = "readmitted"
    /\ UNCHANGED <<canEnterCallback, inCallback, handler, frames, controlVars, overtaken>>

EnterNested ==
    /\ audio = "readmitted"
    /\ audio' = "nested"
    /\ inCallback' = TRUE
    /\ UNCHANGED <<canEnterCallback, handler, frames, controlVars, overtaken>>

\* The guard of the inner noteOff is destroyed while noteOn still runs: the
\* destructor writes false, whatever the constructor found.
LeaveNested ==
    /\ audio = "nested"
    /\ audio' = "inside"
    /\ inCallback' = FALSE
    /\ UNCHANGED <<canEnterCallback, handler, frames, controlVars, overtaken>>

\* Mutant: the destructor of the guard does nothing.
LeaveGuarded ==
    /\ audio = "inside"
    /\ audio' = "outside"
    /\ UNCHANGED <<canEnterCallback, inCallback, handler, frames, controlVars, overtaken>>

Leave ==
    /\ audio = "inside"
    /\ audio' = "outside"
    /\ inCallback' = FALSE
    /\ UNCHANGED <<canEnterCallback, handler, frames, controlVars, overtaken>>

AudioThread ==
    \/ \E h \in Handlers : Check(h)
    \/ Enter \/ CheckNested \/ EnterNested \/ LeaveNested \/ Leave

-----------------------------------------------------------------------------
(* The control thread.                                                       *)

\* Mutant: the entry waits for the callbacks without closing the gate first.
BeginOpen(e, n) ==
    /\ control = "outside"
    /\ control' = IF e = "loadSfzFile" THEN "loading" ELSE "waiting"
    /\ entry' = e
    /\ argument' = n
    /\ UNCHANGED <<canEnterCallback, inCallback, audioVars, samplesPerBlock, hostBlock, overtaken>>

\* AtomicDisabler callbackDisabler { canEnterCallback };
Begin(e, n) ==
    /\ control = "outside"
    /\ control' = IF e = "loadSfzFile" THEN "loading" ELSE "waiting"
    /\ canEnterCallback' = FALSE
    /\ entry' = e
    /\ argument' = n
    /\ UNCHANGED <<inCallback, audioVars, samplesPerBlock, hostBlock, overtaken>>

\* loadSfzFile has waited; it calls clear(), which closes the gate and waits.
CallClear ==
    /\ control = "loading"
    /\ ~inCallback
    /\ control' = "waiting"
    /\ canEnterCallback' = FALSE
    /\ UNCHANGED <<inCallback, audioVars, entry, argument, samplesPerBlock, hostBlock, overtaken>>

\* Mutant: the loop on inCallback is missing.
EndWaitNow ==
    /\ control = "waiting"
    /\ control' = "critical"
    /\ overtaken' = (audio # "outside")
    /\ UNCHANGED <<canEnterCallback, inCallback, audioVars, entry, argument, samplesPerBlock, hostBlock>>

\* while (inCallback) sleep_for(1ms);
EndWait ==
    /\ control = "waiting"
    /\ ~inCallback
    /\ control' = "critical"
    /\ overtaken' = (audio # "outside")
    /\ UNCHANGED <<canEnterCallback, inCallback, audioVars, entry, argument, samplesPerBlock, hostBlock>>

\* The body of the entry, of which only the block size is kept.
Work ==
    /\ control = "critical"
    /\ control' = "leaving"
    /\ samplesPerBlock' =
          IF entry = "setSamplesPerBlock" THEN argument ELSE samplesPerBlock
    /\ UNCHANGED <<canEnterCallback, inCallback, audioVars, entry, argument, hostBlock, overtaken>>

\* The disabler is destroyed.  That of clear() is inside loadSfzFile: the gate
\* is open for the rest of the load.  A host that has announced a block size
\* renders with it from here on.
Reopen ==
    /\ control = "leaving"
    /\ control' = IF entry = "loadSfzFile" THEN "parsing" ELSE "outside"
    /\ canEnterCallback' = TRUE
    /\ hostBlock' = samplesPerBlock
    /\ UNCHANGED <<inCallback, audioVars, entry, argument, samplesPerBlock, overtaken>>

\* loadSfzFile has parsed the file and built its lists, or failed to.
FinishLoad ==
    /\ control = "parsing"
    /\ control' = "outside"
    /\ canEnterCallback' = TRUE
    /\ UNCHANGED <<inCallback, audioVars, entry, argument, samplesPerBlock, hostBlock, overtaken>>

ControlStep == CallClear \/ EndWait \/ Work \/ Reopen \/ FinishLoad

ControlThread ==
    \/ \E e \in Entries, n \in BlockSizes : Begin(e, n)
    \/ ControlStep

-----------------------------------------------------------------------------
Next == AudioThread \/ ControlThread

\* A handler that has begun is scheduled until it returns, and so is an entry;
\* neither thread has to begin one.
Fairness ==
    /\ WF_vars(Enter)
    /\ WF_vars(EnterNested)
    /\ WF_vars(LeaveNested)
    /\ WF_vars(Leave)
    /\ WF_vars(ControlStep)

SafeSpec == Init /\ [][Next]_vars
Spec == SafeSpec /\ Fairness

-----------------------------------------------------------------------------
(* Properties.                                                               *)

\* The control thread owns the engine, as far as it can tell.
Exclusive == control \in {"critical", "leaving"}
Inside == audio \in {"inside", "readmitted", "nested"}

\* While an entry point works on the engine behind the closed gate, the only
\* handler that can be running is one that it overtook: the handler passed the
\* test of canEnterCallback before the gate closed.
Exclusion == Exclusive /\ Inside => overtaken

\* A wait never ends on top of a handler whose guard is up.  It can end on a
\* handler that has not built its guard yet, and on a noteOn that has lost it
\* to the noteOff it called.
WaitDrains ==
    [][EndWait => \/ audio \in {"outside", "admitted"}
                  \/ handler = "noteOn" /\ audio \in {"inside", "readmitted"}]_vars

\* Once no thread is in the synth the gate is open and no callback is signalled,
\* in whatever order the guards and the disablers were destroyed.
GateRestored ==
    /\ control = "outside" => canEnterCallback
    /\ audio = "outside" => ~inCallback

\* What the assertion on the frames in Voice::renderBlock needs: a block fits
\* the voices' buffers, unless the handler was overtaken by a resize.
BlockFitsUnlessOvertaken ==
    Inside /\ handler = "renderBlock" /\ frames > samplesPerBlock => overtaken

\* Voice::renderBlock asserts that the block fits, without exception.
BlockFits ==
    Inside /\ handler = "renderBlock" => frames <= samplesPerBlock

\* An entry point that waits for the callbacks always gets through, although it
\* polls inCallback and the handlers set it again and again.
EntryReturns == (control # "outside") ~> (control = "outside")

=================================================================================
