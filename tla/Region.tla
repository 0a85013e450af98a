---------------------------------- MODULE Region ----------------------------------
(*****************************************************************************)
(* The activation logic of a region: which events switch it on and off, and  *)
(* which events make it play.                                                *)
(*                                                                           *)
(* d is a region's description, the opcodes it was built from: a record of   *)
(*   channelRange, keyRange, velocityRange, keyswitchRange, bendRange,       *)
(*   aftertouchRange, bpmRange, randRange    ranges, <<start, end>>          *)
(*   keyswitch, keyswitchUp, keyswitchDown, previousNote      Null or a note *)
(*   sequenceLength, sequencePosition, trigger                               *)
(*   ccConditions, ccTriggers     functions from some controllers to ranges  *)
(* s is its private state, the record of InitialState.  A method that        *)
(* changes s and returns a bool is two operators: After... is the new state, *)
(* and ...Plays is the result, of the new state.  The bitset ccSwitched is   *)
(* the set of the controllers whose bit is clear.                            *)
(*****************************************************************************)
EXTENDS Integers, FiniteSets

CONSTANT Null               \* an empty absl::optional

Triggers == {"attack", "release", "release_key", "first", "legato"}

Contains(range, x) == range[1] <= x /\ x < range[2]
ContainsWithEnd(range, x) == range[1] <= x /\ x <= range[2]

\* The random value 1.0, in the unit that a model chooses for randRange.
RandOne == 100

\* A region with its opcodes parsed: sw_last, sw_down, sw_previous and
\* seq_position clear their switches.
InitialState(d) ==
    [keySwitched |-> d.keyswitch = Null /\ d.keyswitchDown = Null,
     previousKeySwitched |-> d.previousNote = Null,
     sequenceSwitched |-> d.sequencePosition = 1,
     pitchSwitched |-> TRUE, bpmSwitched |-> TRUE, aftertouchSwitched |-> TRUE,
     ccOff |-> {}, activeNotesInRange |-> -1, sequenceCounter |-> 0]

IsSwitchedOn(s) ==
    /\ s.keySwitched /\ s.previousKeySwitched /\ s.sequenceSwitched
    /\ s.pitchSwitched /\ s.bpmSwitched /\ s.aftertouchSwitched
    /\ s.ccOff = {}

-----------------------------------------------------------------------------
(* Notes.                                                                    *)

\* Mutant: a keyswitch note does not switch the other articulations off.
KeySwitchedByOnSticky(d, s, note) ==
    IF ~ContainsWithEnd(d.keyswitchRange, note) THEN s.keySwitched
    ELSE IF d.keyswitchUp = note THEN FALSE
    ELSE note \in {d.keyswitchDown, d.keyswitch} \/ s.keySwitched

\* sw_last, then sw_down, then sw_up: the last one that applies wins.
KeySwitchedByOn(d, s, note) ==
    IF ~ContainsWithEnd(d.keyswitchRange, note) THEN s.keySwitched
    ELSE IF d.keyswitchUp = note THEN FALSE
    ELSE IF d.keyswitchDown = note THEN TRUE
    ELSE IF d.keyswitch # Null THEN d.keyswitch = note
    ELSE s.keySwitched

KeySwitchedByOff(d, s, note) ==
    IF ~ContainsWithEnd(d.keyswitchRange, note) THEN s.keySwitched
    ELSE IF d.keyswitchUp = note THEN TRUE
    ELSE IF d.keyswitchDown = note THEN FALSE
    ELSE s.keySwitched

\* Mutant: the sequence advances only while the region is switched on.
AfterNoteOnSelfish(d, s, channel, note) ==
    IF ~ContainsWithEnd(d.channelRange, channel) THEN s
    ELSE LET t == [s EXCEPT !.keySwitched = KeySwitchedByOn(d, s, note)] IN
         IF ~ContainsWithEnd(d.keyRange, note) THEN t
         ELSE LET counter == IF IsSwitchedOn(t) THEN t.sequenceCounter + 1
                                                ELSE t.sequenceCounter
              IN [t EXCEPT !.activeNotesInRange = @ + 1,
                           !.sequenceCounter = counter,
                           !.sequenceSwitched =
                               counter % d.sequenceLength = d.sequencePosition - 1,
                           !.previousKeySwitched =
                               IF d.previousNote = Null THEN @ ELSE d.previousNote = note]

AfterNoteOn(d, s, channel, note) ==
    IF ~ContainsWithEnd(d.channelRange, channel) THEN s
    ELSE LET t == [s EXCEPT !.keySwitched = KeySwitchedByOn(d, s, note)]
             counter == s.sequenceCounter + 1
         IN IF ~ContainsWithEnd(d.keyRange, note) THEN t
            ELSE [t EXCEPT !.activeNotesInRange = @ + 1,
                           !.sequenceCounter = counter,
                           !.sequenceSwitched =
                               counter % d.sequenceLength = d.sequencePosition - 1,
                           !.previousKeySwitched =
                               IF d.previousNote = Null THEN @ ELSE d.previousNote = note]

\* Mutant: the first note of a phrase also counts as a legato note.
TriggersOnNoteLoose(d, s) ==
    \/ d.trigger = "attack"
    \/ d.trigger = "first" /\ s.activeNotesInRange = 0
    \/ d.trigger = "legato" /\ s.activeNotesInRange >= 0

TriggersOnNote(d, s) ==
    \/ d.trigger = "attack"
    \/ d.trigger = "first" /\ s.activeNotesInRange = 0
    \/ d.trigger = "legato" /\ s.activeNotesInRange > 0

\* The test of sw_previous after isSwitchedOn().
PreviousNoteOk(d, s, note) ==
    d.previousNote = Null \/ (s.previousKeySwitched /\ note # d.previousNote)

\* What registerNoteOn returns; s is the state after it.
NoteOnPlays(d, s, channel, note, velocity, rand) ==
    /\ ContainsWithEnd(d.channelRange, channel)
    /\ IsSwitchedOn(s)
    /\ PreviousNoteOk(d, s, note)
    /\ ContainsWithEnd(d.keyRange, note)
    /\ ContainsWithEnd(d.velocityRange, velocity)
    /\ Contains(d.randRange, rand) \/ (rand = RandOne /\ d.randRange[2] = RandOne)
    /\ TriggersOnNote(d, s)

AfterNoteOff(d, s, channel, note) ==
    IF ~ContainsWithEnd(d.channelRange, channel) THEN s
    ELSE [s EXCEPT !.keySwitched = KeySwitchedByOff(d, s, note),
                   !.activeNotesInRange =
                       IF ContainsWithEnd(d.keyRange, note) THEN @ - 1 ELSE @]

\* What registerNoteOff returns.
NoteOffPlays(d, s, channel, note, velocity, rand) ==
    /\ ContainsWithEnd(d.channelRange, channel)
    /\ IsSwitchedOn(s)
    /\ ContainsWithEnd(d.keyRange, note)
    /\ ContainsWithEnd(d.velocityRange, velocity)
    /\ Contains(d.randRange, rand)
    /\ d.trigger \in {"release", "release_key"}

-----------------------------------------------------------------------------
(* Controllers and the other switches.                                       *)

\* A controller without a condition has the default range 0..127.
AfterCC(d, s, channel, cc, value) ==
    IF ~ContainsWithEnd(d.channelRange, channel) THEN s
    ELSE IF cc \in DOMAIN d.ccConditions /\ ~ContainsWithEnd(d.ccConditions[cc], value)
         THEN [s EXCEPT !.ccOff = @ \cup {cc}]
         ELSE [s EXCEPT !.ccOff = @ \ {cc}]

\* What registerCC returns.
CCPlays(d, s, channel, cc, value) ==
    /\ ContainsWithEnd(d.channelRange, channel)
    /\ IsSwitchedOn(s)
    /\ cc \in DOMAIN d.ccTriggers
    /\ ContainsWithEnd(d.ccTriggers[cc], value)

AfterPitchWheel(d, s, channel, pitch) ==
    IF ~ContainsWithEnd(d.channelRange, channel) THEN s
    ELSE [s EXCEPT !.pitchSwitched = ContainsWithEnd(d.bendRange, pitch)]

AfterAftertouch(d, s, channel, aftertouch) ==
    IF ~ContainsWithEnd(d.channelRange, channel) THEN s
    ELSE [s EXCEPT !.aftertouchSwitched = ContainsWithEnd(d.aftertouchRange, aftertouch)]

AfterTempo(d, s, bpm) ==
    [s EXCEPT !.bpmSwitched = ContainsWithEnd(d.bpmRange, bpm)]

-----------------------------------------------------------------------------
(* The state in which Synth::loadSfzFile leaves a region: it registers the   *)
(* controllers but for number 0, plays the default switch note, and          *)
(* registers neutral values for the rest.  The tempo is 2 seconds per        *)
(* quarter.  `initial' maps the controllers to 0, to which clear() has set   *)
(* them, or to what a set_cc opcode says.                                    *)

\* Mutant: the controllers are not registered.
LoadCCsNot(d, s, initial) == s

LoadCCs(d, s, initial) ==
    [s EXCEPT !.ccOff = {cc \in DOMAIN initial \ {0} :
                            AfterCC(d, s, d.channelRange[1], cc, initial[cc]).ccOff # {}}]

LoadSwitch(d, s, defaultSwitch) ==
    IF defaultSwitch = Null THEN s
    ELSE AfterNoteOff(d, AfterNoteOn(d, s, d.channelRange[1], defaultSwitch),
                      d.channelRange[1], defaultSwitch)

\* parsed is the state in which the opcodes leave the region.
Registered(d, parsed, initial, defaultSwitch) ==
    LET s == LoadSwitch(d, LoadCCs(d, parsed, initial), defaultSwitch)
        channel == d.channelRange[1]
    IN AfterTempo(d, AfterAftertouch(d, AfterPitchWheel(d, s, channel, 0), channel, 0), 30)

LoadedState(d, initial, defaultSwitch) ==
    Registered(d, InitialState(d), initial, defaultSwitch)

=================================================================================
