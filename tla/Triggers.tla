--------------------------------- MODULE Triggers ---------------------------------
(*****************************************************************************)
(* The regions of a loaded instrument under a stream of events.              *)
(*                                                                           *)
(* The Synth hands a note to the regions whose key range or keyswitch range  *)
(* contains it and a controller to those that have a condition or a trigger  *)
(* on it; the others would ignore them, so that every region gets every      *)
(* event here.  A voice is not involved: `played' is the set of regions that *)
(* the last event made play.                                                 *)
(*                                                                           *)
(* Keys go down once and up once, as on a keyboard.  inputs holds the last   *)
(* value of every controller: what the regions' switches should agree with.  *)
(*****************************************************************************)
EXTENDS Region

CONSTANTS
    Regions,
    Description,            \* region -> its description
    Channels, Notes, Velocities, Rands,
    CCs, CCValues, Bends, Aftertouches, Tempos,
    DefaultSwitch,          \* sw_default, a note or Null
    Sequences,              \* sets of regions that differ in seq_position only
    Articulations,          \* sets of regions that differ in sw_last only
    Phrases,                \* pairs of regions that differ in trigger=first, legato
    MaxNotes                \* bound: notes played

VARIABLES
    state,                  \* region -> its private state
    held,                   \* keys that are down, <<channel, note>>
    played,                 \* regions the last event made play
    event,                  \* the last event
    inputs,                 \* channel -> the values of its controllers
    lastSwitch,             \* channel -> the last note in the keyswitch range
    notes                   \* number of notes, up to MaxNotes

vars == <<state, held, played, event, inputs, lastSwitch, notes>>

D(r) == Description[r]

\* Every region listens to some channels; one that listens to a single channel
\* listens to one that exists, and its conditions are on controllers that exist.
DescriptionAssumption ==
    \A r \in Regions :
        /\ D(r).channelRange[1] \in Int /\ D(r).channelRange[2] \in Int
        /\ D(r).channelRange[1] <= D(r).channelRange[2]
        /\ D(r).channelRange[1] = D(r).channelRange[2] => D(r).channelRange[1] \in Channels
        /\ DOMAIN D(r).ccConditions \subseteq CCs

\* A region that no switch but its own feature turns off, and that any velocity and
\* any random value play.
Unconditional(d) ==
    /\ d.keyswitch = Null /\ d.keyswitchUp = Null /\ d.keyswitchDown = Null
    /\ d.previousNote = Null
    /\ DOMAIN d.ccConditions = {}
    /\ \A pitch \in Bends \cup {0} : ContainsWithEnd(d.bendRange, pitch)
    /\ \A value \in Aftertouches \cup {0} : ContainsWithEnd(d.aftertouchRange, value)
    /\ \A bpm \in Tempos \cup {30} : ContainsWithEnd(d.bpmRange, bpm)
    /\ \A velocity \in Velocities : ContainsWithEnd(d.velocityRange, velocity)
    /\ \A rand \in Rands :
          Contains(d.randRange, rand) \/ (rand = RandOne /\ d.randRange[2] = RandOne)

SameKeys(r, s) ==
    D(r).channelRange = D(s).channelRange /\ D(r).keyRange = D(s).keyRange

\* The regions of a sequence of length n have the positions 1 to n, each once.
IsSequence(g, n) ==
    /\ g \subseteq Regions
    /\ \A r \in g : /\ Unconditional(D(r)) /\ D(r).trigger = "attack"
                    /\ D(r).sequenceLength = n /\ D(r).sequencePosition \in 1 .. n
    /\ \A r, s \in g : /\ SameKeys(r, s)
                       /\ D(r).sequencePosition = D(s).sequencePosition => r = s
    /\ \A p \in 1 .. n : \E r \in g : D(r).sequencePosition = p

SequencesAssumption ==
    \A g \in Sequences : \E n \in 1 .. 100 : IsSequence(g, n)

PhrasesAssumption ==
    \A phrase \in Phrases :
        /\ phrase[1] \in Regions /\ phrase[2] \in Regions
        /\ SameKeys(phrase[1], phrase[2])
        /\ D(phrase[1]).trigger = "first" /\ D(phrase[2]).trigger = "legato"
        /\ \A r \in {phrase[1], phrase[2]} :
              /\ Unconditional(D(r))
              /\ D(r).sequenceLength = 1 /\ D(r).sequencePosition = 1

\* Articulations have sw_last in one range of keyswitches, on one channel each, and
\* the default switch is in the range.
ArticulationsAssumption ==
    \A g \in Articulations : \A r \in g :
        /\ r \in Regions
        /\ D(r).channelRange[1] = D(r).channelRange[2]
        /\ D(r).keyswitch # Null /\ D(r).keyswitchUp = Null /\ D(r).keyswitchDown = Null
        /\ \A h \in Articulations : \A s \in h : D(r).keyswitchRange = D(s).keyswitchRange
        /\ DefaultSwitch # Null => ContainsWithEnd(D(r).keyswitchRange, DefaultSwitch)

ASSUME InstrumentAssumption ==
    /\ MaxNotes \in Nat /\ Channels \subseteq Int /\ Null \notin Notes
    /\ DescriptionAssumption
    /\ SequencesAssumption
    /\ PhrasesAssumption
    /\ ArticulationsAssumption

NoEvent == [op |-> "none", channel |-> 0, number |-> 0]

Switchable(note) == \E r \in UNION Articulations : ContainsWithEnd(D(r).keyswitchRange, note)

TypeOK ==
    /\ DOMAIN state = Regions
    /\ \A r \in Regions :
          /\ state[r].activeNotesInRange \in -1 .. MaxNotes
          /\ state[r].sequenceCounter \in 0 .. MaxNotes + 1
          /\ state[r].ccOff \subseteq CCs
    /\ held \subseteq Channels \X Notes
    /\ played \subseteq Regions
    /\ notes \in 0 .. MaxNotes

\* The values that the set_cc opcodes of a file leave in the MIDI state, which
\* keeps 0 for a controller without one.
SetCCs == [CCs -> CCValues \cup {0}]

Init ==
    /\ \E initial \in SetCCs :
          /\ state = [r \in Regions |-> LoadedState(D(r), initial, DefaultSwitch)]
          /\ inputs = [c \in Channels |->
                          [cc |-> initial, bend |-> 0, aftertouch |-> 0, tempo |-> 30]]
    /\ held = {}
    /\ played = {}
    /\ event = NoEvent
    /\ lastSwitch = [c \in Channels |-> DefaultSwitch]
    /\ notes = 0

-----------------------------------------------------------------------------
NoteOn(channel, note, velocity, rand) ==
    /\ <<channel, note>> \notin held
    /\ notes < MaxNotes
    /\ held' = held \cup {<<channel, note>>}
    /\ notes' = notes + 1
    /\ event' = [op |-> "noteOn", channel |-> channel, number |-> note]
    /\ state' = [r \in Regions |-> AfterNoteOn(D(r), state[r], channel, note)]
    /\ played' = {r \in Regions : NoteOnPlays(D(r), state'[r], channel, note, velocity, rand)}
    /\ lastSwitch' = [lastSwitch EXCEPT ![channel] = IF Switchable(note) THEN note ELSE @]
    /\ UNCHANGED inputs

NoteOff(channel, note, velocity, rand) ==
    /\ <<channel, note>> \in held
    /\ held' = held \ {<<channel, note>>}
    /\ event' = [op |-> "noteOff", channel |-> channel, number |-> note]
    /\ state' = [r \in Regions |-> AfterNoteOff(D(r), state[r], channel, note)]
    /\ played' = {r \in Regions : NoteOffPlays(D(r), state'[r], channel, note, velocity, rand)}
    /\ UNCHANGED <<inputs, lastSwitch, notes>>

CC(channel, cc, value) ==
    /\ inputs' = [inputs EXCEPT ![channel].cc[cc] = value]
    /\ event' = [op |-> "cc", channel |-> channel, number |-> cc]
    /\ state' = [r \in Regions |-> AfterCC(D(r), state[r], channel, cc, value)]
    /\ played' = {r \in Regions : CCPlays(D(r), state'[r], channel, cc, value)}
    /\ UNCHANGED <<held, lastSwitch, notes>>

\* The other switches only change states.
Silent(name, channel) ==
    /\ event' = [op |-> name, channel |-> channel, number |-> 0]
    /\ played' = {}
    /\ UNCHANGED <<held, lastSwitch, notes>>

PitchWheel(channel, pitch) ==
    /\ inputs' = [inputs EXCEPT ![channel].bend = pitch]
    /\ state' = [r \in Regions |-> AfterPitchWheel(D(r), state[r], channel, pitch)]
    /\ Silent("pitchWheel", channel)

Aftertouch(channel, value) ==
    /\ inputs' = [inputs EXCEPT ![channel].aftertouch = value]
    /\ state' = [r \in Regions |-> AfterAftertouch(D(r), state[r], channel, value)]
    /\ Silent("aftertouch", channel)

Tempo(bpm) ==
    /\ inputs' = [c \in Channels |-> [inputs[c] EXCEPT !.tempo = bpm]]
    /\ state' = [r \in Regions |-> AfterTempo(D(r), state[r], bpm)]
    /\ \E channel \in Channels : Silent("tempo", channel)

Next ==
    \/ \E channel \in Channels, note \in Notes, velocity \in Velocities, rand \in Rands :
          NoteOn(channel, note, velocity, rand) \/ NoteOff(channel, note, velocity, rand)
    \/ \E channel \in Channels :
          \/ \E cc \in CCs, value \in CCValues : CC(channel, cc, value)
          \/ \E pitch \in Bends : PitchWheel(channel, pitch)
          \/ \E value \in Aftertouches : Aftertouch(channel, value)
    \/ \E bpm \in Tempos : Tempo(bpm)

Spec == Init /\ [][Next]_vars

-----------------------------------------------------------------------------
(* Properties.                                                               *)

HeldIn(r) ==
    {k \in held : /\ ContainsWithEnd(D(r).channelRange, k[1])
                  /\ ContainsWithEnd(D(r).keyRange, k[2])}

\* The last event was a note that the region listens to.
NoteOnFor(r) ==
    /\ event.op = "noteOn"
    /\ ContainsWithEnd(D(r).channelRange, event.channel)
    /\ ContainsWithEnd(D(r).keyRange, event.number)

\* Round robin: of the regions of a sequence every note plays exactly one, however
\* the notes overlap.
OneOfASequence ==
    \A g \in Sequences :
        (\A r \in g : NoteOnFor(r)) => Cardinality(played \cap g) = 1

\* The hidden counter of a region counts the keys that are down in its range; it
\* starts at -1.
ActiveNotesCountHeld ==
    \A r \in Regions : state[r].activeNotesInRange = Cardinality(HeldIn(r)) - 1

\* Of a pair of regions triggered by the first note and by legato notes, every note
\* plays exactly one: the first, if no other key is down.
FirstOrLegato ==
    \A phrase \in Phrases :
        NoteOnFor(phrase[1]) =>
            played \cap {phrase[1], phrase[2]} =
                {IF Cardinality(HeldIn(phrase[1])) = 1 THEN phrase[1] ELSE phrase[2]}

\* The articulation that is switched on is that of the last keyswitch pressed.
LastSwitchWins ==
    \A g \in Articulations : \A r \in g :
        state[r].keySwitched = (lastSwitch[D(r).channelRange[1]] = D(r).keyswitch)

\* The switches that follow controllers agree with their present values, from the
\* load on (for regions on one channel, and but for controller 0, which the load
\* does not register).
SwitchesFollowInputs ==
    \A r \in Regions :
        LET d == D(r)
            now == inputs[d.channelRange[1]]
        IN d.channelRange[1] = d.channelRange[2] =>
              /\ state[r].ccOff \ {0} = {cc \in DOMAIN d.ccConditions \ {0} :
                                            ~ContainsWithEnd(d.ccConditions[cc], now.cc[cc])}
              /\ state[r].pitchSwitched = ContainsWithEnd(d.bendRange, now.bend)
              /\ state[r].aftertouchSwitched = ContainsWithEnd(d.aftertouchRange, now.aftertouch)
              /\ state[r].bpmSwitched = ContainsWithEnd(d.bpmRange, now.tempo)

=================================================================================
