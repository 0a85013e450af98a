----------------------------------- MODULE Synth -----------------------------------
(*****************************************************************************)
(* Voice allocation and the life of a note: the handlers of the audio thread *)
(* (Synth::noteOn, noteOff, cc, renderBlock) on the regions and the voices.  *)
(*                                                                           *)
(* The handlers are loops over regions and voices that call each other:      *)
(* noteOn calls noteOff for every voice it chokes, and both start voices,    *)
(* which may sort the very list of voices that the choke loop walks.  What   *)
(* is left of the handler that runs is the agenda, a sequence of tasks; a    *)
(* task is one turn of a loop, and puts the calls it makes in front.         *)
(*                                                                           *)
(* A key that is pressed or let go while the gate is closed (module Gate) is *)
(* refused by the handler.  Sound is abstracted to what decides the life of  *)
(* a voice: the end of its sample, the end of its envelope, whether it is    *)
(* quiet enough to be stolen, and the order of the source positions.         *)
(*****************************************************************************)
EXTENDS Region, Sequences, Functions

CONSTANTS
    Voices,
    Instrument,             \* the regions, in the order of the file
    Description,            \* region -> its description, with group, offBy (or
                            \* Null), oneShot, checkSustain, ends (its sample ends)
    DefaultSwitch,          \* sw_default, a note or Null
    Channels, Notes, Velocities, Rands, CCs, CCValues,
    GateCloses,             \* whether handlers may be refused
    MaxNotes                \* bound: notes played

SustainCC == 64             \* config::sustainCC
HalfCCThreshold == 64       \* config::halfCCThreshold

\* There are voices to count, and the sustain pedal is a controller.
ASSUME MidiAssumption ==
    /\ IsFiniteSet(Voices)
    /\ SustainCC \in CCs
    /\ CCValues \subseteq 0 .. 127

Regions == Range(Instrument)
D(r) == Description[r]

\* A file is a sequence of regions; none is a null pointer.
ASSUME FileAssumption == Instrument \in Seq(Regions) /\ Null \notin Regions

VARIABLES
    state,                  \* region -> its private state
    voice,                  \* voice -> its state
    order,                  \* the vector of voices: its elements in order
    cc,                     \* midiState.cc
    noteVelocity,           \* midiState.lastNoteVelocities
    agenda,                 \* what is left to do in the handler
    held,                   \* keys that are down, <<channel, note>>
    missed,                 \* history: keys whose note-off was refused
    skipped,                \* history: groups whose choke loop saw a sort
    notes                   \* number of notes, up to MaxNotes

vars == <<state, voice, order, cc, noteVelocity, agenda, held, missed, skipped, notes>>
midiVars == <<cc, noteVelocity>>
historyVars == <<held, missed, skipped, notes>>

FreeVoice ==
    [region |-> Null, state |-> "idle", noteIsOff |-> FALSE,
     type |-> "NoteOn", channel |-> 0, number |-> 0]

Init ==
    /\ cc \in [CCs -> {0} \cup CCValues]       \* set_cc
    /\ state = [r \in Regions |-> LoadedState(D(r), cc, DefaultSwitch)]
    /\ voice = [v \in Voices |-> FreeVoice]
    /\ order \in Bijection(1 .. Cardinality(Voices), Voices)
    /\ noteVelocity = [k \in Notes |-> 0]
    /\ agenda = <<>>
    /\ held = {} /\ missed = {} /\ skipped = {}
    /\ notes = 0

-----------------------------------------------------------------------------
(* Tasks.                                                                    *)

RegionOn(r, channel, note, velocity, rand) ==
    [op |-> "regionOn", region |-> r, channel |-> channel, number |-> note,
     value |-> velocity, rand |-> rand]
Choke(i, group) == [op |-> "choke", index |-> i, group |-> group]
CallNoteOff(channel, note) == [op |-> "noteOff", channel |-> channel, number |-> note]
RegionOff(r, channel, note, velocity, rand) ==
    [op |-> "regionOff", region |-> r, channel |-> channel, number |-> note,
     value |-> velocity, rand |-> rand]
RegionCC(r, channel, n, value) ==
    [op |-> "regionCC", region |-> r, channel |-> channel, number |-> n, value |-> value]
Start(r, type, channel, number) ==
    [op |-> "start", region |-> r, type |-> type, channel |-> channel, number |-> number]

\* The regions at some places in the file, in the order in which loadSfzFile goes
\* through them.
InOrder(places) ==
    LET Before(i) == {j \in places : j < i}
    IN  [k \in 1 .. Cardinality(places) |->
            Instrument[CHOOSE i \in places : Cardinality(Before(i)) = k - 1]]

\* noteActivationLists and ccActivationLists, built by loadSfzFile.
NoteList(note) ==
    InOrder({i \in DOMAIN Instrument :
                \/ ContainsWithEnd(D(Instrument[i]).keyRange, note)
                \/ ContainsWithEnd(D(Instrument[i]).keyswitchRange, note)})

CCList(n) ==
    InOrder({i \in DOMAIN Instrument :
                n \in DOMAIN D(Instrument[i]).ccTriggers \cup DOMAIN D(Instrument[i]).ccConditions})

ForEach(list, Task(_)) == [i \in DOMAIN list |-> Task(list[i])]

-----------------------------------------------------------------------------
(* Voices.                                                                   *)

\* Voice::release
Released(w) == IF w.state = "playing" THEN [w EXCEPT !.state = "release"] ELSE w

\* Voice::reset.  The trigger stays.
Reset(w) == [w EXCEPT !.region = Null, !.state = "idle", !.noteIsOff = FALSE]

\* Mutant: the note-off is forgotten while the pedal is down.
AfterVoiceNoteOffForgets(w, channel, note, pedal) ==
    IF w.region = Null \/ w.state # "playing" \/ <<w.channel, w.number>> # <<channel, note>>
    THEN w
    ELSE IF ~D(w.region).oneShot /\ (~D(w.region).checkSustain \/ pedal < HalfCCThreshold)
         THEN Released([w EXCEPT !.noteIsOff = TRUE]) ELSE w

\* Voice::registerNoteOff.  The trigger is compared by channel and number, whatever
\* triggered the voice.
AfterVoiceNoteOff(w, channel, note, pedal) ==
    IF w.region = Null \/ w.state # "playing" \/ <<w.channel, w.number>> # <<channel, note>>
    THEN w
    ELSE LET off == [w EXCEPT !.noteIsOff = TRUE] IN
         IF ~D(w.region).oneShot /\ (~D(w.region).checkSustain \/ pedal < HalfCCThreshold)
         THEN Released(off) ELSE off

\* Voice::registerCC, but for the envelopes.
AfterVoiceCC(w, n, value) ==
    IF /\ w.region # Null /\ D(w.region).checkSustain /\ w.noteIsOff
       /\ n = SustainCC /\ value < HalfCCThreshold
    THEN Released(w) ELSE w

\* Voice::checkOffGroup: what it returns.
OffGroup(w, group) ==
    w.region # Null /\ w.type = "NoteOn" /\ D(w.region).offBy = group

-----------------------------------------------------------------------------
(* The handlers.                                                             *)

\* MidiState::noteOn, but for the time, and getNoteVelocity.
RecordNoteOn(note, velocity) == noteVelocity' = [noteVelocity EXCEPT ![note] = velocity]
NoteVelocity(note) == noteVelocity[note]

Idle == agenda = <<>>

NoteOn(channel, note, velocity, rand) ==
    /\ Idle
    /\ <<channel, note>> \notin held
    /\ notes < MaxNotes
    /\ RecordNoteOn(note, velocity)
    /\ agenda' = ForEach(NoteList(note),
                         LAMBDA r : RegionOn(r, channel, note, velocity, rand))
    /\ held' = held \cup {<<channel, note>>}
    /\ notes' = notes + 1
    /\ UNCHANGED <<state, voice, order, cc, missed, skipped>>

\* The gate is closed: only the velocity is recorded.
NoteOnRefused(channel, note, velocity) ==
    /\ Idle /\ GateCloses
    /\ <<channel, note>> \notin held
    /\ notes < MaxNotes
    /\ RecordNoteOn(note, velocity)
    /\ held' = held \cup {<<channel, note>>}
    /\ notes' = notes + 1
    /\ UNCHANGED <<state, voice, order, cc, agenda, missed, skipped>>

\* The body of noteOff: the voices, then the regions.
NoteOffBody(channel, note, rand, rest) ==
    /\ voice' = [v \in Voices |->
                    AfterVoiceNoteOff(voice[v], channel, note, cc[SustainCC])]
    /\ agenda' = ForEach(NoteList(note),
                         LAMBDA r : RegionOff(r, channel, note, NoteVelocity(note), rand))
                 \o rest

NoteOff(channel, note, rand) ==
    /\ Idle
    /\ <<channel, note>> \in held
    /\ NoteOffBody(channel, note, rand, <<>>)
    /\ held' = held \ {<<channel, note>>}
    /\ missed' = missed \ {<<channel, note>>}
    /\ UNCHANGED <<state, order, midiVars, skipped, notes>>

NoteOffRefused(channel, note) ==
    /\ Idle /\ GateCloses
    /\ <<channel, note>> \in held
    /\ held' = held \ {<<channel, note>>}
    /\ missed' = missed \cup {<<channel, note>>}
    /\ UNCHANGED <<state, voice, order, midiVars, agenda, skipped, notes>>

\* Mutant: the voices do not hear of the controller.
CCDeaf(channel, n, value) ==
    /\ Idle
    /\ cc' = [cc EXCEPT ![n] = value]
    /\ agenda' = ForEach(CCList(n), LAMBDA r : RegionCC(r, channel, n, value))
    /\ UNCHANGED <<state, voice, order, noteVelocity, historyVars>>

CC(channel, n, value) ==
    /\ Idle
    /\ voice' = [v \in Voices |-> AfterVoiceCC(voice[v], n, value)]
    /\ cc' = [cc EXCEPT ![n] = value]
    /\ agenda' = ForEach(CCList(n), LAMBDA r : RegionCC(r, channel, n, value))
    /\ UNCHANGED <<state, order, noteVelocity, historyVars>>

\* renderBlock: samples end, which releases their voices, and so do envelopes,
\* which resets them.
RenderBlock(ended, done) ==
    /\ Idle
    /\ ended \cup done # {}
    /\ \A v \in ended : voice[v].state = "playing" /\ D(voice[v].region).ends
    /\ \A v \in done : v \in ended \/ voice[v].state = "release"
    /\ voice' = [v \in Voices |-> IF v \in done THEN Reset(voice[v])
                                  ELSE IF v \in ended THEN Released(voice[v])
                                  ELSE voice[v]]
    /\ UNCHANGED <<state, order, midiVars, agenda, historyVars>>

-----------------------------------------------------------------------------
(* The loops of the handlers: the first task of the agenda.                  *)

Task == Head(agenda)
Rest == Tail(agenda)
Doing(op) == agenda # <<>> /\ Task.op = op

\* Mutant: the choke loop stops one voice short.
ChokeLoopShort(group) == [i \in 1 .. Cardinality(Voices) - 1 |-> Choke(i, group)]

\* for (auto& voice : voices) ... checkOffGroup(delay, region->group)
ChokeLoop(group) == [i \in 1 .. Cardinality(Voices) |-> Choke(i, group)]

\* A turn of the loop of noteOn.
DoRegionOn ==
    /\ Doing("regionOn")
    /\ LET r == Task.region
           s == AfterNoteOn(D(r), state[r], Task.channel, Task.number)
           plays == NoteOnPlays(D(r), s, Task.channel, Task.number, Task.value, Task.rand)
       IN /\ state' = [state EXCEPT ![r] = s]
          /\ agenda' = IF plays
                       THEN ChokeLoop(D(r).group)
                            \o <<Start(r, "NoteOn", Task.channel, Task.number)>> \o Rest
                       ELSE Rest
          /\ skipped' = IF plays THEN skipped \ {D(r).group} ELSE skipped
    /\ UNCHANGED <<voice, order, midiVars, held, missed, notes>>

\* Mutant: a voice that is choked is looked at again after the note-off.
DoChokeAgain ==
    /\ Doing("choke")
    /\ LET v == order[Task.index] IN
       IF OffGroup(voice[v], Task.group)
       THEN /\ voice' = [voice EXCEPT ![v] = Released(@)]
            /\ agenda' = <<CallNoteOff(voice[v].channel, voice[v].number)>> \o agenda
       ELSE agenda' = Rest /\ UNCHANGED voice
    /\ UNCHANGED <<state, order, midiVars, historyVars>>

\* A turn of the choke loop.  It looks at a place in the vector of voices, which the
\* calls it makes may have sorted since the last turn.
DoChoke ==
    /\ Doing("choke")
    /\ LET v == order[Task.index] IN
       IF OffGroup(voice[v], Task.group)
       THEN /\ voice' = [voice EXCEPT ![v] = Released(@)]
            /\ agenda' = <<CallNoteOff(voice[v].channel, voice[v].number)>> \o Rest
       ELSE agenda' = Rest /\ UNCHANGED voice
    /\ UNCHANGED <<state, order, midiVars, historyVars>>

\* noteOff, called by noteOn.
DoNoteOff(rand) ==
    /\ Doing("noteOff")
    /\ NoteOffBody(Task.channel, Task.number, rand, Rest)
    /\ UNCHANGED <<state, order, midiVars, historyVars>>

\* The gate has closed since noteOn began.
DoNoteOffRefused ==
    /\ Doing("noteOff") /\ GateCloses
    /\ agenda' = Rest
    /\ UNCHANGED <<state, voice, order, midiVars, historyVars>>

\* A turn of the loop of noteOff.
DoRegionOff ==
    /\ Doing("regionOff")
    /\ LET r == Task.region
           s == AfterNoteOff(D(r), state[r], Task.channel, Task.number)
       IN /\ state' = [state EXCEPT ![r] = s]
          /\ agenda' =
                IF NoteOffPlays(D(r), s, Task.channel, Task.number, Task.value, Task.rand)
                THEN <<Start(r, "NoteOff", Task.channel, Task.number)>> \o Rest
                ELSE Rest
    /\ UNCHANGED <<voice, order, midiVars, historyVars>>

\* A turn of the loop of cc.
DoRegionCC ==
    /\ Doing("regionCC")
    /\ LET r == Task.region
           s == AfterCC(D(r), state[r], Task.channel, Task.number, Task.value)
       IN /\ state' = [state EXCEPT ![r] = s]
          /\ agenda' = IF CCPlays(D(r), s, Task.channel, Task.number, Task.value)
                       THEN <<Start(r, "CC", Task.channel, Task.number)>> \o Rest
                       ELSE Rest
    /\ UNCHANGED <<voice, order, midiVars, historyVars>>

\* Voice::startVoice on a voice w that is free.
Started(w, task) ==
    [w EXCEPT !.region = task.region, !.state = "playing", !.type = task.type,
              !.channel = task.channel, !.number = task.number]

Free == {v \in Voices : voice[v].region = Null}

\* canBeStolen()
Stealable == {v \in Voices : voice[v].state = "release"}

FirstOf(S) ==
    order[CHOOSE i \in DOMAIN order :
             order[i] \in S /\ \A j \in DOMAIN order : order[j] \in S => i <= j]

\* findFreeVoice finds a free voice.
DoStart ==
    /\ Doing("start")
    /\ Free # {}
    /\ voice' = [voice EXCEPT ![FirstOf(Free)] = Started(@, Task)]
    /\ agenda' = Rest
    /\ UNCHANGED <<state, order, midiVars, historyVars>>

\* It finds none.  It sorts the voices by their positions (any order: positions are
\* not modelled), and steals the first quiet one of those that are released, in
\* the order before the sort; if none is, the note is lost.
DoSteal(sorted, quiet) ==
    /\ Doing("start")
    /\ Free = {}
    /\ quiet \subseteq Stealable
    /\ order' = sorted
    /\ voice' = IF quiet = {} THEN voice
                ELSE [voice EXCEPT ![FirstOf(quiet)] = Started(Reset(@), Task)]
    /\ agenda' = Rest
    /\ skipped' = skipped \cup {agenda[i].group : i \in {j \in DOMAIN agenda :
                                                            agenda[j].op = "choke"}}
    /\ UNCHANGED <<state, midiVars, held, missed, notes>>

-----------------------------------------------------------------------------
Step ==
    \/ DoRegionOn \/ DoChoke \/ DoRegionOff \/ DoRegionCC \/ DoStart
    \/ \E rand \in Rands : DoNoteOff(rand)
    \/ DoNoteOffRefused
    \/ \E sorted \in Bijection(1 .. Cardinality(Voices), Voices), quiet \in SUBSET Voices :
          DoSteal(sorted, quiet)

\* The messages that the client gets; channels count from 0 on the wire.
Messages ==
    LET Status(s, first, second) ==
            [status : {s}, channel : {n - 1 : n \in Channels}, data1 : first, data2 : second]
    IN  Status("noteOn", Notes, Velocities) \cup Status("noteOff", Notes, {0})
        \cup Status("controlChange", CCs, CCValues)

\* The loop of the client's process callback, for one message, of which the handlers
\* get the channel from 1 on.  Messages with other statuses are dropped.
Dispatch(m, rand) ==
    LET channel == m.channel + 1
    IN  \/ /\ m.status = "noteOff"
           /\ NoteOff(channel, m.data1, rand) \/ NoteOffRefused(channel, m.data1)
        \/ /\ m.status = "noteOn"
           /\ \/ NoteOn(channel, m.data1, m.data2, rand)
              \/ NoteOnRefused(channel, m.data1, m.data2)
        \/ m.status = "controlChange" /\ CC(channel, m.data1, m.data2)

Handler ==
    \/ \E m \in Messages, rand \in Rands : Dispatch(m, rand)
    \/ \E ended, done \in SUBSET Voices : RenderBlock(ended, done)

Next == Step \/ Handler

SafeSpec == Init /\ [][Next]_vars

\* A handler that has begun is run.
Spec == SafeSpec /\ WF_vars(Step)

-----------------------------------------------------------------------------
(* Properties.                                                               *)

Playing(v) == voice[v].state = "playing"

\* Between handlers a voice that plays on after its note-off is one that the pedal
\* holds, or a one-shot.
PlaysOnlyUnderPedal ==
    Idle => \A v \in Voices :
        Playing(v) /\ voice[v].noteIsOff =>
            \/ D(voice[v].region).oneShot
            \/ D(voice[v].region).checkSustain /\ cc[SustainCC] >= HalfCCThreshold

\* No stuck notes: between handlers a voice that a key started and that plays on
\* has its key down, or has had its note-off, unless the gate refused that note-off.
NoStuckNotes ==
    Idle => \A v \in Voices :
        Playing(v) /\ voice[v].type = "NoteOn" =>
            \/ <<voice[v].channel, voice[v].number>> \in held \cup missed
            \/ voice[v].noteIsOff

\* When noteOn starts a voice for a region, no voice that the region's group turns
\* off is still playing, unless a sort moved the voices under the choke loop.
ChokedBeforeStart ==
    Doing("start") /\ Task.type = "NoteOn" /\ D(Task.region).group \notin skipped =>
        \A v \in Voices : Playing(v) => ~OffGroup(voice[v], D(Task.region).group)

\* Every handler ends, although noteOn calls noteOff, which starts voices, which
\* sorts the list that noteOn goes through.
HandlersEnd == []<>Idle

\* A region counts the notes playing in its range ("Update the number of notes
\* playing for the region"): there are never fewer than none.  The counter is at -1
\* when there is none.
NotesPlayingNotNegative ==
    \A r \in Regions : state[r].activeNotesInRange >= -1

=================================================================================
