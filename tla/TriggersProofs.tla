----------------------------- MODULE TriggersProofs -----------------------------
(*****************************************************************************)
(* What holds of the regions of every instrument, under every stream of      *)
(* events.                                                                   *)
(*                                                                           *)
(* The lemmas say field by field what each register method does to a         *)
(* region; the theorems then never look inside the methods again.            *)
(*****************************************************************************)
EXTENDS Triggers, FiniteSetTheorems, TLAPS

States ==
    [keySwitched : BOOLEAN, previousKeySwitched : BOOLEAN, sequenceSwitched : BOOLEAN,
     pitchSwitched : BOOLEAN, bpmSwitched : BOOLEAN, aftertouchSwitched : BOOLEAN,
     ccOff : SUBSET CCs, activeNotesInRange : Int, sequenceCounter : Int]

Listens(d, channel, note) ==
    ContainsWithEnd(d.channelRange, channel) /\ ContainsWithEnd(d.keyRange, note)

\* A counter of the region after a note that raises it, or lowers it.
Raised(n, d, channel, note) == IF Listens(d, channel, note) THEN n + 1 ELSE n
Lowered(n, d, channel, note) == IF Listens(d, channel, note) THEN n - 1 ELSE n

\* t has the switches of s that follow controllers.
SameControls(s, t) ==
    /\ t.pitchSwitched = s.pitchSwitched /\ t.bpmSwitched = s.bpmSwitched
    /\ t.aftertouchSwitched = s.aftertouchSwitched /\ t.ccOff = s.ccOff

\* t has the switches and counters of s that follow notes.
SameNotes(s, t) ==
    /\ t.keySwitched = s.keySwitched /\ t.previousKeySwitched = s.previousKeySwitched
    /\ t.sequenceSwitched = s.sequenceSwitched
    /\ t.activeNotesInRange = s.activeNotesInRange
    /\ t.sequenceCounter = s.sequenceCounter

-----------------------------------------------------------------------------
(* The register methods, field by field.                                     *)

\* A region without sw_up and sw_down is switched by sw_last alone.
LEMMA SwitchLast ==
    ASSUME NEW d, NEW s, NEW note, note # Null,
           d.keyswitchUp = Null, d.keyswitchDown = Null
    PROVE  KeySwitchedByOn(d, s, note) =
              IF ContainsWithEnd(d.keyswitchRange, note) /\ d.keyswitch # Null
              THEN d.keyswitch = note ELSE s.keySwitched
<1>1. CASE ~ContainsWithEnd(d.keyswitchRange, note)
  BY <1>1 DEF KeySwitchedByOn
<1>2. CASE ContainsWithEnd(d.keyswitchRange, note) /\ d.keyswitch # Null
  BY <1>2 DEF KeySwitchedByOn
<1>3. CASE ContainsWithEnd(d.keyswitchRange, note) /\ d.keyswitch = Null
  BY <1>3 DEF KeySwitchedByOn
<1> QED
  BY <1>1, <1>2, <1>3

\* What registerNoteOn does to each field: t is the state after it.
NoteOnChanges(d, s, channel, note, t) ==
    /\ t \in States
    /\ SameControls(s, t)
    /\ t.activeNotesInRange =
          Raised(s.activeNotesInRange, d, channel, note)
    /\ t.sequenceCounter =
          Raised(s.sequenceCounter, d, channel, note)
    /\ t.sequenceSwitched =
          IF Listens(d, channel, note)
          THEN t.sequenceCounter % d.sequenceLength = d.sequencePosition - 1
          ELSE s.sequenceSwitched
    /\ t.keySwitched = IF ContainsWithEnd(d.channelRange, channel)
                       THEN KeySwitchedByOn(d, s, note) ELSE s.keySwitched
    /\ d.previousNote = Null => t.previousKeySwitched = s.previousKeySwitched
    /\ Listens(d, channel, note) /\ d.previousNote # Null =>
          t.previousKeySwitched = (d.previousNote = note)

\* registerNoteOn does that.
LEMMA NoteOnEffect ==
    ASSUME NEW d, NEW s \in States, NEW channel, NEW note,
           NEW t, t = AfterNoteOn(d, s, channel, note)
    PROVE  NoteOnChanges(d, s, channel, note, t)
<1>1. KeySwitchedByOn(d, s, note) \in BOOLEAN
  BY DEF KeySwitchedByOn, States
<1>2. CASE ~ContainsWithEnd(d.channelRange, channel)
  BY <1>2 DEF AfterNoteOn, States, Listens, SameControls, Raised, NoteOnChanges
<1>3. CASE ContainsWithEnd(d.channelRange, channel) /\ ~ContainsWithEnd(d.keyRange, note)
  BY <1>1, <1>3 DEF AfterNoteOn, States, Listens, SameControls, Raised, NoteOnChanges
<1>4. CASE ContainsWithEnd(d.channelRange, channel) /\ ContainsWithEnd(d.keyRange, note)
  <2> DEFINE counter == s.sequenceCounter + 1
  <2> DEFINE switched == counter % d.sequenceLength = d.sequencePosition - 1
  <2> DEFINE previous == IF d.previousNote = Null THEN s.previousKeySwitched
                         ELSE d.previousNote = note
  <2>1. t = [s EXCEPT !.keySwitched = KeySwitchedByOn(d, s, note),
                      !.activeNotesInRange = s.activeNotesInRange + 1,
                      !.sequenceCounter = counter,
                      !.sequenceSwitched = switched,
                      !.previousKeySwitched = previous]
    BY <1>4 DEF AfterNoteOn, States
  <2>2. counter \in Int /\ s.activeNotesInRange + 1 \in Int
    BY DEF States
  <2>3. switched \in BOOLEAN
    BY Zenon
  <2>4. previous \in BOOLEAN
    BY DEF States
  <2>5. /\ t.keySwitched = KeySwitchedByOn(d, s, note)
        /\ t.activeNotesInRange = s.activeNotesInRange + 1
        /\ t.sequenceCounter = counter
        /\ t.sequenceSwitched = switched
        /\ t.previousKeySwitched = previous
        /\ SameControls(s, t)
        /\ t \in States
    <3> DEFINE key == KeySwitchedByOn(d, s, note)
    <3> DEFINE active == s.activeNotesInRange + 1
    <3>1. /\ key \in BOOLEAN /\ active \in Int /\ counter \in Int
          /\ switched \in BOOLEAN /\ previous \in BOOLEAN
          /\ t = [s EXCEPT !.keySwitched = key, !.activeNotesInRange = active,
                           !.sequenceCounter = counter, !.sequenceSwitched = switched,
                           !.previousKeySwitched = previous]
      BY <1>1, <2>1, <2>2, <2>3, <2>4, Zenon
    <3> HIDE DEF counter, switched, previous, key, active
    <3>2. /\ t.keySwitched = key /\ t.activeNotesInRange = active
          /\ t.sequenceCounter = counter /\ t.sequenceSwitched = switched
          /\ t.previousKeySwitched = previous
          /\ SameControls(s, t) /\ t \in States
      BY <3>1 DEF States, SameControls
    <3> QED BY <3>2 DEF key, active
  <2> QED
    BY <1>4, <2>5 DEF NoteOnChanges, Listens, Raised
<1> QED
  BY <1>2, <1>3, <1>4

\* What registerNoteOff does to each field: t is the state after it.
NoteOffChanges(d, s, channel, note, t) ==
    /\ t \in States
    /\ SameControls(s, t)
    /\ t.activeNotesInRange =
          Lowered(s.activeNotesInRange, d, channel, note)
    /\ t.sequenceCounter = s.sequenceCounter
    /\ t.sequenceSwitched = s.sequenceSwitched
    /\ t.previousKeySwitched = s.previousKeySwitched
    /\ t.keySwitched = IF ContainsWithEnd(d.channelRange, channel)
                       THEN KeySwitchedByOff(d, s, note) ELSE s.keySwitched

\* registerNoteOff does that.
LEMMA NoteOffEffect ==
    ASSUME NEW d, NEW s \in States, NEW channel, NEW note,
           NEW t, t = AfterNoteOff(d, s, channel, note)
    PROVE  NoteOffChanges(d, s, channel, note, t)
<1>1. KeySwitchedByOff(d, s, note) \in BOOLEAN
  BY DEF KeySwitchedByOff, States
<1>2. CASE ~ContainsWithEnd(d.channelRange, channel)
  BY <1>2 DEF AfterNoteOff, States, Listens, SameControls, Lowered, NoteOffChanges
<1>3. CASE ContainsWithEnd(d.channelRange, channel)
  <2> DEFINE key == KeySwitchedByOff(d, s, note)
  <2> DEFINE active == Lowered(s.activeNotesInRange, d, channel, note)
  <2>1. active \in Int /\ key \in BOOLEAN
    BY <1>1 DEF States, Lowered
  <2>2. t = [s EXCEPT !.keySwitched = key, !.activeNotesInRange = active]
    <3>1. active = IF ContainsWithEnd(d.keyRange, note)
                   THEN s.activeNotesInRange - 1 ELSE s.activeNotesInRange
      BY <1>3 DEF Listens, States, Lowered
    <3> QED
      BY <1>3, <3>1, Zenon DEF AfterNoteOff
  <2> HIDE DEF key, active
  <2>3. /\ t \in States /\ SameControls(s, t)
        /\ t.keySwitched = key /\ t.activeNotesInRange = active
        /\ t.sequenceCounter = s.sequenceCounter
        /\ t.sequenceSwitched = s.sequenceSwitched
        /\ t.previousKeySwitched = s.previousKeySwitched
    BY <2>1, <2>2 DEF States, SameControls
  <2> QED
    BY <1>3, <2>3 DEF key, active, NoteOffChanges
<1> QED
  BY <1>2, <1>3

\* What registerCC does to each field: t is the state after it.
CCChanges(d, s, channel, cc, value, t) ==
    /\ t \in States
    /\ SameNotes(s, t)
    /\ t.pitchSwitched = s.pitchSwitched /\ t.bpmSwitched = s.bpmSwitched
    /\ t.aftertouchSwitched = s.aftertouchSwitched
    /\ t.ccOff = IF ~ContainsWithEnd(d.channelRange, channel) THEN s.ccOff
                 ELSE IF /\ cc \in DOMAIN d.ccConditions
                         /\ ~ContainsWithEnd(d.ccConditions[cc], value)
                      THEN s.ccOff \cup {cc} ELSE s.ccOff \ {cc}

\* registerCC does that.
LEMMA CCEffect ==
    ASSUME NEW d, NEW s \in States, NEW channel, NEW cc \in CCs, NEW value,
           NEW t, t = AfterCC(d, s, channel, cc, value)
    PROVE  CCChanges(d, s, channel, cc, value, t)
  BY DEF CCChanges, AfterCC, States, SameNotes

\* What registerPitchWheel does to each field.
LEMMA PitchWheelEffect ==
    ASSUME NEW d, NEW s \in States, NEW channel, NEW pitch,
           NEW t, t = AfterPitchWheel(d, s, channel, pitch)
    PROVE  /\ t \in States
           /\ SameNotes(s, t)
           /\ t.bpmSwitched = s.bpmSwitched /\ t.aftertouchSwitched = s.aftertouchSwitched
           /\ t.ccOff = s.ccOff
           /\ t.pitchSwitched = IF ContainsWithEnd(d.channelRange, channel)
                                THEN ContainsWithEnd(d.bendRange, pitch)
                                ELSE s.pitchSwitched
<1>1. ContainsWithEnd(d.bendRange, pitch) \in BOOLEAN
  BY DEF ContainsWithEnd
<1> QED
  BY <1>1 DEF AfterPitchWheel, States, SameNotes

\* What registerAftertouch does to each field.
LEMMA AftertouchEffect ==
    ASSUME NEW d, NEW s \in States, NEW channel, NEW value,
           NEW t, t = AfterAftertouch(d, s, channel, value)
    PROVE  /\ t \in States
           /\ SameNotes(s, t)
           /\ t.bpmSwitched = s.bpmSwitched /\ t.pitchSwitched = s.pitchSwitched
           /\ t.ccOff = s.ccOff
           /\ t.aftertouchSwitched = IF ContainsWithEnd(d.channelRange, channel)
                                     THEN ContainsWithEnd(d.aftertouchRange, value)
                                     ELSE s.aftertouchSwitched
<1>1. ContainsWithEnd(d.aftertouchRange, value) \in BOOLEAN
  BY DEF ContainsWithEnd
<1> QED
  BY <1>1 DEF AfterAftertouch, States, SameNotes

\* What registerTempo does to each field.
LEMMA TempoEffect ==
    ASSUME NEW d, NEW s \in States, NEW bpm, NEW t, t = AfterTempo(d, s, bpm)
    PROVE  /\ t \in States
           /\ SameNotes(s, t)
           /\ t.pitchSwitched = s.pitchSwitched
           /\ t.aftertouchSwitched = s.aftertouchSwitched
           /\ t.ccOff = s.ccOff
           /\ t.bpmSwitched = ContainsWithEnd(d.bpmRange, bpm)
<1>1. ContainsWithEnd(d.bpmRange, bpm) \in BOOLEAN
  BY DEF ContainsWithEnd
<1> QED
  BY <1>1 DEF AfterTempo, States, SameNotes

\* The state t that a load leaves, field by field.
LoadChanges(d, initial, t) ==
    /\ t \in States
    /\ t.activeNotesInRange = -1
    /\ t.sequenceCounter =
          IF DefaultSwitch # Null /\ Listens(d, d.channelRange[1], DefaultSwitch)
          THEN 1 ELSE 0
    /\ d.previousNote = Null => t.previousKeySwitched
    /\ t.ccOff = {cc \in DOMAIN initial \ {0} : /\ cc \in DOMAIN d.ccConditions
                                      /\ ~ContainsWithEnd(d.ccConditions[cc], initial[cc])}
    /\ t.pitchSwitched = ContainsWithEnd(d.bendRange, 0)
    /\ t.aftertouchSwitched = ContainsWithEnd(d.aftertouchRange, 0)
    /\ t.bpmSwitched = ContainsWithEnd(d.bpmRange, 30)
    /\ d.keyswitchUp = Null /\ d.keyswitchDown = Null =>
          t.keySwitched =
             IF /\ DefaultSwitch # Null /\ d.keyswitch # Null
                /\ ContainsWithEnd(d.keyswitchRange, DefaultSwitch)
             THEN d.keyswitch = DefaultSwitch
             ELSE d.keyswitch = Null

\* A load does that.
LEMMA LoadEffect ==
    ASSUME NEW r \in Regions, NEW d, d = D(r), NEW initial, DOMAIN initial = CCs,
           NEW t, t = LoadedState(d, initial, DefaultSwitch)
    PROVE  LoadChanges(d, initial, t)
<1> DEFINE channel == d.channelRange[1]
<1> DEFINE s0 == InitialState(d)
<1> DEFINE s1 == LoadCCs(d, s0, initial)
<1> DEFINE s2 == LoadSwitch(d, s1, DefaultSwitch)
<1> DEFINE s3 == AfterPitchWheel(d, s2, channel, 0)
<1> DEFINE s4 == AfterAftertouch(d, s3, channel, 0)
<1>0. ContainsWithEnd(d.channelRange, channel)
  BY InstrumentAssumption DEF DescriptionAssumption, ContainsWithEnd
<1>1. s0 \in States /\ s0.activeNotesInRange = -1 /\ s0.sequenceCounter = 0 /\ s0.ccOff = {}
      /\ s0.keySwitched = (d.keyswitch = Null /\ d.keyswitchDown = Null)
      /\ s0.previousKeySwitched = (d.previousNote = Null)
  BY DEF InitialState, States
<1> HIDE DEF s0
<1>2. /\ s1 \in States /\ SameNotes(s0, s1)
      /\ s1.ccOff = {cc \in DOMAIN initial \ {0} : /\ cc \in DOMAIN d.ccConditions
                                        /\ ~ContainsWithEnd(d.ccConditions[cc], initial[cc])}
  <2>1. ASSUME NEW cc \in CCs
        PROVE  AfterCC(d, s0, channel, cc, initial[cc]).ccOff # {} <=>
                  cc \in DOMAIN d.ccConditions /\ ~ContainsWithEnd(d.ccConditions[cc], initial[cc])
    <3> DEFINE t1 == AfterCC(d, s0, channel, cc, initial[cc])
    <3>1. t1.ccOff = IF /\ cc \in DOMAIN d.ccConditions
                        /\ ~ContainsWithEnd(d.ccConditions[cc], initial[cc])
                     THEN s0.ccOff \cup {cc} ELSE s0.ccOff \ {cc}
      BY <1>0, <1>1 DEF AfterCC, States
    <3> QED
      BY <1>1, <3>1
  <2>2. s1 = [s0 EXCEPT !.ccOff = {cc \in DOMAIN initial \ {0} :
                            AfterCC(d, s0, channel, cc, initial[cc]).ccOff # {}}]
    BY DEF LoadCCs
  <2>3. {cc \in DOMAIN initial \ {0} : AfterCC(d, s0, channel, cc, initial[cc]).ccOff # {}} =
           {cc \in DOMAIN initial \ {0} : /\ cc \in DOMAIN d.ccConditions
                               /\ ~ContainsWithEnd(d.ccConditions[cc], initial[cc])}
    BY <2>1
  <2> HIDE DEF s1, channel
  <2> QED
    BY <1>1, <2>2, <2>3 DEF States, SameNotes
<1> HIDE DEF s1
<1>3. /\ s2 \in States /\ s2.ccOff = s1.ccOff /\ s2.activeNotesInRange = -1
      /\ s2.sequenceCounter =
            IF DefaultSwitch # Null /\ Listens(d, channel, DefaultSwitch) THEN 1 ELSE 0
      /\ d.previousNote = Null => s2.previousKeySwitched
      /\ d.keyswitchUp = Null /\ d.keyswitchDown = Null =>
            s2.keySwitched =
               IF /\ DefaultSwitch # Null /\ d.keyswitch # Null
                  /\ ContainsWithEnd(d.keyswitchRange, DefaultSwitch)
               THEN d.keyswitch = DefaultSwitch
               ELSE d.keyswitch = Null
  <2>1. CASE DefaultSwitch = Null
    BY <1>1, <1>2, <2>1 DEF LoadSwitch, SameNotes
  <2>2. CASE DefaultSwitch # Null
    <3> DEFINE on == AfterNoteOn(d, s1, channel, DefaultSwitch)
    <3> DEFINE off == AfterNoteOff(d, on, channel, DefaultSwitch)
    <3>1. s2 = off
      BY <2>2 DEF LoadSwitch
    <3>2. /\ on \in States /\ SameControls(s1, on)
          /\ on.activeNotesInRange =
                Raised(s1.activeNotesInRange, d, channel, DefaultSwitch)
          /\ on.sequenceCounter =
                Raised(s1.sequenceCounter, d, channel, DefaultSwitch)
          /\ on.keySwitched = KeySwitchedByOn(d, s1, DefaultSwitch)
          /\ d.previousNote = Null => on.previousKeySwitched = s1.previousKeySwitched
      BY <1>0, <1>2, NoteOnEffect DEF NoteOnChanges
    <3> HIDE DEF on
    <3>3. /\ off \in States /\ SameControls(on, off)
          /\ off.activeNotesInRange =
                Lowered(on.activeNotesInRange, d, channel, DefaultSwitch)
          /\ off.sequenceCounter = on.sequenceCounter
          /\ off.keySwitched = KeySwitchedByOff(d, on, DefaultSwitch)
          /\ off.previousKeySwitched = on.previousKeySwitched
      BY <1>0, <3>2, NoteOffEffect DEF NoteOffChanges
    <3> HIDE DEF off
    <3>4. ASSUME d.keyswitchUp = Null, d.keyswitchDown = Null
          PROVE  off.keySwitched =
                    IF d.keyswitch # Null /\ ContainsWithEnd(d.keyswitchRange, DefaultSwitch)
                    THEN d.keyswitch = DefaultSwitch ELSE d.keyswitch = Null
      <4>1. off.keySwitched = on.keySwitched
        BY <2>2, <3>3, <3>4 DEF KeySwitchedByOff
      <4>2. s1.keySwitched = (d.keyswitch = Null)
        BY <1>1, <1>2, <3>4 DEF SameNotes
      <4>3. KeySwitchedByOn(d, s1, DefaultSwitch) =
               IF ContainsWithEnd(d.keyswitchRange, DefaultSwitch) /\ d.keyswitch # Null
               THEN d.keyswitch = DefaultSwitch ELSE s1.keySwitched
        BY <2>2, <3>4, SwitchLast
      <4> QED
        BY <3>2, <4>1, <4>2, <4>3
    <3> HIDE DEF channel, s2
    <3>5. s1.activeNotesInRange = -1 /\ s1.sequenceCounter = 0
      BY <1>1, <1>2 DEF SameNotes
    <3>6. s2.activeNotesInRange = -1 /\ s2.sequenceCounter =
            IF DefaultSwitch # Null /\ Listens(d, channel, DefaultSwitch) THEN 1 ELSE 0
      BY <2>2, <3>1, <3>2, <3>3, <3>5 DEF Raised, Lowered
    <3>7. s2 \in States /\ s2.ccOff = s1.ccOff
      BY <3>1, <3>2, <3>3 DEF SameControls
    <3>8. d.previousNote = Null => s2.previousKeySwitched
      BY <1>1, <1>2, <3>1, <3>2, <3>3 DEF SameNotes
    <3> QED
      BY <2>2, <3>1, <3>4, <3>6, <3>7, <3>8
  <2> QED
    BY <2>1, <2>2
<1> HIDE DEF s2
<1>4. /\ s3 \in States /\ SameNotes(s2, s3) /\ s3.ccOff = s2.ccOff
      /\ s3.pitchSwitched = ContainsWithEnd(d.bendRange, 0)
  BY <1>0, <1>3, PitchWheelEffect
<1> HIDE DEF s3
<1>5. /\ s4 \in States /\ SameNotes(s3, s4) /\ s4.ccOff = s3.ccOff
      /\ s4.pitchSwitched = s3.pitchSwitched
      /\ s4.aftertouchSwitched = ContainsWithEnd(d.aftertouchRange, 0)
  BY <1>0, <1>4, AftertouchEffect
<1> HIDE DEF s4
<1>6. /\ t \in States /\ SameNotes(s4, t) /\ t.ccOff = s4.ccOff
      /\ t.pitchSwitched = s4.pitchSwitched
      /\ t.aftertouchSwitched = s4.aftertouchSwitched
      /\ t.bpmSwitched = ContainsWithEnd(d.bpmRange, 30)
  <2>1. t = AfterTempo(d, s4, 30)
    BY DEF LoadedState, Registered, s0, s1, s2, s3, s4
  <2> QED
    BY <1>5, <2>1, TempoEffect
<1> HIDE DEF channel
<1>7. SameNotes(s2, t) /\ t.ccOff = s1.ccOff
  BY <1>3, <1>4, <1>5, <1>6 DEF SameNotes
<1> QED
  BY <1>2, <1>3, <1>4, <1>5, <1>6, <1>7 DEF LoadChanges, SameNotes, channel

\* Every region starts in such a state, for the same values of the controllers.
LEMMA InitLoads ==
    ASSUME Init
    PROVE  \E initial :
              /\ DOMAIN initial = CCs
              /\ \A r \in Regions : LoadChanges(D(r), initial, state[r])
              /\ inputs = [c \in Channels |->
                              [cc |-> initial, bend |-> 0, aftertouch |-> 0, tempo |-> 30]]
<1>1. PICK initial \in SetCCs :
         /\ state = [r \in Regions |-> LoadedState(D(r), initial, DefaultSwitch)]
         /\ inputs = [c \in Channels |->
                         [cc |-> initial, bend |-> 0, aftertouch |-> 0, tempo |-> 30]]
  BY DEF Init
<1>2. DOMAIN initial = CCs
  BY DEF SetCCs
<1>3. ASSUME NEW r \in Regions PROVE LoadChanges(D(r), initial, state[r])
  <2>1. PICK d, t : d = D(r) /\ t = state[r]
    OBVIOUS
  <2>2. t = LoadedState(d, initial, DefaultSwitch)
    BY <1>1, <2>1
  <2> QED
    BY <1>2, <2>1, <2>2, LoadEffect
<1> QED
  BY <1>1, <1>2, <1>3

-----------------------------------------------------------------------------
(* The invariants.                                                           *)

\* The counters of a region follow the keys and the notes.
Counting ==
    \A r \in Regions :
        /\ state[r] \in States
        /\ state[r].activeNotesInRange = Cardinality(HeldIn(r)) - 1
        /\ 0 <= state[r].sequenceCounter /\ state[r].sequenceCounter <= notes + 1

\* Keys are finitely many, and each was counted when it went down.
Keys ==
    /\ held \subseteq Channels \X Notes
    /\ IsFiniteSet(held) /\ Cardinality(held) <= notes
    /\ notes \in 0 .. MaxNotes

CountInv == DOMAIN state = Regions /\ played \subseteq Regions /\ Keys /\ Counting

-----------------------------------------------------------------------------
\* The counting invariant holds after a load.
LEMMA CountInit == Init => CountInv
<1> SUFFICES ASSUME Init PROVE CountInv
  OBVIOUS
<1>1. DOMAIN state = Regions /\ played \subseteq Regions /\ held = {} /\ notes = 0
  BY DEF Init
<1>0. PICK initial : \A r \in Regions : LoadChanges(D(r), initial, state[r])
  BY InitLoads
<1>2. Keys
  BY <1>1, FS_EmptySet, InstrumentAssumption DEF Keys
<1>3. ASSUME NEW r \in Regions
      PROVE  /\ state[r] \in States
             /\ state[r].activeNotesInRange = -1
             /\ 0 <= state[r].sequenceCounter /\ state[r].sequenceCounter <= 1
  <2>1. LoadChanges(D(r), initial, state[r])
    BY <1>0
  <2> QED
    BY <2>1 DEF LoadChanges
<1>4. ASSUME NEW r \in Regions PROVE Cardinality(HeldIn(r)) = 0
  BY <1>1, FS_EmptySet DEF HeldIn
<1> QED
  BY <1>1, <1>2, <1>3, <1>4 DEF CountInv, Counting

\* An action that leaves keys and counters alone keeps the counting invariant.
LEMMA CountFrame ==
    ASSUME CountInv, UNCHANGED <<held, notes>>, DOMAIN state' = Regions, played' \subseteq Regions,
           \A r \in Regions : state'[r] \in States /\ SameNotes(state[r], state'[r])
    PROVE  CountInv'
<1>1. \A r \in Regions : HeldIn(r)' = HeldIn(r)
  BY DEF HeldIn
<1>2. Keys'
  BY DEF CountInv, Keys
<1>3. Counting'
  BY <1>1 DEF CountInv, Counting, SameNotes
<1> QED
  BY <1>2, <1>3 DEF CountInv

\* A key that goes down is one more, for the regions that listen to it.
LEMMA CountNoteOn ==
    ASSUME CountInv, NEW channel \in Channels, NEW note \in Notes, NEW velocity, NEW rand,
           NoteOn(channel, note, velocity, rand)
    PROVE  CountInv'
<1> DEFINE k == <<channel, note>>
<1>1. k \notin held /\ notes < MaxNotes /\ held' = held \cup {k} /\ notes' = notes + 1
      /\ DOMAIN state' = Regions /\ played' \subseteq Regions
  BY DEF NoteOn
<1>2. /\ IsFiniteSet(held') /\ Cardinality(held') = Cardinality(held) + 1
      /\ Cardinality(held) \in Nat
  BY <1>1, FS_AddElement, FS_CardinalityType DEF CountInv, Keys
<1>3. Keys'
  BY <1>1, <1>2, InstrumentAssumption DEF CountInv, Keys
<1>4. ASSUME NEW r \in Regions
      PROVE  /\ state'[r] \in States
             /\ state'[r].activeNotesInRange = Cardinality(HeldIn(r)') - 1
             /\ 0 <= state'[r].sequenceCounter /\ state'[r].sequenceCounter <= notes' + 1
  <2>1. state'[r] = AfterNoteOn(D(r), state[r], channel, note)
    BY DEF NoteOn
  <2>2. /\ state'[r] \in States
        /\ state'[r].activeNotesInRange =
              Raised(state[r].activeNotesInRange, D(r), channel, note)
        /\ state'[r].sequenceCounter =
              Raised(state[r].sequenceCounter, D(r), channel, note)
    <3>1. state[r] \in States
      BY DEF CountInv, Counting
    <3>2. PICK t : t = state'[r]
      OBVIOUS
    <3>3. NoteOnChanges(D(r), state[r], channel, note, t)
      BY <2>1, <3>1, <3>2, NoteOnEffect
    <3> QED
      BY <3>2, <3>3 DEF NoteOnChanges
  <2>3. IsFiniteSet(HeldIn(r)) /\ k \notin HeldIn(r)
    BY <1>1, FS_Subset DEF HeldIn, CountInv, Keys
  <2>4. HeldIn(r)' = IF Listens(D(r), channel, note) THEN HeldIn(r) \cup {k} ELSE HeldIn(r)
    BY <1>1 DEF HeldIn, Listens
  <2>5. Cardinality(HeldIn(r)') =
           Raised(Cardinality(HeldIn(r)), D(r), channel, note)
    BY <2>3, <2>4, FS_AddElement, FS_CardinalityType DEF Raised, Lowered
  <2>6. Cardinality(HeldIn(r)) \in Nat /\ notes \in Int /\ state[r].sequenceCounter \in Int
    BY <2>3, FS_CardinalityType DEF CountInv, Keys, Counting, States
  <2> HIDE DEF k
  <2> QED
    BY <1>1, <2>2, <2>5, <2>6 DEF CountInv, Counting, Raised, Lowered
<1> QED
  BY <1>1, <1>3, <1>4 DEF CountInv, Counting

\* A key that goes up is one less.
LEMMA CountNoteOff ==
    ASSUME CountInv, NEW channel \in Channels, NEW note \in Notes, NEW velocity, NEW rand,
           NoteOff(channel, note, velocity, rand)
    PROVE  CountInv'
<1> DEFINE k == <<channel, note>>
<1>1. k \in held /\ held' = held \ {k} /\ notes' = notes
      /\ DOMAIN state' = Regions /\ played' \subseteq Regions
  BY DEF NoteOff
<1>2. /\ IsFiniteSet(held') /\ Cardinality(held') = Cardinality(held) - 1
      /\ Cardinality(held) \in Nat
  BY <1>1, FS_RemoveElement, FS_CardinalityType DEF CountInv, Keys
<1>3. Keys'
  BY <1>1, <1>2, InstrumentAssumption DEF CountInv, Keys
<1>4. ASSUME NEW r \in Regions
      PROVE  /\ state'[r] \in States
             /\ state'[r].activeNotesInRange = Cardinality(HeldIn(r)') - 1
             /\ 0 <= state'[r].sequenceCounter /\ state'[r].sequenceCounter <= notes' + 1
  <2>1. state'[r] = AfterNoteOff(D(r), state[r], channel, note)
    BY DEF NoteOff
  <2>2. /\ state'[r] \in States
        /\ state'[r].activeNotesInRange =
              Lowered(state[r].activeNotesInRange, D(r), channel, note)
        /\ state'[r].sequenceCounter = state[r].sequenceCounter
    <3>1. state[r] \in States
      BY DEF CountInv, Counting
    <3>2. PICK t : t = state'[r]
      OBVIOUS
    <3>3. NoteOffChanges(D(r), state[r], channel, note, t)
      BY <2>1, <3>1, <3>2, NoteOffEffect
    <3> QED
      BY <3>2, <3>3 DEF NoteOffChanges
  <2>3. IsFiniteSet(HeldIn(r)) /\ (k \in HeldIn(r) <=> Listens(D(r), channel, note))
    BY <1>1, FS_Subset DEF HeldIn, CountInv, Keys, Listens
  <2>4. HeldIn(r)' = HeldIn(r) \ {k}
    BY <1>1 DEF HeldIn
  <2>5. Cardinality(HeldIn(r)') =
           Lowered(Cardinality(HeldIn(r)), D(r), channel, note)
    BY <2>3, <2>4, FS_RemoveElement, FS_CardinalityType DEF Raised, Lowered
  <2>6. Cardinality(HeldIn(r)) \in Nat
    BY <2>3, FS_CardinalityType
  <2> HIDE DEF k
  <2> QED
    BY <1>1, <2>2, <2>5, <2>6 DEF CountInv, Counting, Raised, Lowered
<1> QED
  BY <1>1, <1>3, <1>4 DEF CountInv, Counting

\* Every step keeps the counting invariant.
LEMMA CountStep == CountInv /\ [Next]_vars => CountInv'
<1> SUFFICES ASSUME CountInv, [Next]_vars PROVE CountInv'
  OBVIOUS
<1>1. ASSUME NEW channel \in Channels, NEW note \in Notes, NEW velocity \in Velocities,
             NEW rand \in Rands,
             NoteOn(channel, note, velocity, rand) \/ NoteOff(channel, note, velocity, rand)
      PROVE  CountInv'
  BY <1>1, CountNoteOn, CountNoteOff
<1>2. ASSUME NEW channel \in Channels, NEW cc \in CCs, NEW value \in CCValues,
             CC(channel, cc, value)
      PROVE  CountInv'
  <2>1. UNCHANGED <<held, notes>> /\ DOMAIN state' = Regions /\ played' \subseteq Regions
    BY <1>2 DEF CC
  <2>2. ASSUME NEW r \in Regions PROVE state'[r] \in States /\ SameNotes(state[r], state'[r])
    <3>0. PICK d, s, t : d = D(r) /\ s = state[r] /\ t = state'[r]
      OBVIOUS
    <3>1. s \in States /\ t = AfterCC(d, s, channel, cc, value)
      BY <3>0, <1>2 DEF CC, CountInv, Counting
    <3>2. t \in States /\ SameNotes(s, t)
      BY <3>1, CCEffect DEF CCChanges
    <3> QED
      BY <3>0, <3>2
  <2> QED
    BY <2>1, <2>2, CountFrame
<1>3. ASSUME NEW channel \in Channels, NEW pitch \in Bends, PitchWheel(channel, pitch)
      PROVE  CountInv'
  <2>1. UNCHANGED <<held, notes>> /\ DOMAIN state' = Regions /\ played' \subseteq Regions
    BY <1>3 DEF PitchWheel, Silent
  <2>2. ASSUME NEW r \in Regions PROVE state'[r] \in States /\ SameNotes(state[r], state'[r])
    <3>0. PICK d, s, t : d = D(r) /\ s = state[r] /\ t = state'[r]
      OBVIOUS
    <3>1. s \in States /\ t = AfterPitchWheel(d, s, channel, pitch)
      BY <3>0, <1>3 DEF PitchWheel, CountInv, Counting
    <3>2. t \in States /\ SameNotes(s, t)
      BY <3>1, PitchWheelEffect
    <3> QED
      BY <3>0, <3>2
  <2> QED
    BY <2>1, <2>2, CountFrame
<1>4. ASSUME NEW channel \in Channels, NEW value \in Aftertouches, Aftertouch(channel, value)
      PROVE  CountInv'
  <2>1. UNCHANGED <<held, notes>> /\ DOMAIN state' = Regions /\ played' \subseteq Regions
    BY <1>4 DEF Aftertouch, Silent
  <2>2. ASSUME NEW r \in Regions PROVE state'[r] \in States /\ SameNotes(state[r], state'[r])
    <3>0. PICK d, s, t : d = D(r) /\ s = state[r] /\ t = state'[r]
      OBVIOUS
    <3>1. s \in States /\ t = AfterAftertouch(d, s, channel, value)
      BY <3>0, <1>4 DEF Aftertouch, CountInv, Counting
    <3>2. t \in States /\ SameNotes(s, t)
      BY <3>1, AftertouchEffect
    <3> QED
      BY <3>0, <3>2
  <2> QED
    BY <2>1, <2>2, CountFrame
<1>5. ASSUME NEW bpm \in Tempos, Tempo(bpm)
      PROVE  CountInv'
  <2>1. UNCHANGED <<held, notes>> /\ DOMAIN state' = Regions /\ played' \subseteq Regions
    BY <1>5 DEF Tempo, Silent
  <2>2. ASSUME NEW r \in Regions PROVE state'[r] \in States /\ SameNotes(state[r], state'[r])
    <3>0. PICK d, s, t : d = D(r) /\ s = state[r] /\ t = state'[r]
      OBVIOUS
    <3>1. s \in States /\ t = AfterTempo(d, s, bpm)
      BY <3>0, <1>5 DEF Tempo, CountInv, Counting
    <3>2. t \in States /\ SameNotes(s, t)
      BY <3>1, TempoEffect
    <3> QED
      BY <3>0, <3>2
  <2> QED
    BY <2>1, <2>2, CountFrame
<1>6. CASE UNCHANGED vars
  BY <1>6, CountFrame DEF vars, CountInv, Counting, SameNotes
<1> QED
  BY <1>1, <1>2, <1>3, <1>4, <1>5, <1>6 DEF Next

\* The hidden counter of every region counts the keys down in its range.
THEOREM CountInvariant == Spec => []CountInv
<1> QED
  BY CountInit, CountStep, PTL DEF Spec

\* Type correctness.  The bound on the counters needs the keys to be counted.
THEOREM TypeCorrect == Spec => []TypeOK
<1>1. CountInv => TypeOK
  <2> SUFFICES ASSUME CountInv PROVE TypeOK
    OBVIOUS
  <2>1. ASSUME NEW r \in Regions PROVE state[r].activeNotesInRange \in -1 .. MaxNotes
    <3>1. /\ IsFiniteSet(held) /\ HeldIn(r) \subseteq held
          /\ Cardinality(held) <= notes /\ notes \in 0 .. MaxNotes
      BY DEF CountInv, Keys, HeldIn
    <3>2. Cardinality(HeldIn(r)) <= Cardinality(held)
      BY <3>1, FS_Subset
    <3>3. Cardinality(HeldIn(r)) \in Nat /\ Cardinality(held) \in Nat
      BY <3>1, FS_Subset, FS_CardinalityType
    <3> QED
      BY <3>1, <3>2, <3>3, InstrumentAssumption DEF CountInv, Counting
  <2>2. ASSUME NEW r \in Regions
        PROVE  state[r].sequenceCounter \in 0 .. MaxNotes + 1 /\ state[r].ccOff \subseteq CCs
    BY InstrumentAssumption DEF CountInv, Counting, Keys, States
  <2> QED
    BY <2>1, <2>2 DEF TypeOK, CountInv, Keys
<1> QED
  BY <1>1, CountInvariant, PTL

\* ActiveNotesCountHeld, for every instrument.
THEOREM ActiveNotesCountHeldHolds == Spec => []ActiveNotesCountHeld
<1>1. CountInv => ActiveNotesCountHeld
  BY DEF CountInv, Counting, ActiveNotesCountHeld
<1> QED
  BY <1>1, CountInvariant, PTL

-----------------------------------------------------------------------------
(* Which regions play.                                                       *)

\* A region that no switch turns off has every switch on, but for the sequence.
PlainOn(s) ==
    /\ s.keySwitched /\ s.previousKeySwitched
    /\ s.pitchSwitched /\ s.bpmSwitched /\ s.aftertouchSwitched
    /\ s.ccOff = {}

PlainInv == \A r \in Regions : Unconditional(D(r)) => PlainOn(state[r])

\* A region without switches is switched on by a load.
LEMMA PlainInit == Init => PlainInv
<1> SUFFICES ASSUME Init, NEW r \in Regions, Unconditional(D(r))
             PROVE  PlainOn(state[r])
  BY DEF PlainInv
<1>1. PICK d, t : d = D(r) /\ t = state[r]
  OBVIOUS
<1>2. PICK initial : LoadChanges(d, initial, t)
  BY <1>1, InitLoads
<1>3. /\ d.previousNote = Null /\ d.keyswitch = Null
      /\ d.keyswitchUp = Null /\ d.keyswitchDown = Null
      /\ DOMAIN d.ccConditions = {}
      /\ ContainsWithEnd(d.bendRange, 0) /\ ContainsWithEnd(d.aftertouchRange, 0)
      /\ ContainsWithEnd(d.bpmRange, 30)
  BY <1>1 DEF Unconditional
<1>4. t.ccOff = {}
  BY <1>2, <1>3 DEF LoadChanges
<1>5. t.previousKeySwitched /\ t.keySwitched
  BY <1>2, <1>3 DEF LoadChanges
<1>6. t.pitchSwitched /\ t.aftertouchSwitched /\ t.bpmSwitched
  BY <1>2, <1>3, Zenon DEF LoadChanges
<1> QED
  BY <1>1, <1>4, <1>5, <1>6 DEF PlainOn

\* No step switches such a region off.
LEMMA PlainStep == CountInv /\ PlainInv /\ [Next]_vars => PlainInv'
<1> SUFFICES ASSUME CountInv, [Next]_vars,
                    NEW r \in Regions, Unconditional(D(r)), PlainOn(state[r])
             PROVE  PlainOn(state'[r])
  BY DEF PlainInv
<1>1. PICK d, s, t : d = D(r) /\ s = state[r] /\ t = state'[r]
  OBVIOUS
<1>2. s \in States /\ PlainOn(s) /\ Unconditional(d)
  BY <1>1 DEF CountInv, Counting
<1>3. ASSUME NEW channel \in Channels, NEW note \in Notes, NEW velocity \in Velocities,
             NEW rand \in Rands, NoteOn(channel, note, velocity, rand)
      PROVE  PlainOn(t)
  <2>1. t = AfterNoteOn(d, s, channel, note)
    BY <1>1, <1>3 DEF NoteOn
  <2>2. NoteOnChanges(d, s, channel, note, t)
    BY <1>2, <2>1, NoteOnEffect
  <2>3. KeySwitchedByOn(d, s, note) = s.keySwitched
    BY <1>2, InstrumentAssumption DEF KeySwitchedByOn, Unconditional
  <2>4. t.keySwitched = s.keySwitched
    BY <2>2, <2>3 DEF NoteOnChanges
  <2> QED
    BY <1>2, <2>2, <2>4 DEF PlainOn, NoteOnChanges, SameControls, Unconditional
<1>4. ASSUME NEW channel \in Channels, NEW note \in Notes, NEW velocity \in Velocities,
             NEW rand \in Rands, NoteOff(channel, note, velocity, rand)
      PROVE  PlainOn(t)
  <2>1. t = AfterNoteOff(d, s, channel, note)
    BY <1>1, <1>4 DEF NoteOff
  <2>2. NoteOffChanges(d, s, channel, note, t)
    BY <1>2, <2>1, NoteOffEffect
  <2>3. KeySwitchedByOff(d, s, note) = s.keySwitched
    BY <1>2, InstrumentAssumption DEF KeySwitchedByOff, Unconditional
  <2>4. t.keySwitched = s.keySwitched
    BY <2>2, <2>3 DEF NoteOffChanges
  <2> QED
    BY <1>2, <2>2, <2>4 DEF PlainOn, NoteOffChanges, SameControls
<1>5. ASSUME NEW channel \in Channels, NEW cc \in CCs, NEW value \in CCValues,
             CC(channel, cc, value)
      PROVE  PlainOn(t)
  <2>1. t = AfterCC(d, s, channel, cc, value)
    BY <1>1, <1>5 DEF CC
  <2>2. CCChanges(d, s, channel, cc, value, t)
    BY <1>2, <2>1, CCEffect
  <2>3. t.ccOff = {}
    BY <1>2, <2>2 DEF CCChanges, PlainOn, Unconditional
  <2> QED
    BY <1>2, <2>2, <2>3, Zenon DEF CCChanges, PlainOn, SameNotes
<1>6. ASSUME NEW channel \in Channels, NEW pitch \in Bends, PitchWheel(channel, pitch)
      PROVE  PlainOn(t)
  <2>1. t = AfterPitchWheel(d, s, channel, pitch)
    BY <1>1, <1>6 DEF PitchWheel
  <2> QED
    BY <1>2, <2>1, PitchWheelEffect DEF PlainOn, SameNotes, Unconditional
<1>7. ASSUME NEW channel \in Channels, NEW value \in Aftertouches, Aftertouch(channel, value)
      PROVE  PlainOn(t)
  <2>1. t = AfterAftertouch(d, s, channel, value)
    BY <1>1, <1>7 DEF Aftertouch
  <2> QED
    BY <1>2, <2>1, AftertouchEffect DEF PlainOn, SameNotes, Unconditional
<1>8. ASSUME NEW bpm \in Tempos, Tempo(bpm)
      PROVE  PlainOn(t)
  <2>1. t = AfterTempo(d, s, bpm)
    BY <1>1, <1>8 DEF Tempo
  <2> QED
    BY <1>2, <2>1, TempoEffect DEF PlainOn, SameNotes, Unconditional
<1>9. CASE UNCHANGED vars
  BY <1>1, <1>2, <1>9 DEF vars
<1> QED
  BY <1>1, <1>3, <1>4, <1>5, <1>6, <1>7, <1>8, <1>9 DEF Next

\* A note plays a plain region if it is for the region, the sequence is at the
\* region and the trigger fits.
LEMMA PlainPlays ==
    ASSUME NEW d, NEW t, Unconditional(d), PlainOn(t),
           NEW channel, NEW note, NEW velocity \in Velocities, NEW rand \in Rands
    PROVE  NoteOnPlays(d, t, channel, note, velocity, rand) <=>
              Listens(d, channel, note) /\ t.sequenceSwitched /\ TriggersOnNote(d, t)
  BY DEF NoteOnPlays, IsSwitchedOn, PlainOn, PreviousNoteOk, Unconditional, Listens

PlayInv == CountInv /\ PlainInv

\* The counting invariant and the plain regions.
LEMMA PlayInvariant == Spec => []PlayInv
<1>1. Init => PlayInv
  BY CountInit, PlainInit DEF PlayInv
<1>2. PlayInv /\ [Next]_vars => PlayInv'
  BY CountStep, PlainStep DEF PlayInv
<1> QED
  BY <1>1, <1>2, PTL DEF Spec

\* A property of the regions that a note-on makes play holds if every note-on
\* establishes it.
LEMMA OnlyNoteOns ==
    ASSUME [Next]_vars, event'.op = "noteOn"
    PROVE  \/ UNCHANGED vars
           \/ \E channel \in Channels, note \in Notes, velocity \in Velocities, rand \in Rands :
                 NoteOn(channel, note, velocity, rand)
<1>1. ~\E channel \in Channels, note \in Notes, velocity \in Velocities, rand \in Rands :
         NoteOff(channel, note, velocity, rand)
  <2> SUFFICES ASSUME NEW channel \in Channels, NEW note \in Notes, NEW velocity \in Velocities,
                      NEW rand \in Rands, NoteOff(channel, note, velocity, rand)
               PROVE  FALSE
    OBVIOUS
  <2>1. event' = [op |-> "noteOff", channel |-> channel, number |-> note]
    BY DEF NoteOff
  <2> QED
    BY <2>1
<1>2. ~\E channel \in Channels :
         \/ \E cc \in CCs, value \in CCValues : CC(channel, cc, value)
         \/ \E pitch \in Bends : PitchWheel(channel, pitch)
         \/ \E value \in Aftertouches : Aftertouch(channel, value)
  BY DEF CC, PitchWheel, Aftertouch, Silent
<1>3. ~\E bpm \in Tempos : Tempo(bpm)
  BY DEF Tempo, Silent
<1> QED
  BY <1>1, <1>2, <1>3, Zenon DEF Next

\* FirstOrLegato, for every instrument: the hidden counter of both regions of a
\* phrase is the number of other keys down.
THEOREM FirstOrLegatoHolds == Spec => []FirstOrLegato
<1>1. Init => FirstOrLegato
  BY DEF Init, FirstOrLegato, NoteOnFor, NoEvent
<1>2. PlayInv /\ PlayInv' /\ FirstOrLegato /\ [Next]_vars => FirstOrLegato'
  <2> SUFFICES ASSUME PlayInv, PlayInv', FirstOrLegato, [Next]_vars,
                      NEW phrase \in Phrases, NoteOnFor(phrase[1])'
               PROVE  played' \cap {phrase[1], phrase[2]} =
                         {IF Cardinality(HeldIn(phrase[1])') = 1 THEN phrase[1] ELSE phrase[2]}
    BY DEF FirstOrLegato
  <2> DEFINE a == phrase[1]
  <2> DEFINE b == phrase[2]
  <2>1. CASE UNCHANGED vars
    BY <2>1 DEF vars, FirstOrLegato, NoteOnFor, HeldIn
  <2>2. ASSUME NEW channel \in Channels, NEW note \in Notes, NEW velocity \in Velocities,
               NEW rand \in Rands, NoteOn(channel, note, velocity, rand)
        PROVE  played' \cap {a, b} =
                  {IF Cardinality(HeldIn(a)') = 1 THEN a ELSE b}
    <3>1. /\ a \in Regions /\ b \in Regions /\ SameKeys(a, b)
          /\ D(a).trigger = "first" /\ D(b).trigger = "legato"
          /\ Unconditional(D(a)) /\ Unconditional(D(b))
          /\ D(a).sequenceLength = 1 /\ D(a).sequencePosition = 1
          /\ D(b).sequenceLength = 1 /\ D(b).sequencePosition = 1
      BY InstrumentAssumption DEF PhrasesAssumption
    <3> DEFINE n == Cardinality(HeldIn(a)')
    <3>2. Listens(D(a), channel, note) /\ Listens(D(b), channel, note)
      BY <2>2, <3>1 DEF NoteOn, NoteOnFor, SameKeys, Listens
    <3>3. HeldIn(b)' = HeldIn(a)'
      BY <3>1 DEF SameKeys, HeldIn
    <3>4. n \in Nat \ {0}
      <4>1. IsFiniteSet(HeldIn(a)')
        BY FS_Subset DEF PlayInv, CountInv, Keys, HeldIn
      <4>2. <<channel, note>> \in HeldIn(a)'
        BY <2>2, <3>2 DEF NoteOn, HeldIn, Listens
      <4> QED
        BY <4>1, <4>2, FS_EmptySet, FS_CardinalityType
    <3> HIDE DEF n
    <3>5. ASSUME NEW r \in {a, b}
          PROVE  r \in played' <=> TriggersOnNote(D(r), state'[r])
      <4>1. PICK d, s, t : d = D(r) /\ s = state[r] /\ t = state'[r]
        OBVIOUS
      <4>2. /\ s \in States /\ t = AfterNoteOn(d, s, channel, note)
            /\ Unconditional(d) /\ PlainOn(t)
        BY <2>2, <3>1, <4>1 DEF NoteOn, PlayInv, CountInv, Counting, PlainInv
      <4>3. NoteOnChanges(d, s, channel, note, t)
        BY <4>2, NoteOnEffect
      <4>4. t.sequenceCounter \in Int
        BY <4>3 DEF NoteOnChanges, States
      <4>5. t.sequenceSwitched
        <5>1. t.sequenceCounter % d.sequenceLength = d.sequencePosition - 1
          BY <3>1, <4>1, <4>4
        <5> QED
          BY <3>1, <3>2, <4>1, <4>3, <5>1 DEF NoteOnChanges
      <4>6. r \in played' <=> NoteOnPlays(d, t, channel, note, velocity, rand)
        BY <2>2, <3>1, <4>1 DEF NoteOn
      <4> QED
        BY <3>2, <4>1, <4>2, <4>5, <4>6, PlainPlays
    <3>6. state'[a].activeNotesInRange = n - 1 /\ state'[b].activeNotesInRange = n - 1
      BY <3>1, <3>3 DEF n, PlayInv, CountInv, Counting
    <3>7. a \in played' <=> n = 1
      BY <3>1, <3>4, <3>5, <3>6 DEF TriggersOnNote
    <3>8. b \in played' <=> n # 1
      BY <3>1, <3>4, <3>5, <3>6 DEF TriggersOnNote
    <3> QED
      BY <3>7, <3>8 DEF n
  <2> QED
    BY <2>1, <2>2, OnlyNoteOns DEF NoteOnFor
<1> QED
  BY <1>1, <1>2, PlayInvariant, PTL DEF Spec

-----------------------------------------------------------------------------
(* Sequences.                                                                *)

\* The regions of a sequence count alike.
InStep ==
    \A g \in Sequences : \A q, r \in g : state[q].sequenceCounter = state[r].sequenceCounter

\* They do after a load.
LEMMA InStepInit == Init => InStep
<1> SUFFICES ASSUME Init, NEW g \in Sequences, NEW q \in g, NEW r \in g
             PROVE  state[q].sequenceCounter = state[r].sequenceCounter
  BY DEF InStep
<1>1. q \in Regions /\ r \in Regions /\ SameKeys(q, r)
  BY InstrumentAssumption DEF SequencesAssumption, IsSequence
<1>2. ASSUME NEW x \in Regions
      PROVE  state[x].sequenceCounter =
                IF DefaultSwitch # Null /\ Listens(D(x), D(x).channelRange[1], DefaultSwitch)
                THEN 1 ELSE 0
  <2>1. PICK d, t : d = D(x) /\ t = state[x]
    OBVIOUS
  <2>2. PICK initial : LoadChanges(d, initial, t)
    BY <2>1, InitLoads
  <2> QED
    BY <2>1, <2>2 DEF LoadChanges
<1> QED
  BY <1>1, <1>2 DEF SameKeys, Listens

\* Only a note-on moves a counter: any other step leaves it alone.
LEMMA CounterFrame ==
    ASSUME CountInv, [Next]_vars, NEW r \in Regions,
           ~\E channel \in Channels, note \in Notes, velocity \in Velocities, rand \in Rands :
                NoteOn(channel, note, velocity, rand)
    PROVE  state'[r].sequenceCounter = state[r].sequenceCounter
<1>1. PICK d, s, t : d = D(r) /\ s = state[r] /\ t = state'[r]
  OBVIOUS
<1>2. s \in States
  BY <1>1 DEF CountInv, Counting
<1>3. ASSUME NEW channel \in Channels, NEW note \in Notes, NEW velocity \in Velocities,
             NEW rand \in Rands, NoteOff(channel, note, velocity, rand)
      PROVE  t.sequenceCounter = s.sequenceCounter
  <2>1. t = AfterNoteOff(d, s, channel, note)
    BY <1>1, <1>3 DEF NoteOff
  <2>2. NoteOffChanges(d, s, channel, note, t)
    BY <1>2, <2>1, NoteOffEffect
  <2> QED
    BY <2>2 DEF NoteOffChanges
<1>4. ASSUME NEW channel \in Channels, NEW cc \in CCs, NEW value \in CCValues,
             CC(channel, cc, value)
      PROVE  t.sequenceCounter = s.sequenceCounter
  <2>1. t = AfterCC(d, s, channel, cc, value)
    BY <1>1, <1>4 DEF CC
  <2>2. SameNotes(s, t)
    BY <1>2, <2>1, CCEffect DEF CCChanges
  <2> QED
    BY <2>2 DEF SameNotes
<1>5. ASSUME NEW channel \in Channels, NEW pitch \in Bends, PitchWheel(channel, pitch)
      PROVE  t.sequenceCounter = s.sequenceCounter
  <2>1. t = AfterPitchWheel(d, s, channel, pitch)
    BY <1>1, <1>5 DEF PitchWheel
  <2>2. SameNotes(s, t)
    BY <1>2, <2>1, PitchWheelEffect
  <2> QED
    BY <2>2 DEF SameNotes
<1>6. ASSUME NEW channel \in Channels, NEW value \in Aftertouches, Aftertouch(channel, value)
      PROVE  t.sequenceCounter = s.sequenceCounter
  <2>1. t = AfterAftertouch(d, s, channel, value)
    BY <1>1, <1>6 DEF Aftertouch
  <2>2. SameNotes(s, t)
    BY <1>2, <2>1, AftertouchEffect
  <2> QED
    BY <2>2 DEF SameNotes
<1>7. ASSUME NEW bpm \in Tempos, Tempo(bpm)
      PROVE  t.sequenceCounter = s.sequenceCounter
  <2>1. t = AfterTempo(d, s, bpm)
    BY <1>1, <1>7 DEF Tempo
  <2>2. SameNotes(s, t)
    BY <1>2, <2>1, TempoEffect
  <2> QED
    BY <2>2 DEF SameNotes
<1>8. CASE UNCHANGED vars
  BY <1>1, <1>8 DEF vars
<1> QED
  BY <1>1, <1>3, <1>4, <1>5, <1>6, <1>7, <1>8 DEF Next

\* They keep counting alike: a note is for all of them or for none.
LEMMA InStepStep == CountInv /\ InStep /\ [Next]_vars => InStep'
<1> SUFFICES ASSUME CountInv, InStep, [Next]_vars, NEW g \in Sequences, NEW q \in g, NEW r \in g
             PROVE  state'[q].sequenceCounter = state'[r].sequenceCounter
  BY DEF InStep
<1>1. q \in Regions /\ r \in Regions /\ SameKeys(q, r)
  BY InstrumentAssumption DEF SequencesAssumption, IsSequence
<1>2. state[q].sequenceCounter = state[r].sequenceCounter
  BY DEF InStep
<1>3. ASSUME NEW channel \in Channels, NEW note \in Notes, NEW velocity \in Velocities,
             NEW rand \in Rands, NoteOn(channel, note, velocity, rand)
      PROVE  state'[q].sequenceCounter = state'[r].sequenceCounter
  <2>1. ASSUME NEW x \in Regions
        PROVE  state'[x].sequenceCounter =
                  Raised(state[x].sequenceCounter, D(x), channel, note)
    <3>1. PICK d, s, t : d = D(x) /\ s = state[x] /\ t = state'[x]
      OBVIOUS
    <3>2. s \in States /\ t = AfterNoteOn(d, s, channel, note)
      BY <1>3, <3>1 DEF NoteOn, CountInv, Counting
    <3>3. NoteOnChanges(d, s, channel, note, t)
      BY <3>2, NoteOnEffect
    <3> QED
      BY <3>1, <3>3 DEF NoteOnChanges
  <2> QED
    BY <1>1, <1>2, <2>1 DEF Raised, SameKeys, Listens
<1> QED
  BY <1>1, <1>2, <1>3, CounterFrame

\* OneOfASequence, for every instrument: the common counter, modulo the length, is
\* the position of exactly one of the regions.
THEOREM OneOfASequenceHolds == Spec => []OneOfASequence
<1> DEFINE SequenceInv == PlayInv /\ InStep
<1>1. Spec => []SequenceInv
  <2>1. Init => SequenceInv
    BY CountInit, PlainInit, InStepInit DEF PlayInv
  <2>2. SequenceInv /\ [Next]_vars => SequenceInv'
    BY CountStep, PlainStep, InStepStep DEF PlayInv
  <2> QED
    BY <2>1, <2>2, PTL DEF Spec
<1>2. Init => OneOfASequence
  <2> SUFFICES ASSUME Init, NEW g \in Sequences PROVE ~\A r \in g : NoteOnFor(r)
    BY DEF OneOfASequence
  <2>1. PICK n \in 1 .. 100 : IsSequence(g, n)
    BY InstrumentAssumption DEF SequencesAssumption
  <2>2. \E r \in g : TRUE
    BY <2>1 DEF IsSequence
  <2> QED
    BY <2>2 DEF Init, NoteOnFor, NoEvent
<1>3. SequenceInv /\ SequenceInv' /\ OneOfASequence /\ [Next]_vars => OneOfASequence'
  <2> SUFFICES ASSUME SequenceInv, SequenceInv', OneOfASequence, [Next]_vars,
                      NEW g \in Sequences, \A r \in g : NoteOnFor(r)'
               PROVE  Cardinality(played' \cap g) = 1
    BY DEF OneOfASequence
  <2>1. PICK n \in 1 .. 100 : IsSequence(g, n)
    BY InstrumentAssumption DEF SequencesAssumption
  <2>2. \E r \in g : TRUE
    BY <2>1 DEF IsSequence
  <2>3. CASE UNCHANGED vars
    BY <2>3 DEF vars, OneOfASequence, NoteOnFor
  <2>4. ASSUME NEW channel \in Channels, NEW note \in Notes, NEW velocity \in Velocities,
               NEW rand \in Rands, NoteOn(channel, note, velocity, rand)
        PROVE  Cardinality(played' \cap g) = 1
    <3>1. PICK c \in Int : \A r \in g : state'[r].sequenceCounter = c
      <4>1. PICK q \in g : TRUE
        BY <2>2
      <4>2. state'[q].sequenceCounter \in Int
        BY <2>1 DEF PlayInv, CountInv, Counting, States, IsSequence
      <4> QED
        BY <4>1, <4>2 DEF InStep
    <3>2. ASSUME NEW r \in g
          PROVE  r \in played' <=> D(r).sequencePosition = (c % n) + 1
      <4>1. PICK d, s, t : d = D(r) /\ s = state[r] /\ t = state'[r]
        OBVIOUS
      <4>2. /\ r \in Regions /\ Unconditional(d) /\ d.trigger = "attack"
            /\ d.sequenceLength = n /\ d.sequencePosition \in 1 .. n
        BY <2>1, <4>1 DEF IsSequence
      <4>3. s \in States /\ t = AfterNoteOn(d, s, channel, note) /\ PlainOn(t)
        BY <2>4, <4>1, <4>2 DEF NoteOn, PlayInv, CountInv, Counting, PlainInv
      <4>4. NoteOnChanges(d, s, channel, note, t)
        BY <4>3, NoteOnEffect
      <4>5. Listens(d, channel, note)
        BY <2>4, <4>1 DEF NoteOn, NoteOnFor, Listens
      <4>6. t.sequenceSwitched <=> c % n = d.sequencePosition - 1
        BY <3>1, <4>1, <4>2, <4>4, <4>5 DEF NoteOnChanges
      <4>7. r \in played' <=> NoteOnPlays(d, t, channel, note, velocity, rand)
        BY <2>4, <4>1, <4>2 DEF NoteOn
      <4>8. r \in played' <=> t.sequenceSwitched
        BY <4>2, <4>3, <4>5, <4>7, PlainPlays DEF TriggersOnNote
      <4> QED
        BY <4>1, <4>2, <4>6, <4>8
    <3>3. (c % n) + 1 \in 1 .. n
      OBVIOUS
    <3>4. PICK p \in g : D(p).sequencePosition = (c % n) + 1
      BY <2>1, <3>3 DEF IsSequence
    <3>5. played' \cap g = {p}
      BY <2>1, <3>2, <3>4 DEF IsSequence
    <3> QED
      BY <3>5, FS_Singleton
  <2> QED
    BY <2>2, <2>3, <2>4, OnlyNoteOns DEF NoteOnFor
<1> HIDE DEF SequenceInv
<1> QED
  BY <1>1, <1>2, <1>3, PTL DEF Spec

-----------------------------------------------------------------------------
(* Switches.                                                                 *)

\* Each region follows the last keyswitch of its channel.
LEMMA LastSwitchInit == Init => LastSwitchWins
<1> SUFFICES ASSUME Init, NEW g \in Articulations, NEW r \in g
             PROVE  state[r].keySwitched =
                       (lastSwitch[D(r).channelRange[1]] = D(r).keyswitch)
  BY DEF LastSwitchWins
<1>1. PICK d, t : d = D(r) /\ t = state[r]
  OBVIOUS
<1>2. /\ r \in Regions /\ d.channelRange[1] \in Channels
      /\ d.keyswitch # Null /\ d.keyswitchUp = Null /\ d.keyswitchDown = Null
      /\ DefaultSwitch # Null => ContainsWithEnd(d.keyswitchRange, DefaultSwitch)
  BY <1>1, InstrumentAssumption DEF ArticulationsAssumption, DescriptionAssumption
<1>3. PICK initial : LoadChanges(d, initial, t)
  BY <1>1, <1>2, InitLoads
<1>4. t.keySwitched = IF DefaultSwitch # Null /\ ContainsWithEnd(d.keyswitchRange, DefaultSwitch)
                      THEN d.keyswitch = DefaultSwitch ELSE FALSE
  BY <1>2, <1>3 DEF LoadChanges
<1>5. lastSwitch[d.channelRange[1]] = DefaultSwitch
  BY <1>2 DEF Init
<1> QED
  BY <1>1, <1>2, <1>4, <1>5

\* No step but a note-on changes the last switch or the switch of such a region.
LEMMA LastSwitchFrame ==
    ASSUME CountInv, [Next]_vars, NEW g \in Articulations, NEW r \in g,
           ~\E channel \in Channels, note \in Notes, velocity \in Velocities, rand \in Rands :
                NoteOn(channel, note, velocity, rand)
    PROVE  lastSwitch' = lastSwitch /\ state'[r].keySwitched = state[r].keySwitched
<1>1. PICK d, s, t : d = D(r) /\ s = state[r] /\ t = state'[r]
  OBVIOUS
<1>2. r \in Regions /\ d.keyswitchUp = Null /\ d.keyswitchDown = Null
  BY <1>1, InstrumentAssumption DEF ArticulationsAssumption
<1>3. s \in States
  BY <1>1, <1>2 DEF CountInv, Counting
<1> DEFINE Same == lastSwitch' = lastSwitch /\ t.keySwitched = s.keySwitched
<1>4. ASSUME NEW channel \in Channels, NEW note \in Notes, NEW velocity \in Velocities,
             NEW rand \in Rands, NoteOff(channel, note, velocity, rand)
      PROVE  Same
  <2>1. t = AfterNoteOff(d, s, channel, note) /\ lastSwitch' = lastSwitch
    BY <1>1, <1>2, <1>4 DEF NoteOff
  <2>2. NoteOffChanges(d, s, channel, note, t)
    BY <1>3, <2>1, NoteOffEffect
  <2>3. KeySwitchedByOff(d, s, note) = s.keySwitched
    BY <1>2, InstrumentAssumption DEF KeySwitchedByOff
  <2> QED
    BY <2>1, <2>2, <2>3 DEF NoteOffChanges
<1>5. ASSUME NEW channel \in Channels, NEW cc \in CCs, NEW value \in CCValues,
             CC(channel, cc, value)
      PROVE  Same
  <2>1. t = AfterCC(d, s, channel, cc, value) /\ lastSwitch' = lastSwitch
    BY <1>1, <1>2, <1>5 DEF CC
  <2>2. SameNotes(s, t)
    BY <1>3, <2>1, CCEffect DEF CCChanges
  <2> QED
    BY <2>1, <2>2 DEF SameNotes
<1>6. ASSUME NEW channel \in Channels, NEW pitch \in Bends, PitchWheel(channel, pitch)
      PROVE  Same
  <2>1. t = AfterPitchWheel(d, s, channel, pitch) /\ lastSwitch' = lastSwitch
    BY <1>1, <1>2, <1>6 DEF PitchWheel, Silent
  <2>2. SameNotes(s, t)
    BY <1>3, <2>1, PitchWheelEffect
  <2> QED
    BY <2>1, <2>2 DEF SameNotes
<1>7. ASSUME NEW channel \in Channels, NEW value \in Aftertouches, Aftertouch(channel, value)
      PROVE  Same
  <2>1. t = AfterAftertouch(d, s, channel, value) /\ lastSwitch' = lastSwitch
    BY <1>1, <1>2, <1>7 DEF Aftertouch, Silent
  <2>2. SameNotes(s, t)
    BY <1>3, <2>1, AftertouchEffect
  <2> QED
    BY <2>1, <2>2 DEF SameNotes
<1>8. ASSUME NEW bpm \in Tempos, Tempo(bpm)
      PROVE  Same
  <2>1. t = AfterTempo(d, s, bpm) /\ lastSwitch' = lastSwitch
    BY <1>1, <1>2, <1>8 DEF Tempo, Silent
  <2>2. SameNotes(s, t)
    BY <1>3, <2>1, TempoEffect
  <2> QED
    BY <2>1, <2>2 DEF SameNotes
<1>9. ASSUME UNCHANGED vars PROVE Same
  BY <1>1, <1>9 DEF vars
<1> HIDE DEF Same
<1>10. Same
  BY <1>4, <1>5, <1>6, <1>7, <1>8, <1>9 DEF Next
<1> QED
  BY <1>1, <1>10 DEF Same

\* LastSwitchWins, for every instrument: all articulations have the same range of
\* keyswitches, so that the note that switches one on switches the others off.
THEOREM LastSwitchWinsHolds == Spec => []LastSwitchWins
<1> DEFINE SwitchInv == DOMAIN lastSwitch = Channels /\ LastSwitchWins
<1>1. Init => SwitchInv
  BY LastSwitchInit DEF Init
<1>2. CountInv /\ SwitchInv /\ [Next]_vars => SwitchInv'
  <2> SUFFICES ASSUME CountInv, SwitchInv, [Next]_vars PROVE SwitchInv'
    OBVIOUS
  <2>1. DOMAIN lastSwitch' = Channels
    BY DEF Next, NoteOn, NoteOff, CC, PitchWheel, Aftertouch, Tempo, Silent, vars
  <2>2. ASSUME NEW g \in Articulations, NEW r \in g
        PROVE  state'[r].keySwitched = (lastSwitch'[D(r).channelRange[1]] = D(r).keyswitch)
    <3>1. PICK d, s, t : d = D(r) /\ s = state[r] /\ t = state'[r]
      OBVIOUS
    <3>2. /\ r \in Regions /\ d.channelRange[1] \in Channels /\ d.channelRange[1] \in Int
          /\ d.channelRange[2] = d.channelRange[1]
          /\ d.keyswitch # Null /\ d.keyswitchUp = Null /\ d.keyswitchDown = Null
      BY <3>1, InstrumentAssumption DEF ArticulationsAssumption, DescriptionAssumption
    <3>3. s.keySwitched = (lastSwitch[d.channelRange[1]] = d.keyswitch)
      BY <3>1 DEF LastSwitchWins
    <3>4. ASSUME NEW channel \in Channels, NEW note \in Notes, NEW velocity \in Velocities,
                 NEW rand \in Rands, NoteOn(channel, note, velocity, rand)
          PROVE  t.keySwitched = (lastSwitch'[d.channelRange[1]] = d.keyswitch)
      <4>1. s \in States /\ t = AfterNoteOn(d, s, channel, note)
        BY <3>1, <3>2, <3>4 DEF NoteOn, CountInv, Counting
      <4>2. NoteOnChanges(d, s, channel, note, t)
        BY <4>1, NoteOnEffect
      <4>3. ContainsWithEnd(d.channelRange, channel) <=> channel = d.channelRange[1]
        BY <3>2, InstrumentAssumption DEF ContainsWithEnd
      <4>4. Switchable(note) <=> ContainsWithEnd(d.keyswitchRange, note)
        BY <3>1, InstrumentAssumption DEF ArticulationsAssumption, Switchable
      <4>5. lastSwitch' = [lastSwitch EXCEPT ![channel] =
                              IF Switchable(note) THEN note ELSE lastSwitch[channel]]
        BY <3>4 DEF NoteOn
      <4>6. KeySwitchedByOn(d, s, note) =
               IF ContainsWithEnd(d.keyswitchRange, note)
               THEN d.keyswitch = note ELSE s.keySwitched
        BY <3>2, InstrumentAssumption, SwitchLast
      <4>7. CASE channel = d.channelRange[1]
        <5>1. lastSwitch'[channel] = IF ContainsWithEnd(d.keyswitchRange, note)
                                     THEN note ELSE lastSwitch[channel]
          BY <4>4, <4>5
        <5>2. t.keySwitched = KeySwitchedByOn(d, s, note)
          BY <4>2, <4>3, <4>7 DEF NoteOnChanges
        <5> QED
          BY <3>3, <4>6, <4>7, <5>1, <5>2
      <4>8. CASE channel # d.channelRange[1]
        <5>1. lastSwitch'[d.channelRange[1]] = lastSwitch[d.channelRange[1]]
          BY <3>2, <4>5, <4>8
        <5>2. t.keySwitched = s.keySwitched
          BY <4>2, <4>3, <4>8 DEF NoteOnChanges
        <5> QED
          BY <3>3, <5>1, <5>2
      <4> QED
        BY <4>7, <4>8
    <3> QED
      BY <3>1, <3>3, <3>4, LastSwitchFrame
  <2> QED
    BY <2>1, <2>2 DEF LastSwitchWins
<1>3. SwitchInv => LastSwitchWins
  OBVIOUS
<1> HIDE DEF SwitchInv
<1> QED
  BY <1>1, <1>2, <1>3, CountInvariant, PTL DEF Spec

\* The controllers have values.
InputsInv ==
    /\ DOMAIN inputs = Channels
    /\ \A c \in Channels :
          /\ DOMAIN inputs[c] = {"cc", "bend", "aftertouch", "tempo"}
          /\ DOMAIN inputs[c].cc = CCs

\* The switches of a region agree with values of the controllers.
Agrees(d, s, now) ==
    /\ s.ccOff \ {0} = {cc \in DOMAIN d.ccConditions \ {0} :
                           ~ContainsWithEnd(d.ccConditions[cc], now.cc[cc])}
    /\ s.pitchSwitched = ContainsWithEnd(d.bendRange, now.bend)
    /\ s.aftertouchSwitched = ContainsWithEnd(d.aftertouchRange, now.aftertouch)
    /\ s.bpmSwitched = ContainsWithEnd(d.bpmRange, now.tempo)

\* Registering a controller keeps a region in agreement.
LEMMA CCAgrees ==
    ASSUME NEW d, NEW s \in States, NEW now, NEW channel, NEW cc \in CCs, NEW value,
           ContainsWithEnd(d.channelRange, channel), DOMAIN now.cc = CCs,
           DOMAIN d.ccConditions \subseteq CCs, Agrees(d, s, now),
           NEW t, CCChanges(d, s, channel, cc, value, t),
           NEW next, next.cc = [now.cc EXCEPT ![cc] = value],
           next.bend = now.bend, next.aftertouch = now.aftertouch, next.tempo = now.tempo
    PROVE  Agrees(d, t, next)
<1>1. /\ next.cc[cc] = value
      /\ \A x \in CCs \ {cc} : next.cc[x] = now.cc[x]
  OBVIOUS
<1>2. t.ccOff = IF /\ cc \in DOMAIN d.ccConditions
                   /\ ~ContainsWithEnd(d.ccConditions[cc], value)
                THEN s.ccOff \cup {cc} ELSE s.ccOff \ {cc}
  BY DEF CCChanges
<1>3. s.ccOff \ {0} = {x \in DOMAIN d.ccConditions \ {0} :
                          ~ContainsWithEnd(d.ccConditions[x], now.cc[x])}
  BY DEF Agrees
<1>4. t.ccOff \ {0} = {x \in DOMAIN d.ccConditions \ {0} :
                          ~ContainsWithEnd(d.ccConditions[x], next.cc[x])}
  BY <1>1, <1>2, <1>3
<1>5. /\ t.pitchSwitched = s.pitchSwitched /\ t.bpmSwitched = s.bpmSwitched
      /\ t.aftertouchSwitched = s.aftertouchSwitched
  BY DEF CCChanges
<1> QED
  BY <1>4, <1>5, Zenon DEF Agrees

\* Every region on a single channel agrees with its controllers.
Agreement ==
    \A r \in Regions : D(r).channelRange[1] = D(r).channelRange[2] =>
        Agrees(D(r), state[r], inputs[D(r).channelRange[1]])

\* It does after a load.
LEMMA AgreementInit == Init => Agreement
<1> SUFFICES ASSUME Init, NEW r \in Regions, D(r).channelRange[1] = D(r).channelRange[2]
             PROVE  Agrees(D(r), state[r], inputs[D(r).channelRange[1]])
  BY DEF Agreement
<1>1. PICK d, t, now : d = D(r) /\ t = state[r] /\ now = inputs[d.channelRange[1]]
  OBVIOUS
<1>2. d.channelRange[1] \in Channels /\ DOMAIN d.ccConditions \subseteq CCs
  BY <1>1, InstrumentAssumption DEF DescriptionAssumption
<1>3. PICK initial :
         /\ LoadChanges(d, initial, t)
         /\ DOMAIN initial = CCs
         /\ inputs = [c \in Channels |->
                         [cc |-> initial, bend |-> 0, aftertouch |-> 0, tempo |-> 30]]
  BY <1>1, InitLoads
<1>4. now = [cc |-> initial, bend |-> 0, aftertouch |-> 0, tempo |-> 30]
  BY <1>1, <1>2, <1>3
<1>5. t.ccOff = {cc \in DOMAIN initial \ {0} : /\ cc \in DOMAIN d.ccConditions
                                               /\ ~ContainsWithEnd(d.ccConditions[cc], initial[cc])}
  BY <1>3 DEF LoadChanges
<1>6. t.ccOff \ {0} = {cc \in DOMAIN d.ccConditions \ {0} :
                          ~ContainsWithEnd(d.ccConditions[cc], now.cc[cc])}
  BY <1>2, <1>3, <1>4, <1>5
<1>7. now.bend = 0 /\ now.aftertouch = 0 /\ now.tempo = 30
  BY <1>4
<1>8. /\ t.pitchSwitched = ContainsWithEnd(d.bendRange, now.bend)
      /\ t.aftertouchSwitched = ContainsWithEnd(d.aftertouchRange, now.aftertouch)
      /\ t.bpmSwitched = ContainsWithEnd(d.bpmRange, now.tempo)
  BY <1>3, <1>7, Zenon DEF LoadChanges
<1> QED
  BY <1>1, <1>6, <1>8, Zenon DEF Agrees

\* A region whose switches and whose controllers stay keeps its agreement.
LEMMA AgreesFrame ==
    ASSUME NEW d, NEW s, NEW t, SameControls(s, t), NEW now, Agrees(d, s, now)
    PROVE  Agrees(d, t, now)
  BY DEF SameControls, Agrees

\* SwitchesFollowInputs, for every instrument: a load registers the values that the
\* controllers have, and every change is registered.
THEOREM SwitchesFollowInputsHolds == Spec => []SwitchesFollowInputs
<1> DEFINE FollowInv == InputsInv /\ Agreement
<1>1. Init => FollowInv
  BY AgreementInit DEF Init, InputsInv, SetCCs
<1>2. CountInv /\ FollowInv /\ [Next]_vars => FollowInv'
  <2> SUFFICES ASSUME CountInv, FollowInv, [Next]_vars PROVE FollowInv'
    OBVIOUS
  <2>1. InputsInv'
    <3>1. CASE UNCHANGED inputs
      BY <3>1 DEF InputsInv
    <3>2. ASSUME NEW c \in Channels, NEW cc \in CCs, NEW v,
                 inputs' = [inputs EXCEPT ![c].cc[cc] = v]
          PROVE  InputsInv'
      BY <3>2 DEF InputsInv
    <3>3. ASSUME NEW c \in Channels, NEW v, inputs' = [inputs EXCEPT ![c].bend = v]
          PROVE  InputsInv'
      BY <3>3 DEF InputsInv
    <3>4. ASSUME NEW c \in Channels, NEW v, inputs' = [inputs EXCEPT ![c].aftertouch = v]
          PROVE  InputsInv'
      BY <3>4 DEF InputsInv
    <3>5. ASSUME NEW v, inputs' = [c \in Channels |-> [inputs[c] EXCEPT !.tempo = v]]
          PROVE  InputsInv'
      BY <3>5 DEF InputsInv
    <3> QED
      BY <3>1, <3>2, <3>3, <3>4, <3>5
         DEF Next, vars, NoteOn, NoteOff, CC, PitchWheel, Aftertouch, Tempo
  <2>2. ASSUME NEW r \in Regions, D(r).channelRange[1] = D(r).channelRange[2]
        PROVE  Agrees(D(r), state'[r], inputs'[D(r).channelRange[1]])
    <3>1. PICK d, s, t, c : d = D(r) /\ s = state[r] /\ t = state'[r] /\ c = d.channelRange[1]
      OBVIOUS
    <3>2. PICK now, next : now = inputs[c] /\ next = inputs'[c]
      OBVIOUS
    <3>3. /\ s \in States /\ c \in Channels /\ Agrees(d, s, now)
          /\ DOMAIN now = {"cc", "bend", "aftertouch", "tempo"} /\ DOMAIN now.cc = CCs
          /\ DOMAIN inputs = Channels /\ DOMAIN d.ccConditions \subseteq CCs
      BY <2>2, <3>1, <3>2, InstrumentAssumption
         DEF CountInv, Counting, Agreement, InputsInv, DescriptionAssumption
    <3>4. ASSUME NEW channel \in Channels
          PROVE  ContainsWithEnd(d.channelRange, channel) <=> channel = c
      BY <2>2, <3>1, <3>3, InstrumentAssumption DEF ContainsWithEnd
    <3>5. ASSUME SameControls(s, t), next = now
          PROVE  Agrees(d, t, next)
      BY <3>3, <3>5, AgreesFrame
    <3>6. ASSUME NEW channel \in Channels, NEW note \in Notes, NEW velocity \in Velocities,
                 NEW rand \in Rands, NoteOn(channel, note, velocity, rand)
          PROVE  Agrees(d, t, next)
      <4>1. t = AfterNoteOn(d, s, channel, note) /\ next = now
        BY <3>1, <3>2, <3>6 DEF NoteOn
      <4>2. NoteOnChanges(d, s, channel, note, t)
        BY <3>3, <4>1, NoteOnEffect
      <4> QED
        BY <3>5, <4>1, <4>2 DEF NoteOnChanges
    <3>7. ASSUME NEW channel \in Channels, NEW note \in Notes, NEW velocity \in Velocities,
                 NEW rand \in Rands, NoteOff(channel, note, velocity, rand)
          PROVE  Agrees(d, t, next)
      <4>1. t = AfterNoteOff(d, s, channel, note) /\ next = now
        BY <3>1, <3>2, <3>7 DEF NoteOff
      <4>2. NoteOffChanges(d, s, channel, note, t)
        BY <3>3, <4>1, NoteOffEffect
      <4> QED
        BY <3>5, <4>1, <4>2 DEF NoteOffChanges
    <3>8. ASSUME NEW channel \in Channels, NEW cc \in CCs, NEW value \in CCValues,
                 CC(channel, cc, value)
          PROVE  Agrees(d, t, next)
      <4>1. t = AfterCC(d, s, channel, cc, value)
            /\ inputs' = [inputs EXCEPT ![channel].cc[cc] = value]
        BY <3>1, <3>8 DEF CC
      <4>2. CCChanges(d, s, channel, cc, value, t)
        BY <3>3, <4>1, CCEffect
      <4>3. CASE channel = c
        <5>1. /\ next.cc = [now.cc EXCEPT ![cc] = value]
              /\ next.bend = now.bend /\ next.aftertouch = now.aftertouch
              /\ next.tempo = now.tempo
          BY <3>2, <3>3, <4>1, <4>3
        <5>2. ContainsWithEnd(d.channelRange, channel)
          BY <3>4, <4>3
        <5> QED
          BY <3>3, <4>2, <5>1, <5>2, CCAgrees
      <4>4. CASE channel # c
        <5>1. next = now
          BY <3>2, <3>3, <4>1, <4>4
        <5>2. SameControls(s, t)
          BY <3>4, <4>2, <4>4 DEF CCChanges, SameControls
        <5> QED
          BY <3>5, <5>1, <5>2
      <4> QED
        BY <4>3, <4>4
    <3>9. ASSUME NEW channel \in Channels, NEW pitch \in Bends, PitchWheel(channel, pitch)
          PROVE  Agrees(d, t, next)
      <4>1. t = AfterPitchWheel(d, s, channel, pitch)
            /\ inputs' = [inputs EXCEPT ![channel].bend = pitch]
        BY <3>1, <3>9 DEF PitchWheel
      <4>2. /\ t.bpmSwitched = s.bpmSwitched /\ t.aftertouchSwitched = s.aftertouchSwitched
            /\ t.ccOff = s.ccOff
            /\ t.pitchSwitched = IF channel = c THEN ContainsWithEnd(d.bendRange, pitch)
                                                ELSE s.pitchSwitched
        BY <3>3, <3>4, <4>1, PitchWheelEffect
      <4>3. /\ next.cc = now.cc /\ next.aftertouch = now.aftertouch /\ next.tempo = now.tempo
            /\ next.bend = IF channel = c THEN pitch ELSE now.bend
        BY <3>2, <3>3, <4>1
      <4> QED
        BY <3>3, <4>2, <4>3 DEF Agrees
    <3>10. ASSUME NEW channel \in Channels, NEW value \in Aftertouches,
                  Aftertouch(channel, value)
           PROVE  Agrees(d, t, next)
      <4>1. t = AfterAftertouch(d, s, channel, value)
            /\ inputs' = [inputs EXCEPT ![channel].aftertouch = value]
        BY <3>1, <3>10 DEF Aftertouch
      <4>2. /\ t.bpmSwitched = s.bpmSwitched /\ t.pitchSwitched = s.pitchSwitched
            /\ t.ccOff = s.ccOff
            /\ t.aftertouchSwitched =
                  IF channel = c THEN ContainsWithEnd(d.aftertouchRange, value)
                                 ELSE s.aftertouchSwitched
        BY <3>3, <3>4, <4>1, AftertouchEffect
      <4>3. /\ next.cc = now.cc /\ next.bend = now.bend /\ next.tempo = now.tempo
            /\ next.aftertouch = IF channel = c THEN value ELSE now.aftertouch
        BY <3>2, <3>3, <4>1
      <4> QED
        BY <3>3, <4>2, <4>3 DEF Agrees
    <3>11. ASSUME NEW bpm \in Tempos, Tempo(bpm)
           PROVE  Agrees(d, t, next)
      <4>1. t = AfterTempo(d, s, bpm)
            /\ inputs' = [x \in Channels |-> [inputs[x] EXCEPT !.tempo = bpm]]
        BY <3>1, <3>11 DEF Tempo
      <4>2. /\ t.pitchSwitched = s.pitchSwitched
            /\ t.aftertouchSwitched = s.aftertouchSwitched
            /\ t.ccOff = s.ccOff
        BY <3>3, <4>1, TempoEffect
      <4>3. t.bpmSwitched = ContainsWithEnd(d.bpmRange, bpm)
        BY <3>3, <4>1 DEF AfterTempo, States
      <4>4. /\ next.cc = now.cc /\ next.bend = now.bend
            /\ next.aftertouch = now.aftertouch /\ next.tempo = bpm
        BY <3>2, <3>3, <4>1
      <4> QED
        BY <3>3, <4>2, <4>3, <4>4, Zenon DEF Agrees
    <3>12. ASSUME UNCHANGED vars
           PROVE  Agrees(d, t, next)
      BY <3>1, <3>2, <3>3, <3>12 DEF vars
    <3>13. Agrees(d, t, next)
      BY <3>6, <3>7, <3>8, <3>9, <3>10, <3>11, <3>12 DEF Next
    <3> QED
      BY <3>1, <3>2, <3>13
  <2> QED
    BY <2>1, <2>2 DEF Agreement
<1>3. FollowInv => SwitchesFollowInputs
  BY DEF Agreement, Agrees, SwitchesFollowInputs
<1> HIDE DEF FollowInv
<1> QED
  BY <1>1, <1>2, <1>3, CountInvariant, PTL DEF Spec

=================================================================================
