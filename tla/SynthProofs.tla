------------------------------- MODULE SynthProofs -------------------------------
(*****************************************************************************)
(* What holds of the voices for every instrument, number of voices and       *)
(* sequence of messages.                                                     *)
(*                                                                           *)
(* The first part is about the voices and takes each step for any task; the *)
(* second is about what is left to do: which tasks may stand before a note   *)
(* is started, and what the choke loop has yet to look at.                   *)
(*****************************************************************************)
EXTENDS Synth, FiniteSetTheorems, SequenceTheorems, TLAPS

\* A Voice is a record of its members.
Fields == {"region", "state", "noteIsOff", "type", "channel", "number"}
Members(w) == w = [f \in Fields |-> w[f]]

\* A voice that plays on after its note-off, with the pedal where it is.
Allowed(w, pedal) ==
    w.state = "playing" /\ w.noteIsOff =>
        \/ D(w.region).oneShot
        \/ D(w.region).checkSustain /\ pedal >= HalfCCThreshold

\* A free voice has forgotten the note-off of the note before.
VoiceInv(w, pedal) ==
    /\ Members(w)
    /\ w.region = Null => ~ w.noteIsOff
    /\ Allowed(w, pedal)

Pedal == cc[SustainCC]

PedalInv ==
    /\ cc \in [CCs -> Int]
    /\ voice = [v \in Voices |-> voice[v]]
    /\ \A v \in Voices : VoiceInv(voice[v], Pedal)
    /\ order \in Surjection(1 .. Cardinality(Voices), Voices)

-----------------------------------------------------------------------------
(* What the methods of a voice keep.                                         *)

\* Voice::release leaves no voice playing, wherever the pedal is.
LEMMA ReleasedKeeps ==
    ASSUME NEW w, NEW p, NEW q, VoiceInv(w, p)
    PROVE  VoiceInv(Released(w), q)
<1>1. CASE w.state = "playing"
  BY <1>1 DEF VoiceInv, Members, Fields, Allowed, Released
<1>2. CASE w.state # "playing"
  BY <1>2 DEF VoiceInv, Members, Fields, Allowed, Released
<1> QED BY <1>1, <1>2

\* Voice::reset forgets the note-off.
LEMMA ResetKeeps ==
    ASSUME NEW w, NEW p, VoiceInv(w, p)
    PROVE  VoiceInv(Reset(w), p) /\ Reset(w).region = Null
<1>1. Members(Reset(w))
  BY DEF VoiceInv, Members, Fields, Reset
<1>2. /\ Reset(w).region = Null /\ Reset(w).state = "idle"
      /\ Reset(w).noteIsOff = FALSE
  BY DEF VoiceInv, Members, Fields, Reset
<1> QED BY <1>1, <1>2 DEF VoiceInv, Allowed

\* Voice::startVoice is called on free voices, which have none.
LEMMA StartedKeeps ==
    ASSUME NEW w, NEW p, NEW task, VoiceInv(w, p), w.region = Null
    PROVE  VoiceInv(Started(w, task), p)
<1>1. Members(Started(w, task))
  BY DEF VoiceInv, Members, Fields, Started
<1>2. Started(w, task).noteIsOff = w.noteIsOff
  BY DEF VoiceInv, Members, Fields, Started
<1>3. ~ w.noteIsOff
  BY DEF VoiceInv
<1> QED BY <1>1, <1>2, <1>3 DEF VoiceInv, Allowed

\* Voice::registerNoteOff releases the voice unless it is a one-shot or held.
LEMMA NoteOffKeeps ==
    ASSUME NEW w, NEW p \in Int, NEW channel, NEW note, VoiceInv(w, p)
    PROVE  VoiceInv(AfterVoiceNoteOff(w, channel, note, p), p)
<1> DEFINE off == [w EXCEPT !.noteIsOff = TRUE]
           lets == ~ D(w.region).oneShot /\ (~ D(w.region).checkSustain \/ p < HalfCCThreshold)
           heard == ~ (w.region = Null \/ w.state # "playing"
                       \/ <<w.channel, w.number>> # <<channel, note>>)
<1>1. CASE ~ heard
  BY <1>1 DEF AfterVoiceNoteOff
<1>2. CASE heard /\ lets
  <2>1. AfterVoiceNoteOff(w, channel, note, p) = [off EXCEPT !.state = "release"]
    BY <1>2 DEF AfterVoiceNoteOff, Released, VoiceInv, Members
  <2> QED
    BY <1>2, <2>1 DEF VoiceInv, Members, Fields, Allowed
<1>3. CASE heard /\ ~ lets
  <2>1. AfterVoiceNoteOff(w, channel, note, p) = off
    BY <1>3 DEF AfterVoiceNoteOff
  <2>2. D(w.region).oneShot \/ (D(w.region).checkSustain /\ p >= HalfCCThreshold)
    BY <1>3 DEF HalfCCThreshold
  <2> QED
    BY <1>3, <2>1, <2>2 DEF VoiceInv, Members, Fields, Allowed
<1> QED BY <1>1, <1>2, <1>3

\* Voice::registerCC releases what the pedal has held when it goes up.
LEMMA CCKeeps ==
    ASSUME NEW w, NEW p \in Int, NEW n, NEW x \in Int, NEW q, VoiceInv(w, p),
           q = IF n = SustainCC THEN x ELSE p
    PROVE  VoiceInv(AfterVoiceCC(w, n, x), q)
<1> DEFINE up == /\ w.region # Null /\ D(w.region).checkSustain /\ w.noteIsOff
                 /\ n = SustainCC /\ x < HalfCCThreshold
<1>1. CASE up
  <2>1. AfterVoiceCC(w, n, x) = Released(w)
    BY <1>1 DEF AfterVoiceCC
  <2> QED BY <2>1, ReleasedKeeps
<1>2. CASE ~ up
  <2>1. AfterVoiceCC(w, n, x) = w
    BY <1>2 DEF AfterVoiceCC
  <2>2. Allowed(w, q)
    BY <1>2 DEF VoiceInv, Allowed, HalfCCThreshold
  <2> QED BY <2>1, <2>2 DEF VoiceInv
<1> QED BY <1>1, <1>2

-----------------------------------------------------------------------------
(* The steps.                                                                *)

LEMMA PedalInvInit == Init => PedalInv
<1> SUFFICES ASSUME Init PROVE PedalInv
  OBVIOUS
<1>1. cc \in [CCs -> Int]
  <2>1. {0} \cup CCValues \subseteq Int
    BY MidiAssumption DEF MidiAssumption
  <2> QED BY <2>1 DEF Init
<1>2. voice = [v \in Voices |-> FreeVoice]
  BY DEF Init
<1>3. VoiceInv(FreeVoice, Pedal)
  BY DEF FreeVoice, VoiceInv, Members, Fields, Allowed
<1>4. order \in Surjection(1 .. Cardinality(Voices), Voices)
  BY DEF Init, Bijection
<1> QED BY <1>1, <1>2, <1>3, <1>4 DEF PedalInv

\* What no step of the voices or of the controllers touches.
LEMMA PedalInvUnchanged ==
    ASSUME PedalInv, UNCHANGED <<voice, cc>>,
           order' \in Surjection(1 .. Cardinality(Voices), Voices)
    PROVE  PedalInv'
  BY DEF PedalInv, Pedal

\* A step that changes one voice.
LEMMA OneVoice ==
    ASSUME PedalInv, UNCHANGED cc, NEW v, NEW w,
           v \in Voices => VoiceInv(w, Pedal), voice' = [voice EXCEPT ![v] = w],
           order' \in Surjection(1 .. Cardinality(Voices), Voices)
    PROVE  PedalInv'
<1>1. Pedal' = Pedal /\ cc' \in [CCs -> Int]
  BY DEF PedalInv, Pedal
<1>2. voice' = [u \in Voices |-> IF u = v THEN w ELSE voice[u]]
  BY DEF PedalInv
<1>3. \A u \in Voices : VoiceInv(voice'[u], Pedal)
  BY <1>2 DEF PedalInv
<1> QED BY <1>1, <1>2, <1>3 DEF PedalInv

\* A set of places has a first one.
LEMMA HasFirst ==
    ASSUME NEW T \in SUBSET Nat, T # {}
    PROVE  \E i \in T : \A j \in T : i <= j
<1> DEFINE less == {pair \in Nat \X Nat : pair[1] < pair[2]}
<1>1. OpToRel(<, Nat) = less
  BY Zenon DEF OpToRel
<1>2. IsWellFoundedOn(less, Nat)
  BY <1>1, NatLessThanWellFounded, Zenon
<1>3. \A i, j \in Nat : j < i => <<j, i>> \in less
  OBVIOUS
<1> HIDE DEF less
<1>4. PICK i \in T : \A j \in T : ~ (<<j, i>> \in less)
  BY <1>2, WFMin
<1>5. \A j \in T : ~ (j < i)
  BY <1>3, <1>4
<1>6. \A j \in T : i <= j
  BY <1>5
<1> QED BY <1>6

\* findFreeVoice finds a free voice when there is one: some place in the vector is the
\* first one with a free voice.
LEMMA FirstIsFree ==
    ASSUME PedalInv, NEW S \in SUBSET Voices, S # {}
    PROVE  FirstOf(S) \in S
<1> DEFINE n == Cardinality(Voices)
           places == {i \in 1 .. n : order[i] \in S}
<1>1. n \in Nat
  BY MidiAssumption, FS_CardinalityType DEF MidiAssumption
<1>2. order \in [1 .. n -> Voices] /\ \A v \in Voices : \E i \in 1 .. n : order[i] = v
  BY DEF PedalInv, Surjection
<1>3. places \in SUBSET Nat /\ places # {}
  BY <1>1, <1>2
<1>4. PICK i \in places : \A j \in places : i <= j
  BY <1>3, HasFirst
<1>5. /\ i \in DOMAIN order /\ order[i] \in S
      /\ \A j \in DOMAIN order : order[j] \in S => i <= j
  BY <1>2, <1>4
<1> QED BY <1>5 DEF FirstOf

\* What noteOff does to the voices.
LEMMA NoteOffBodyKeeps ==
    ASSUME PedalInv, NEW channel, NEW note, NEW rand, NEW rest,
           NoteOffBody(channel, note, rand, rest), UNCHANGED <<order, cc>>
    PROVE  PedalInv'
<1>1. Pedal \in Int /\ Pedal' = Pedal
  BY MidiAssumption DEF PedalInv, Pedal, MidiAssumption
<1>2. voice' = [v \in Voices |-> AfterVoiceNoteOff(voice[v], channel, note, Pedal)]
  BY DEF NoteOffBody, Pedal
<1>3. ASSUME NEW v \in Voices
      PROVE  VoiceInv(voice'[v], Pedal)
  <2>1. VoiceInv(AfterVoiceNoteOff(voice[v], channel, note, Pedal), Pedal)
    BY <1>1, NoteOffKeeps DEF PedalInv
  <2> QED BY <1>2, <2>1
<1> QED BY <1>1, <1>2, <1>3 DEF PedalInv

\* The steps of the loops, for any task.
LEMMA PedalInvStep == PedalInv /\ Step => PedalInv'
<1> SUFFICES ASSUME PedalInv, Step PROVE PedalInv'
  OBVIOUS
<1> DEFINE Places == Surjection(1 .. Cardinality(Voices), Voices)
<1>p. order \in Places
  BY DEF PedalInv
<1>1. CASE DoRegionOn \/ DoRegionOff \/ DoRegionCC \/ DoNoteOffRefused
  <2>1. UNCHANGED <<voice, order, cc>>
    BY <1>1 DEF DoRegionOn, DoRegionOff, DoRegionCC, DoNoteOffRefused, midiVars
  <2> QED BY <1>p, <2>1, PedalInvUnchanged
<1>2. CASE DoChoke
  <2> DEFINE v == order[Task.index]
  <2>1. UNCHANGED <<order, cc>>
    BY <1>2 DEF DoChoke, midiVars
  <2>2. CASE OffGroup(voice[v], Task.group)
    <3>1. voice' = [voice EXCEPT ![v] = Released(voice[v])]
      BY <1>2, <2>2 DEF DoChoke
    <3>2. v \in Voices => VoiceInv(Released(voice[v]), Pedal)
      BY ReleasedKeeps DEF PedalInv
    <3> QED BY <1>p, <2>1, <3>1, <3>2, OneVoice
  <2>3. CASE ~ OffGroup(voice[v], Task.group)
    <3>1. UNCHANGED voice
      BY <1>2, <2>3 DEF DoChoke
    <3> QED BY <1>p, <2>1, <3>1, PedalInvUnchanged
  <2> QED BY <2>2, <2>3
<1>3. ASSUME NEW rand \in Rands, DoNoteOff(rand)
      PROVE  PedalInv'
  <2>1. NoteOffBody(Task.channel, Task.number, rand, Rest) /\ UNCHANGED <<order, cc>>
    BY <1>3 DEF DoNoteOff, midiVars
  <2> QED BY <2>1, NoteOffBodyKeeps
<1>4. CASE DoStart
  <2> DEFINE v == FirstOf(Free)
  <2>1. /\ UNCHANGED <<order, cc>>
        /\ voice' = [voice EXCEPT ![v] = Started(voice[v], Task)]
    BY <1>4 DEF DoStart, midiVars
  <2>2. v \in Free
    BY <1>4, FirstIsFree DEF DoStart, Free
  <2>3. VoiceInv(Started(voice[v], Task), Pedal)
    BY <2>2, StartedKeeps DEF PedalInv, Free
  <2> QED BY <1>p, <2>1, <2>3, OneVoice
<1>5. ASSUME NEW sorted \in Bijection(1 .. Cardinality(Voices), Voices),
             NEW quiet \in SUBSET Voices, DoSteal(sorted, quiet)
      PROVE  PedalInv'
  <2> DEFINE v == FirstOf(quiet)
  <2>1. UNCHANGED cc /\ order' \in Places
    BY <1>5 DEF DoSteal, midiVars, Bijection
  <2>2. CASE quiet = {}
    <3>1. UNCHANGED voice
      BY <1>5, <2>2 DEF DoSteal
    <3> QED BY <2>1, <3>1, PedalInvUnchanged
  <2>3. CASE quiet # {}
    <3>1. voice' = [voice EXCEPT ![v] = Started(Reset(voice[v]), Task)]
      BY <1>5, <2>3 DEF DoSteal
    <3>2. v \in Voices => VoiceInv(Started(Reset(voice[v]), Task), Pedal)
      BY ResetKeeps, StartedKeeps DEF PedalInv
    <3> QED BY <2>1, <3>1, <3>2, OneVoice
  <2> QED BY <2>2, <2>3
<1> QED BY <1>1, <1>2, <1>3, <1>4, <1>5 DEF Step

\* The messages of the client.
LEMMA PedalInvDispatch ==
    ASSUME PedalInv, NEW m \in Messages, NEW rand, Dispatch(m, rand)
    PROVE  PedalInv'
<1> DEFINE channel == m.channel + 1
           note == m.data1
           x == m.data2
<1>p. order \in Surjection(1 .. Cardinality(Voices), Voices)
  BY DEF PedalInv
<1>1. CASE NoteOff(channel, note, rand)
  <2>1. NoteOffBody(channel, note, rand, <<>>) /\ UNCHANGED <<order, cc>>
    BY <1>1 DEF NoteOff, midiVars
  <2> QED BY <2>1, NoteOffBodyKeeps
<1>2. CASE \/ NoteOffRefused(channel, note) \/ NoteOn(channel, note, x, rand)
           \/ NoteOnRefused(channel, note, x)
  <2>1. UNCHANGED <<voice, order, cc>>
    BY <1>2 DEF NoteOffRefused, NoteOn, NoteOnRefused, midiVars
  <2> QED BY <1>p, <2>1, PedalInvUnchanged
<1>3. CASE m.status = "controlChange" /\ CC(channel, note, x)
  <2>1. note \in CCs /\ x \in Int
    <3>1. \/ m.status = "noteOn" \/ m.status = "noteOff"
          \/ m.data1 \in CCs /\ m.data2 \in CCValues
      BY DEF Messages
    <3>2. CCValues \subseteq Int
      BY MidiAssumption DEF MidiAssumption
    <3> QED BY <1>3, <3>1, <3>2
  <2>2. /\ voice' = [v \in Voices |-> AfterVoiceCC(voice[v], note, x)]
        /\ cc' = [cc EXCEPT ![note] = x]
        /\ UNCHANGED order
    BY <1>3 DEF CC
  <2>3. cc' \in [CCs -> Int]
    BY <2>1, <2>2 DEF PedalInv
  <2>4. Pedal \in Int /\ Pedal' = IF note = SustainCC THEN x ELSE Pedal
    BY <2>2, MidiAssumption DEF PedalInv, Pedal, MidiAssumption
  <2>5. ASSUME NEW v \in Voices
        PROVE  VoiceInv(voice'[v], Pedal')
    <3>1. VoiceInv(AfterVoiceCC(voice[v], note, x), Pedal')
      BY <2>1, <2>4, CCKeeps DEF PedalInv
    <3> QED BY <2>2, <3>1
  <2> QED BY <1>p, <2>2, <2>3, <2>5 DEF PedalInv
<1> QED BY <1>1, <1>2, <1>3 DEF Dispatch

\* The end of samples and of envelopes.
LEMMA PedalInvRender ==
    ASSUME PedalInv, NEW ended, NEW done, RenderBlock(ended, done)
    PROVE  PedalInv'
<1>1. /\ voice' = [v \in Voices |-> IF v \in done THEN Reset(voice[v])
                                    ELSE IF v \in ended THEN Released(voice[v])
                                    ELSE voice[v]]
      /\ UNCHANGED <<order, cc>>
  BY DEF RenderBlock, midiVars
<1>2. ASSUME NEW v \in Voices
      PROVE  VoiceInv(voice'[v], Pedal)
  <2>1. VoiceInv(voice[v], Pedal)
    BY DEF PedalInv
  <2>2. VoiceInv(Reset(voice[v]), Pedal) /\ VoiceInv(Released(voice[v]), Pedal)
    BY <2>1, ResetKeeps, ReleasedKeeps
  <2> QED BY <1>1, <2>1, <2>2
<1> QED BY <1>1, <1>2 DEF PedalInv, Pedal

LEMMA PedalInvNext == PedalInv /\ [Next]_vars => PedalInv'
<1> SUFFICES ASSUME PedalInv, [Next]_vars PROVE PedalInv'
  OBVIOUS
<1>1. CASE Step
  BY <1>1, PedalInvStep
<1>2. CASE Handler
  BY <1>2, PedalInvDispatch, PedalInvRender DEF Handler
<1>3. CASE UNCHANGED vars
  <2>1. UNCHANGED <<voice, order, cc>>
    BY <1>3 DEF vars
  <2> QED BY <2>1, PedalInvUnchanged DEF PedalInv
<1> QED BY <1>1, <1>2, <1>3 DEF Next

-----------------------------------------------------------------------------
\* A voice plays on after its note-off only if it is a one-shot or the pedal holds it,
\* for every instrument, number of voices and sequence of messages: registerNoteOff
\* releases the others, registerCC releases what the pedal has held when it goes up,
\* and reset forgets the note-off before the voice is used for another note.
THEOREM PlaysOnlyUnderPedalHolds == SafeSpec => []PlaysOnlyUnderPedal
<1>1. PedalInv => PlaysOnlyUnderPedal
  BY DEF PedalInv, VoiceInv, Allowed, Pedal, PlaysOnlyUnderPedal, Playing
<1> QED BY <1>1, PedalInvInit, PedalInvNext, PTL DEF SafeSpec

-----------------------------------------------------------------------------
(* The lists of regions.                                                     *)

\* Among n places and more, one has k - 1 before it, for each k up to n.
LEMMA KthPlace ==
    ASSUME NEW places \in SUBSET Nat, IsFiniteSet(places),
           NEW k \in 1 .. Cardinality(places)
    PROVE  \E i \in places : Cardinality({j \in places : j < i}) = k - 1
<1> DEFINE Before(i) == {j \in places : j < i}
           n == Cardinality(places)
           missing == {m \in 1 .. n : \A i \in places : Cardinality(Before(i)) # m - 1}
<1>1. n \in Nat
  BY FS_CardinalityType
<1>2. SUFFICES ASSUME missing # {} PROVE FALSE
  BY <1>2
<1>3. missing \in SUBSET Nat
  BY <1>1
<1>4. PICK m \in missing : \A l \in missing : m <= l
  BY <1>2, <1>3, HasFirst
<1>5. m \in 1 .. n /\ \A i \in places : Cardinality(Before(i)) # m - 1
  OBVIOUS
<1>6. \A i \in places : Before(i) \in SUBSET places
  OBVIOUS
<1>7. CASE m = 1
  <2>1. places # {}
    BY <1>1, <1>5, FS_EmptySet
  <2>2. PICK i \in places : \A j \in places : i <= j
    BY <2>1, HasFirst
  <2>3. Before(i) = {}
    <3>1. \A j \in places : i \in Nat /\ j \in Nat /\ i <= j
      BY <2>2
    <3>2. \A j \in places : ~ (j < i)
      BY <3>1
    <3> QED BY <3>2
  <2>4. Cardinality(Before(i)) = 0
    BY <2>3, FS_EmptySet
  <2> QED BY <1>5, <1>7, <2>4
<1>8. CASE m # 1
  <2>1. m - 1 \in 1 .. n /\ m - 1 \notin missing
    BY <1>1, <1>4, <1>5, <1>8
  <2>2. PICK i \in places : Cardinality(Before(i)) = m - 2
    BY <2>1
  <2> DEFINE upTo == Before(i) \cup {i}
             after == {j \in places : i < j}
  <2>3. IsFiniteSet(Before(i))
    BY <1>6, FS_Subset
  <2>4. Cardinality(upTo) = m - 1
    <3>1. i \notin Before(i)
      OBVIOUS
    <3>2. Cardinality(upTo) = Cardinality(Before(i)) + 1
      BY <2>3, <3>1, FS_AddElement
    <3> QED BY <1>1, <1>5, <2>2, <3>2
  <2>5. after # {}
    <3>1. SUFFICES ASSUME after = {} PROVE FALSE
      BY <3>1
    <3>2. \A j \in places : j < i \/ j = i
      BY <3>1
    <3>3. places = upTo
      BY <3>2
    <3> QED BY <1>1, <1>5, <2>4, <3>3
  <2>6. PICK next \in after : \A j \in after : next <= j
    BY <2>5, HasFirst
  <2>7. Before(next) = upTo
    <3>1. next \in places /\ i < next
      OBVIOUS
    <3>2. \A j \in places : j < next <=> j < i \/ j = i
      BY <2>6, <3>1
    <3> QED BY <3>1, <3>2
  <2> QED BY <1>5, <2>4, <2>6, <2>7
<1> QED BY <1>1, <1>7, <1>8

\* A list of regions is a sequence of them.
LEMMA InOrderIsList ==
    ASSUME NEW places \in SUBSET DOMAIN Instrument
    PROVE  InOrder(places) \in Seq(Regions)
<1> DEFINE Before(i) == {j \in places : j < i}
           Kth(k) == CHOOSE i \in places : Cardinality(Before(i)) = k - 1
           n == Cardinality(places)
<1>1. Instrument \in Seq(Regions)
  BY FileAssumption DEF FileAssumption
<1>2. DOMAIN Instrument = 1 .. Len(Instrument) /\ Len(Instrument) \in Nat
  BY <1>1
<1>3. IsFiniteSet(places) /\ places \in SUBSET Nat
  <2>1. IsFiniteSet(DOMAIN Instrument)
    BY <1>2, FS_Interval
  <2> QED BY <1>2, <2>1, FS_Subset
<1>4. n \in Nat
  BY <1>3, FS_CardinalityType
<1>5. ASSUME NEW k \in 1 .. n
      PROVE  Instrument[Kth(k)] \in Regions
  <2>1. \E i \in places : Cardinality(Before(i)) = k - 1
    BY <1>3, KthPlace
  <2>2. Kth(k) \in DOMAIN Instrument
    BY <2>1
  <2> QED BY <2>2 DEF Regions, Range
<1> HIDE DEF Kth
<1>6. [k \in 1 .. n |-> Instrument[Kth(k)]] \in [1 .. n -> Regions]
  BY <1>5
<1>7. [k \in 1 .. n |-> Instrument[Kth(k)]] \in Seq(Regions)
  BY <1>4, <1>6, SeqDef
<1>8. InOrder(places) = [k \in 1 .. n |-> Instrument[Kth(k)]]
  BY Zenon DEF InOrder, Kth
<1> QED BY <1>7, <1>8

LEMMA ListsAreLists ==
    ASSUME NEW note
    PROVE  NoteList(note) \in Seq(Regions) /\ CCList(note) \in Seq(Regions)
  BY InOrderIsList DEF NoteList, CCList


-----------------------------------------------------------------------------
(* What is left to do.                                                       *)

Key(t) == <<t.channel, t.number>>

\* What noteOn itself has to do: turns of its loop, and the voice that a turn starts.
StartsNote(t) == t.op = "start" /\ t.type = "NoteOn"
OfNoteOn(t) == t.op = "regionOn" \/ StartsNote(t)

OfRegion(t) == t.op \notin {"choke", "noteOff"} => t.region \in Regions

\* noteOn was given a key that is down, and whatever it calls comes before what it
\* does next; after the voice, only turns of its loop are left.
Ordered(tasks, keys) ==
    \A p \in 1 .. Len(tasks) :
        /\ OfRegion(tasks[p])
        /\ OfNoteOn(tasks[p]) =>
              /\ Key(tasks[p]) \in keys
              /\ \A q \in p + 1 .. Len(tasks) : tasks[q].op = "regionOn"

\* The voice at a place in the vector plays on, although a group turns it off.
Sounds(voices, places, i, group) ==
    voices[places[i]].state = "playing" /\ OffGroup(voices[places[i]], group)

\* Where one does, the choke loop has yet to look before the group's voice starts.
Pending(tasks, voices, places, lost) ==
    \A p \in 1 .. Len(tasks) :
        StartsNote(tasks[p]) /\ D(tasks[p].region).group \notin lost =>
            \A i \in 1 .. Cardinality(Voices) :
                Sounds(voices, places, i, D(tasks[p].region).group) =>
                    \E q \in 1 .. p - 1 :
                        tasks[q] = Choke(i, D(tasks[p].region).group)

Listed(tasks) == \E S : tasks \in Seq(S)

AgendaInv ==
    /\ Listed(agenda)
    /\ Ordered(agenda, held)
    /\ Pending(agenda, voice, order, skipped)

\* Tasks that noteOn does not do itself.
Called(tasks) ==
    /\ Listed(tasks)
    /\ \A p \in 1 .. Len(tasks) : OfRegion(tasks[p]) /\ ~ OfNoteOn(tasks[p])

\* A task that is done leaves room for the calls it made.
LEMMA RestOf ==
    ASSUME NEW a, NEW pre, NEW b, Listed(a), a # <<>>, Called(pre), b = pre \o Tail(a)
    PROVE  /\ Listed(b)
           /\ Len(a) \in Nat /\ Len(pre) \in Nat
           /\ Len(b) = Len(pre) + Len(a) - 1
           /\ \A p \in 1 .. Len(pre) : b[p] = pre[p]
           /\ \A p \in 2 .. Len(a) : b[Len(pre) + p - 1] = a[p]
           /\ \A p \in Len(pre) + 1 .. Len(b) :
                 /\ p - Len(pre) + 1 \in 2 .. Len(a)
                 /\ b[p] = a[p - Len(pre) + 1]
<1>1. PICK S : a \in Seq(S)
  BY DEF Listed
<1>2. PICK T : pre \in Seq(T)
  BY DEF Called, Listed
<1> DEFINE U == S \cup T
<1>3. a \in Seq(U) /\ pre \in Seq(U)
  BY <1>1, <1>2, SeqMonotonic
<1>4. /\ Tail(a) \in Seq(U) /\ Len(Tail(a)) = Len(a) - 1
      /\ \A i \in 1 .. Len(Tail(a)) : Tail(a)[i] = a[i + 1]
  BY <1>3, HeadTailProperties
<1>5. Len(a) \in Nat /\ Len(pre) \in Nat /\ Len(a) >= 1
  BY <1>3, EmptySeq, LenProperties
<1>6. /\ b \in Seq(U) /\ Len(b) = Len(pre) + Len(a) - 1
      /\ \A i \in 1 .. Len(b) :
            b[i] = IF i <= Len(pre) THEN pre[i] ELSE Tail(a)[i - Len(pre)]
  BY <1>3, <1>4, <1>5, ConcatProperties
<1>7. \A p \in 1 .. Len(pre) : b[p] = pre[p]
  BY <1>5, <1>6
<1>8. \A p \in Len(pre) + 1 .. Len(b) :
          /\ p - Len(pre) + 1 \in 2 .. Len(a)
          /\ b[p] = a[p - Len(pre) + 1]
  BY <1>4, <1>5, <1>6
<1>9. \A p \in 2 .. Len(a) : b[Len(pre) + p - 1] = a[p]
  BY <1>5, <1>6, <1>8
<1> QED BY <1>5, <1>6, <1>7, <1>8, <1>9 DEF Listed

LEMMA RestIsOrdered ==
    ASSUME NEW a, NEW pre, NEW b, NEW keys, Listed(a), a # <<>>, Called(pre),
           b = pre \o Tail(a), Ordered(a, keys)
    PROVE  Ordered(b, keys)
<1> DEFINE n == Len(pre)
<1>1. /\ Len(a) \in Nat /\ n \in Nat /\ Len(b) = n + Len(a) - 1
      /\ \A p \in 1 .. n : b[p] = pre[p]
      /\ \A p \in n + 1 .. Len(b) : p - n + 1 \in 2 .. Len(a) /\ b[p] = a[p - n + 1]
  BY RestOf
<1> HIDE DEF n
<1>2. ASSUME NEW p \in 1 .. Len(b)
      PROVE  /\ OfRegion(b[p])
             /\ OfNoteOn(b[p]) =>
                   /\ Key(b[p]) \in keys
                   /\ \A q \in p + 1 .. Len(b) : b[q].op = "regionOn"
  <2>1. CASE p <= n
    <3>1. p \in 1 .. n
      BY <1>1, <2>1
    <3> QED BY <1>1, <3>1 DEF Called, n
  <2>2. CASE p > n
    <3>1. p \in n + 1 .. Len(b) /\ p - n + 1 \in 1 .. Len(a) /\ b[p] = a[p - n + 1]
      BY <1>1, <2>2
    <3>2. \A q \in p + 1 .. Len(b) :
              q - n + 1 \in (p - n + 1) + 1 .. Len(a) /\ b[q] = a[q - n + 1]
      BY <1>1, <2>2
    <3> QED BY <3>1, <3>2 DEF Ordered
  <2> QED BY <1>1, <2>1, <2>2
<1> QED BY <1>2 DEF Ordered

\* The choke loop may leave a place once nothing that the group turns off plays there.
LEMMA RestIsPending ==
    ASSUME NEW a, NEW pre, NEW b, NEW voices, NEW places, NEW lost,
           NEW voices2, NEW places2, NEW lost2,
           Listed(a), a # <<>>, Called(pre), b = pre \o Tail(a),
           Pending(a, voices, places, lost),
           lost \subseteq lost2,
           \A group : \A i \in 1 .. Cardinality(Voices) :
               Sounds(voices2, places2, i, group) =>
                   Sounds(voices, places, i, group) /\ a[1] # Choke(i, group)
    PROVE  Pending(b, voices2, places2, lost2)
<1> DEFINE n == Len(pre)
<1>1. /\ Len(a) \in Nat /\ n \in Nat /\ Len(b) = n + Len(a) - 1
      /\ \A p \in 1 .. n : b[p] = pre[p]
      /\ \A p \in 2 .. Len(a) : b[n + p - 1] = a[p]
      /\ \A p \in n + 1 .. Len(b) : p - n + 1 \in 2 .. Len(a) /\ b[p] = a[p - n + 1]
  BY RestOf
<1>2. \A p \in 1 .. n : ~ StartsNote(pre[p])
  BY DEF Called, OfNoteOn
<1> HIDE DEF n
<1>3. SUFFICES ASSUME NEW p \in 1 .. Len(b),
                      StartsNote(b[p]), D(b[p].region).group \notin lost2,
                      NEW i \in 1 .. Cardinality(Voices),
                      Sounds(voices2, places2, i, D(b[p].region).group)
               PROVE  \E q \in 1 .. p - 1 : b[q] = Choke(i, D(b[p].region).group)
  BY DEF Pending
<1>4. p \in n + 1 .. Len(b)
  BY <1>1, <1>2, <1>3
<1> DEFINE o == p - n + 1
           group == D(b[p].region).group
<1>5. o \in 2 .. Len(a) /\ b[p] = a[o]
  BY <1>1, <1>4
<1>6. Sounds(voices, places, i, group) /\ a[1] # Choke(i, group) /\ group \notin lost
  BY <1>3
<1> HIDE DEF group, o
<1>7. PICK q \in 1 .. o - 1 : a[q] = Choke(i, group)
  <2>1. o \in 1 .. Len(a) /\ StartsNote(a[o]) /\ D(a[o].region).group = group
    BY <1>1, <1>3, <1>5 DEF group
  <2> QED BY <1>6, <2>1 DEF Pending
<1>8. q \in 2 .. Len(a) /\ n + q - 1 \in 1 .. p - 1
  <2>1. q # 1
    BY <1>6, <1>7
  <2>2. o = p - n + 1 /\ p \in Int /\ q \in Int /\ o \in Int
    BY <1>1, <1>5 DEF o
  <2> QED BY <1>1, <1>4, <1>5, <2>1, <2>2
<1>9. b[n + q - 1] = Choke(i, group)
  BY <1>1, <1>7, <1>8
<1> QED BY <1>8, <1>9 DEF group


\* What the methods do to a voice that sounds: nothing starts it, or another note on it.
Quieter(after, w) ==
    after.state = "playing" =>
        /\ w.state = "playing" /\ after.region = w.region /\ after.type = w.type
        /\ after.channel = w.channel /\ after.number = w.number
        /\ w.noteIsOff => after.noteIsOff

LEMMA ReleasedIsQuieter ==
    ASSUME NEW w, Members(w)
    PROVE  Quieter(Released(w), w) /\ Released(w).state # "playing"
<1>1. CASE w.state = "playing"
  BY <1>1 DEF Members, Fields, Released, Quieter
<1>2. CASE w.state # "playing"
  BY <1>2 DEF Released, Quieter
<1> QED BY <1>1, <1>2

LEMMA ResetIsQuieter ==
    ASSUME NEW w, Members(w)
    PROVE  Quieter(Reset(w), w)
<1>1. Reset(w).state = "idle"
  BY DEF Members, Fields, Reset
<1> QED BY <1>1 DEF Quieter

\* A voice that plays on after the note-off of its key has heard of it.
Told(after, w, key) ==
    after.state = "playing" /\ w.region # Null /\ <<w.channel, w.number>> = key
        => after.noteIsOff

LEMMA NoteOffIsQuieter ==
    ASSUME NEW w, NEW channel, NEW note, NEW pedal, Members(w)
    PROVE  /\ Quieter(AfterVoiceNoteOff(w, channel, note, pedal), w)
           /\ Told(AfterVoiceNoteOff(w, channel, note, pedal), w, <<channel, note>>)
<1> DEFINE after == AfterVoiceNoteOff(w, channel, note, pedal)
           off == [w EXCEPT !.noteIsOff = TRUE]
           deaf == w.region = Null \/ w.state # "playing"
                       \/ <<w.channel, w.number>> # <<channel, note>>
<1>1. Members(off) /\ off.noteIsOff = TRUE /\ Quieter(off, w)
  BY DEF Members, Fields, Quieter
<1>2. CASE deaf
  <2>1. after = w
    BY <1>2 DEF AfterVoiceNoteOff
  <2>2. Quieter(w, w) /\ Told(w, w, <<channel, note>>)
    BY <1>2 DEF Quieter, Told
  <2> QED BY <2>1, <2>2
<1>3. CASE ~ deaf
  <2>1. after = Released(off) \/ after = off
    BY <1>3 DEF AfterVoiceNoteOff
  <2>2. Released(off).state # "playing"
    BY <1>1, ReleasedIsQuieter
  <2> HIDE DEF off, after
  <2>3. Quieter(off, w) /\ Told(off, w, <<channel, note>>)
    BY <1>1 DEF Told
  <2>4. Quieter(Released(off), w) /\ Told(Released(off), w, <<channel, note>>)
    BY <2>2 DEF Quieter, Told
  <2>5. Quieter(after, w) /\ Told(after, w, <<channel, note>>)
    BY <2>1, <2>3, <2>4
  <2> QED BY <2>5 DEF after
<1> QED BY <1>2, <1>3

LEMMA CCIsQuieter ==
    ASSUME NEW w, NEW n, NEW x, Members(w)
    PROVE  Quieter(AfterVoiceCC(w, n, x), w)
<1>1. AfterVoiceCC(w, n, x) = Released(w) \/ AfterVoiceCC(w, n, x) = w
  BY DEF AfterVoiceCC
<1> QED BY <1>1, ReleasedIsQuieter DEF Quieter

LEMMA StartedIs ==
    ASSUME NEW w, NEW task, Members(w)
    PROVE  LET after == Started(w, task)
           IN  /\ after.region = task.region /\ after.state = "playing"
               /\ after.type = task.type
               /\ after.channel = task.channel /\ after.number = task.number
<1> DEFINE after == Started(w, task)
<1>1. after.region = task.region /\ after.state = "playing" /\ after.type = task.type
  BY DEF Members, Fields, Started
<1>2. after.channel = task.channel /\ after.number = task.number
  BY DEF Members, Fields, Started
<1> QED BY <1>1, <1>2

-----------------------------------------------------------------------------
(* The notes and their keys.                                                 *)

\* A voice that a key started and that plays on has its key down, or has been told.
OfKey(w, keys) ==
    w.state = "playing" =>
        /\ w.region # Null
        /\ w.type = "NoteOn" => <<w.channel, w.number>> \in keys \/ w.noteIsOff

KeysInv == \A v \in Voices : OfKey(voice[v], held \cup missed)

NoteInv == PedalInv /\ AgendaInv /\ KeysInv

LEMMA QuieterKeepsKey ==
    ASSUME NEW w, NEW after, NEW keys, NEW keys2, Quieter(after, w), OfKey(w, keys),
           keys \subseteq keys2
    PROVE  OfKey(after, keys2)
  BY DEF Quieter, OfKey

\* The agenda goes on after a task, when no voice sounds that did not, and a place that
\* was looked at is silent.
LEMMA AgendaGoesOn ==
    ASSUME AgendaInv, agenda # <<>>, NEW pre, Called(pre), agenda' = pre \o Tail(agenda),
           UNCHANGED held, skipped \subseteq skipped',
           \A group : \A i \in 1 .. Cardinality(Voices) :
               Sounds(voice', order', i, group) =>
                   Sounds(voice, order, i, group) /\ agenda[1] # Choke(i, group)
    PROVE  AgendaInv'
<1>1. Listed(agenda) /\ Ordered(agenda, held) /\ Pending(agenda, voice, order, skipped)
  BY DEF AgendaInv
<1>2. Listed(agenda')
  BY <1>1, RestOf
<1>3. Ordered(agenda', held)
  BY <1>1, RestIsOrdered
<1>4. Pending(agenda', voice', order', skipped')
  BY <1>1, RestIsPending
<1> QED BY <1>2, <1>3, <1>4 DEF AgendaInv, Listed, Ordered, Pending, Sounds

LEMMA NothingIsCalled == ASSUME Listed(agenda), agenda # <<>>
                         PROVE  Called(<<>>) /\ Rest = <<>> \o Tail(agenda)
<1>1. PICK S : agenda \in Seq(S)
  BY DEF Listed
<1>2. Tail(agenda) \in Seq(S)
  BY <1>1, HeadTailProperties
<1>3. Rest = <<>> \o Tail(agenda)
  BY <1>2, ConcatEmptySeq DEF Rest
<1>4. <<>> \in Seq(S) /\ Len(<<>>) = 0
  BY EmptySeq
<1> QED BY <1>3, <1>4 DEF Called, Listed

LEMMA OneIsCalled ==
    ASSUME NEW t, OfRegion(t), ~ OfNoteOn(t)
    PROVE  Called(<<t>>)
<1> DEFINE s == <<t>>
<1>1. s \in Seq({t}) /\ Len(s) = 1 /\ s[1] = t
  OBVIOUS
<1> HIDE DEF s
<1>2. \A p \in 1 .. Len(s) : s[p] = t
  BY <1>1
<1>3. Called(s)
  BY <1>1, <1>2 DEF Called, Listed
<1> QED BY <1>3 DEF s

\* The turns of the loops of noteOff and cc.
RegionsOff(channel, note, velocity, rand) ==
    [i \in DOMAIN NoteList(note) |->
        RegionOff(NoteList(note)[i], channel, note, velocity, rand)]
RegionsCC(channel, n, value) ==
    [i \in DOMAIN CCList(n) |-> RegionCC(CCList(n)[i], channel, n, value)]

LEMMA TurnsAreCalled ==
    ASSUME NEW Turns, \A t \in Turns : OfRegion(t) /\ ~ OfNoteOn(t),
           NEW list \in Seq(Regions), NEW pre \in [DOMAIN list -> Turns]
    PROVE  Called(pre)
<1>1. DOMAIN list = 1 .. Len(list) /\ Len(list) \in Nat
  OBVIOUS
<1>2. pre \in Seq(Turns) /\ Len(pre) = Len(list)
  BY <1>1, SeqDef
<1> QED BY <1>1, <1>2 DEF Called, Listed

LEMMA RegionsOffAreCalled ==
    ASSUME NEW channel, NEW note, NEW velocity, NEW rand
    PROVE  Called(RegionsOff(channel, note, velocity, rand))
<1> DEFINE Turns == {RegionOff(r, channel, note, velocity, rand) : r \in Regions}
<1>1. \A t \in Turns : OfRegion(t) /\ ~ OfNoteOn(t)
  BY DEF OfRegion, OfNoteOn, StartsNote, RegionOff
<1>2. NoteList(note) \in Seq(Regions)
  BY ListsAreLists
<1>3. RegionsOff(channel, note, velocity, rand) \in [DOMAIN NoteList(note) -> Turns]
  BY <1>2 DEF RegionsOff
<1> HIDE DEF Turns
<1> QED BY <1>1, <1>2, <1>3, TurnsAreCalled

LEMMA RegionsCCAreCalled ==
    ASSUME NEW channel, NEW n, NEW x
    PROVE  Called(RegionsCC(channel, n, x))
<1> DEFINE Turns == {RegionCC(r, channel, n, x) : r \in Regions}
<1>1. \A t \in Turns : OfRegion(t) /\ ~ OfNoteOn(t)
  BY DEF OfRegion, OfNoteOn, StartsNote, RegionCC
<1>2. CCList(n) \in Seq(Regions)
  BY ListsAreLists
<1>3. RegionsCC(channel, n, x) \in [DOMAIN CCList(n) -> Turns]
  BY <1>2 DEF RegionsCC
<1> HIDE DEF Turns
<1> QED BY <1>1, <1>2, <1>3, TurnsAreCalled

\* Voices that only get quieter, in the places they have.
LEMMA QuieterSounds ==
    ASSUME PedalInv, UNCHANGED order,
           \A v \in Voices : Quieter(voice'[v], voice[v]),
           NEW i \in 1 .. Cardinality(Voices), NEW group,
           Sounds(voice', order', i, group)
    PROVE  Sounds(voice, order, i, group)
<1>1. order[i] \in Voices
  BY DEF PedalInv, Surjection
<1>2. Quieter(voice'[order[i]], voice[order[i]])
  BY <1>1
<1> QED BY <1>2 DEF Sounds, Quieter, OffGroup

\* noteOff, called by noteOn.
LEMMA NoteOffIsCalled ==
    ASSUME NoteInv, NEW rand \in Rands, DoNoteOff(rand)
    PROVE  AgendaInv' /\ KeysInv'
<1> DEFINE pre == RegionsOff(Task.channel, Task.number, NoteVelocity(Task.number), rand)
<1>1. /\ voice' = [v \in Voices |-> AfterVoiceNoteOff(voice[v], Task.channel, Task.number, Pedal)]
      /\ agenda' = pre \o Tail(agenda)
      /\ UNCHANGED <<order, held, missed, skipped>>
      /\ agenda # <<>> /\ agenda[1].op = "noteOff"
  BY DEF DoNoteOff, NoteOffBody, ForEach, RegionsOff, Pedal, midiVars, historyVars, Doing,
         Task, Rest
<1>2. \A v \in Voices : Quieter(voice'[v], voice[v])
  BY <1>1, NoteOffIsQuieter DEF NoteInv, PedalInv, VoiceInv
<1>3. Called(pre)
  BY RegionsOffAreCalled
<1>4. \A i, group : agenda[1] # Choke(i, group)
  BY <1>1 DEF Choke
<1>5. AgendaInv'
  BY <1>1, <1>2, <1>3, <1>4, QuieterSounds, AgendaGoesOn DEF NoteInv
<1>6. KeysInv'
  BY <1>1, <1>2, QuieterKeepsKey DEF NoteInv, KeysInv
<1> QED BY <1>5, <1>6

\* A turn of the choke loop, which silences what it finds and calls noteOff for it.
LEMMA ChokeLooks ==
    ASSUME NoteInv, DoChoke
    PROVE  AgendaInv' /\ KeysInv'
<1> DEFINE v == order[Task.index]
<1>1. /\ UNCHANGED <<order, held, missed, skipped>>
      /\ agenda # <<>> /\ agenda[1].op = "choke" /\ Task = agenda[1]
  BY DEF DoChoke, midiVars, historyVars, Doing, Task
<1>2. \A i \in 1 .. Cardinality(Voices) : order[i] \in Voices
  BY DEF NoteInv, PedalInv, Surjection
<1>3. \A i, group : agenda[1] = Choke(i, group) => v = order[i] /\ Task.group = group
  BY <1>1 DEF Choke
<1>4. CASE OffGroup(voice[v], Task.group)
  <2> DEFINE call == CallNoteOff(voice[v].channel, voice[v].number)
  <2>1. /\ voice' = [voice EXCEPT ![v] = Released(voice[v])]
        /\ agenda' = <<call>> \o Tail(agenda)
    BY <1>4 DEF DoChoke, Rest
  <2>2. Called(<<call>>)
    BY OneIsCalled DEF OfRegion, OfNoteOn, StartsNote, CallNoteOff
  <2>3. voice' = [u \in Voices |-> IF u = v THEN Released(voice[v]) ELSE voice[u]]
    BY <2>1 DEF NoteInv, PedalInv
  <2>4. \A u \in Voices : /\ Quieter(voice'[u], voice[u])
                          /\ u = v => voice'[u].state # "playing"
    <3>1. \A u \in Voices : Quieter(voice[u], voice[u])
      BY DEF Quieter
    <3> QED BY <2>3, <3>1, ReleasedIsQuieter DEF NoteInv, PedalInv, VoiceInv
  <2>5. \A group : \A i \in 1 .. Cardinality(Voices) :
            Sounds(voice', order', i, group) =>
                Sounds(voice, order, i, group) /\ agenda[1] # Choke(i, group)
    BY <1>1, <1>2, <1>3, <2>4, QuieterSounds DEF NoteInv, Sounds
  <2>6. AgendaInv'
    BY <1>1, <2>1, <2>2, <2>5, AgendaGoesOn DEF NoteInv
  <2>7. KeysInv'
    BY <1>1, <2>4, QuieterKeepsKey DEF NoteInv, KeysInv
  <2> QED BY <2>6, <2>7
<1>5. CASE ~ OffGroup(voice[v], Task.group)
  <2>1. UNCHANGED voice /\ agenda' = <<>> \o Tail(agenda) /\ Called(<<>>)
    BY <1>1, <1>5, NothingIsCalled DEF DoChoke, NoteInv, AgendaInv
  <2>2. \A group : \A i \in 1 .. Cardinality(Voices) :
            Sounds(voice', order', i, group) =>
                Sounds(voice, order, i, group) /\ agenda[1] # Choke(i, group)
    BY <1>1, <1>3, <1>5, <2>1 DEF Sounds
  <2>3. AgendaInv'
    BY <1>1, <2>1, <2>2, AgendaGoesOn DEF NoteInv
  <2> QED BY <1>1, <2>1, <2>3 DEF NoteInv, KeysInv
<1> QED BY <1>4, <1>5

\* A turn of a loop that moves no voice.
LEMMA LoopGoesOn ==
    ASSUME NoteInv, agenda # <<>>, agenda[1].op # "choke", NEW pre, Called(pre),
           agenda' = pre \o Tail(agenda), UNCHANGED <<voice, order, held, missed, skipped>>
    PROVE  AgendaInv' /\ KeysInv'
<1>1. \A group : \A i \in 1 .. Cardinality(Voices) :
          Sounds(voice', order', i, group) =>
              Sounds(voice, order, i, group) /\ agenda[1] # Choke(i, group)
  BY DEF Sounds, Choke
<1>2. AgendaInv'
  BY <1>1, AgendaGoesOn DEF NoteInv
<1> QED BY <1>2 DEF NoteInv, KeysInv

LEMMA TurnGoesOn ==
    ASSUME NoteInv, DoNoteOffRefused \/ DoRegionOff \/ DoRegionCC
    PROVE  AgendaInv' /\ KeysInv'
<1> DEFINE Calls(t) == <<t>> \o Rest
           off == Start(Task.region, "NoteOff", Task.channel, Task.number)
           ctl == Start(Task.region, "CC", Task.channel, Task.number)
<1>1. /\ agenda # <<>> /\ Task = agenda[1] /\ Rest = Tail(agenda)
      /\ agenda[1].op \in {"noteOff", "regionOff", "regionCC"}
      /\ UNCHANGED <<voice, order, held, missed, skipped>>
  BY DEF DoNoteOffRefused, DoRegionOff, DoRegionCC, Doing, midiVars, historyVars, Task, Rest
<1>2. agenda[1].op # "noteOff" => agenda[1].region \in Regions
  <2>1. PICK S : agenda \in Seq(S)
    BY DEF NoteInv, AgendaInv, Listed
  <2>2. 1 \in 1 .. Len(agenda)
    BY <1>1, <2>1, EmptySeq, LenProperties
  <2>3. OfRegion(agenda[1])
    BY <2>2 DEF NoteInv, AgendaInv, Ordered
  <2> QED BY <1>1, <2>3 DEF OfRegion
<1>3. CASE agenda' = Rest
  BY <1>1, <1>3, NothingIsCalled, LoopGoesOn DEF NoteInv, AgendaInv
<1>4. CASE DoRegionOff /\ agenda' = Calls(off)
  <2>1. Called(<<off>>)
    BY <1>1, <1>2, <1>4, OneIsCalled DEF DoRegionOff, Doing, OfRegion, OfNoteOn, StartsNote, Start
  <2> QED BY <1>1, <1>4, <2>1, LoopGoesOn
<1>5. CASE DoRegionCC /\ agenda' = Calls(ctl)
  <2>1. Called(<<ctl>>)
    BY <1>1, <1>2, <1>5, OneIsCalled DEF DoRegionCC, Doing, OfRegion, OfNoteOn, StartsNote, Start
  <2> QED BY <1>1, <1>5, <2>1, LoopGoesOn
<1>6. agenda' = Rest \/ (DoRegionOff /\ agenda' = Calls(off))
                     \/ (DoRegionCC /\ agenda' = Calls(ctl))
  BY DEF DoNoteOffRefused, DoRegionOff, DoRegionCC
<1> QED BY <1>3, <1>4, <1>5, <1>6

JoinOf(z, x, y) ==
    /\ Len(z) = Len(x) + Len(y)
    /\ \A i \in 1 .. Len(z) : z[i] = IF i <= Len(x) THEN x[i] ELSE y[i - Len(x)]

LEMMA Joined ==
    ASSUME NEW U, NEW x \in Seq(U), NEW y \in Seq(U)
    PROVE  x \o y \in Seq(U) /\ JoinOf(x \o y, x, y)
<1>1. x \o y \in Seq(U) /\ Len(x \o y) = Len(x) + Len(y)
  BY ConcatProperties
<1>2. \A i \in 1 .. Len(x) + Len(y) :
          (x \o y)[i] = IF i <= Len(x) THEN x[i] ELSE y[i - Len(x)]
  BY ConcatProperties
<1> QED BY <1>1, <1>2 DEF JoinOf

\* What noteOn has to do when a region plays: a look at every voice, the note, and the
\* turns that are left.
Then(b, n, c, t, a) ==
    /\ Listed(b) /\ Len(b) \in Nat /\ b[n + 1] = t
    /\ \A p \in 1 .. n : b[p] = c[p]
    /\ n + 1 \in 1 .. Len(b)
    /\ \A p \in n + 2 .. Len(b) : p - n \in 2 .. Len(a) /\ b[p] = a[p - n]
    /\ Len(a) \in Nat

LEMMA LoopThenStart ==
    ASSUME NEW n \in Nat, NEW c, NEW t, NEW one, NEW a, NEW b, Listed(c), Len(c) = n,
           Listed(one), Len(one) = 1, one[1] = t,
           Listed(a), a # <<>>, b = c \o one \o Tail(a)
    PROVE  Then(b, n, c, t, a)
<1>1. PICK S : a \in Seq(S)
  BY DEF Listed
<1>2. PICK T : c \in Seq(T)
  BY DEF Listed
<1>3. PICK R : one \in Seq(R)
  BY DEF Listed
<1> DEFINE U == S \cup T \cup R
           d == c \o one
<1>4. a \in Seq(U) /\ c \in Seq(U) /\ one \in Seq(U)
  BY <1>1, <1>2, <1>3, SeqMonotonic
<1> HIDE DEF U
<1>9. b = d \o Tail(a)
  OBVIOUS
<1>5. /\ d \in Seq(U) /\ Len(d) = n + 1
      /\ \A i \in 1 .. Len(d) : d[i] = IF i <= n THEN c[i] ELSE one[i - n]
  <2>1. d \in Seq(U) /\ JoinOf(d, c, one)
    BY <1>4, Joined
  <2> HIDE DEF d
  <2> QED BY <2>1 DEF JoinOf
<1>6. d[n + 1] = t /\ \A p \in 1 .. n : d[p] = c[p]
  BY <1>5
<1>7. /\ Tail(a) \in Seq(U) /\ Len(Tail(a)) = Len(a) - 1
      /\ \A i \in 1 .. Len(Tail(a)) : Tail(a)[i] = a[i + 1]
  BY <1>4, HeadTailProperties
<1>8. Len(a) \in Nat /\ Len(a) >= 1
  BY <1>4, EmptySeq, LenProperties
<1> HIDE DEF d
<1>10. /\ b \in Seq(U) /\ Len(b) = n + Len(a) /\ Len(b) \in Nat
       /\ \A i \in 1 .. Len(b) : b[i] = IF i <= n + 1 THEN d[i] ELSE Tail(a)[i - (n + 1)]
  <2>0. b \in Seq(U) /\ JoinOf(b, d, Tail(a))
    BY <1>5, <1>7, <1>9, Joined
  <2>1. /\ b \in Seq(U) /\ Len(b) = Len(d) + Len(Tail(a))
        /\ \A i \in 1 .. Len(b) :
              b[i] = IF i <= Len(d) THEN d[i] ELSE Tail(a)[i - Len(d)]
    BY <2>0 DEF JoinOf
  <2>2. Len(b) = n + Len(a) /\ n + Len(a) \in Nat
    BY <1>5, <1>7, <1>8, <2>1
  <2> QED BY <1>5, <2>1, <2>2
<1>11. \A p \in n + 2 .. Len(b) :
          /\ p - (n + 1) \in 1 .. Len(Tail(a)) /\ p - n \in 2 .. Len(a)
          /\ b[p] = Tail(a)[p - (n + 1)]
  BY <1>7, <1>8, <1>10
<1>12. \A p \in n + 2 .. Len(b) : b[p] = a[p - n]
  <2>1. \A p \in n + 2 .. Len(b) : p - (n + 1) + 1 = p - n
    BY <1>8, <1>10
  <2> QED BY <1>7, <1>11, <2>1
<1> QED BY <1>6, <1>8, <1>10, <1>11, <1>12 DEF Then, Listed

\* A turn of the loop of noteOn.
LEMMA RegionOnGoesOn ==
    ASSUME NoteInv, DoRegionOn
    PROVE  AgendaInv' /\ KeysInv'
<1> DEFINE r == Task.region
           g == D(r).group
           n == Cardinality(Voices)
           t == Start(r, "NoteOn", Task.channel, Task.number)
           b == ChokeLoop(g) \o <<t>> \o Tail(agenda)
<1>1. /\ agenda # <<>> /\ Task = agenda[1] /\ Rest = Tail(agenda)
      /\ agenda[1].op = "regionOn"
      /\ UNCHANGED <<voice, order, held, missed>>
      /\ \/ agenda' = Rest /\ skipped' = skipped
         \/ agenda' = b /\ skipped' = skipped \ {g}
  BY DEF DoRegionOn, Doing, midiVars, Task, Rest
<1>2. CASE agenda' = Rest /\ skipped' = skipped
  BY <1>1, <1>2, NothingIsCalled, LoopGoesOn DEF NoteInv, AgendaInv
<1>3. CASE agenda' = b /\ skipped' = skipped \ {g}
  <2>1. n \in Nat
    BY MidiAssumption, FS_CardinalityType DEF MidiAssumption
  <2>2. /\ ChokeLoop(g) \in Seq({Choke(i, g) : i \in 1 .. n}) /\ Len(ChokeLoop(g)) = n
        /\ \A i \in 1 .. n : ChokeLoop(g)[i] = Choke(i, g)
    <3> DEFINE T == {Choke(i, g) : i \in 1 .. n}
               c == [i \in 1 .. n |-> Choke(i, g)]
    <3>1. c \in [1 .. n -> T]
      OBVIOUS
    <3>2. c \in Seq(T)
      BY <2>1, <3>1, SeqDef
    <3>3. DOMAIN c = 1 .. n
      OBVIOUS
    <3>4. Len(c) = n
      BY <2>1, <3>2, <3>3
    <3>5. ChokeLoop(g) = c
      BY DEF ChokeLoop
    <3> QED BY <3>2, <3>4, <3>5
  <2>3. Listed(ChokeLoop(g)) /\ Listed(agenda)
    BY <2>2 DEF Listed, NoteInv, AgendaInv
  <2> HIDE DEF n, g, t
  <2>4. /\ Listed(b) /\ Len(b) \in Nat /\ b[n + 1] = t
        /\ \A p \in 1 .. n : b[p] = Choke(p, g)
        /\ \A p \in n + 2 .. Len(b) : p - n \in 2 .. Len(agenda) /\ b[p] = agenda[p - n]
        /\ Len(agenda) \in Nat
    <3> DEFINE c == ChokeLoop(g)
    <3>1. Len(c) = n /\ \A p \in 1 .. n : c[p] = Choke(p, g)
      BY <2>2
    <3> DEFINE one == <<t>>
    <3>2. Listed(c) /\ b = c \o one \o Tail(agenda)
      BY <2>3
    <3>a. one \in Seq({t}) /\ Len(one) = 1 /\ one[1] = t
      OBVIOUS
    <3> HIDE DEF b, c, one
    <3>b. Listed(one)
      BY <3>a DEF Listed
    <3>3. Then(b, n, c, t, agenda)
      BY <1>1, <2>1, <2>3, <3>1, <3>2, <3>a, <3>b, LoopThenStart
    <3> QED BY <3>1, <3>3 DEF Then
  <2>c. \A p \in 1 .. n : b[p].op = "choke"
    <3>1. \A p : Choke(p, g).op = "choke"
      BY DEF Choke
    <3> QED BY <2>4, <3>1
  <2>5. 1 \in 1 .. Len(agenda)
    BY <1>1, <2>3, <2>4, EmptySeq DEF Listed
  <2>6. /\ r \in Regions /\ Key(agenda[1]) \in held
        /\ \A q \in 2 .. Len(agenda) : agenda[q].op = "regionOn"
    <3>1. OfRegion(agenda[1]) /\ OfNoteOn(agenda[1])
      BY <1>1, <2>5 DEF NoteInv, AgendaInv, Ordered, OfNoteOn
    <3>2. 1 + 1 = 2
      OBVIOUS
    <3> QED BY <1>1, <2>5, <3>1, <3>2 DEF NoteInv, AgendaInv, Ordered, OfRegion
  <2>7. /\ t.op = "start" /\ t.region = r /\ Key(t) = Key(agenda[1])
    BY <1>1 DEF t, Start, Key
  <2> HIDE DEF b, r
  <2>8. \A p \in n + 2 .. Len(b) : b[p].op = "regionOn" /\ p - n \in 1 .. Len(agenda)
    BY <2>1, <2>4, <2>6
  <2>9. \A p \in 1 .. Len(b) : p \in 1 .. n \/ p = n + 1 \/ p \in n + 2 .. Len(b)
    BY <2>1, <2>4
  <2>10. Ordered(b, held)
    <3>1. \A p \in 1 .. n : OfRegion(b[p]) /\ ~ OfNoteOn(b[p])
      BY <2>4, <2>c DEF OfRegion, OfNoteOn, StartsNote
    <3>2. /\ OfRegion(b[n + 1]) /\ Key(b[n + 1]) \in held
          /\ \A q \in n + 1 + 1 .. Len(b) : b[q].op = "regionOn"
      <4>1. n + 1 + 1 = n + 2
        BY <2>1
      <4> QED BY <2>4, <2>6, <2>7, <2>8, <4>1 DEF OfRegion
    <3>3. ASSUME NEW p \in n + 2 .. Len(b)
          PROVE  /\ OfRegion(b[p]) /\ Key(b[p]) \in held
                 /\ \A q \in p + 1 .. Len(b) : b[q].op = "regionOn"
      <4>1. OfRegion(b[p]) /\ Key(b[p]) \in held
        BY <2>4, <2>8 DEF NoteInv, AgendaInv, Ordered, OfNoteOn
      <4>2. \A q \in p + 1 .. Len(b) : q \in n + 2 .. Len(b)
        BY <2>1, <2>4
      <4> QED BY <2>8, <4>1, <4>2
    <3> QED BY <2>9, <3>1, <3>2, <3>3 DEF Ordered
  <2>11. Pending(b, voice, order, skipped')
    <3>1. \A p \in 1 .. Len(b) : StartsNote(b[p]) => p = n + 1
      BY <2>8, <2>9, <2>c DEF StartsNote
    <3>2. D(b[n + 1].region).group = g /\ 1 .. n = 1 .. (n + 1) - 1
      BY <2>1, <2>4, <2>7 DEF g
    <3>3. \A i \in 1 .. n : \E q \in 1 .. (n + 1) - 1 : b[q] = Choke(i, g)
      BY <2>4, <3>2
    <3> QED BY <3>1, <3>2, <3>3 DEF Pending, n
  <2>12. AgendaInv'
    BY <1>1, <1>3, <2>4, <2>10, <2>11 DEF AgendaInv, Listed, Ordered, Pending, Sounds
  <2> QED BY <1>1, <2>12 DEF NoteInv, KeysInv
<1> QED BY <1>1, <1>2, <1>3

LEMMA TailOf ==
    ASSUME NEW a, Listed(a), a # <<>>
    PROVE  /\ Listed(Tail(a)) /\ Len(a) \in Nat /\ Len(Tail(a)) = Len(a) - 1
           /\ \A p \in 1 .. Len(Tail(a)) : p + 1 \in 2 .. Len(a) /\ Tail(a)[p] = a[p + 1]
<1>1. PICK S : a \in Seq(S)
  BY DEF Listed
<1>2. /\ Tail(a) \in Seq(S) /\ Len(Tail(a)) = Len(a) - 1
      /\ \A p \in 1 .. Len(Tail(a)) : Tail(a)[p] = a[p + 1]
  BY <1>1, HeadTailProperties
<1>3. Len(a) \in Nat
  BY <1>1, LenProperties
<1>4. \A p \in 1 .. Len(Tail(a)) : p + 1 \in 2 .. Len(a)
  BY <1>2, <1>3
<1> QED BY <1>2, <1>3, <1>4 DEF Listed

\* Tasks among which no voice is started for a key are in order, and wait for no choke.
LEMMA NothingStarts ==
    ASSUME NEW a, NEW keys, NEW voices, NEW places, NEW lost,
           \A p \in 1 .. Len(a) :
               /\ OfRegion(a[p])
               /\ a[p].op = "regionOn" \/ ~ OfNoteOn(a[p])
               /\ a[p].op = "regionOn" =>
                     /\ Key(a[p]) \in keys
                     /\ \A q \in p + 1 .. Len(a) : a[q].op = "regionOn"
    PROVE  Ordered(a, keys) /\ Pending(a, voices, places, lost)
<1>1. \A p \in 1 .. Len(a) : ~ StartsNote(a[p])
  BY DEF StartsNote, OfNoteOn
<1> QED BY <1>1 DEF Ordered, Pending, OfNoteOn

\* After the voice that noteOn starts, turns of its loop are left.
LEMMA LastTurns ==
    ASSUME AgendaInv, agenda # <<>>, agenda' = Tail(agenda), UNCHANGED held,
           \A p \in 2 .. Len(agenda) : agenda[p].op = "regionOn"
    PROVE  AgendaInv'
<1>1. /\ Listed(agenda') /\ Len(agenda) \in Nat /\ Len(agenda') = Len(agenda) - 1
      /\ \A p \in 1 .. Len(agenda') : p + 1 \in 2 .. Len(agenda) /\ agenda'[p] = agenda[p + 1]
  BY TailOf DEF AgendaInv
<1>4. \A p \in 1 .. Len(agenda') : p + 1 \in 2 .. Len(agenda) /\ p + 1 \in 1 .. Len(agenda)
  BY <1>1
<1>5. \A p \in 1 .. Len(agenda') : agenda'[p].op = "regionOn"
  BY <1>1, <1>4
<1>6. \A p \in 1 .. Len(agenda') : OfRegion(agenda'[p]) /\ Key(agenda'[p]) \in held
  BY <1>1, <1>4, <1>5 DEF AgendaInv, Ordered, OfNoteOn
<1>7. \A p \in 1 .. Len(agenda') : \A q \in p + 1 .. Len(agenda') : q \in 1 .. Len(agenda')
  BY <1>1
<1>8. Ordered(agenda', held) /\ Pending(agenda', voice', order', skipped')
  BY <1>5, <1>6, <1>7, NothingStarts
<1> QED BY <1>1, <1>8 DEF AgendaInv, Listed, Ordered, Pending, Sounds

\* The voice that a task starts is of a region, and of a key that is down if a key
\* started it; it sounds for no group if none did.
LEMMA StartedOfKey ==
    ASSUME NoteInv, agenda # <<>>, agenda[1].op = "start", NEW w, Members(w)
    PROVE  /\ OfKey(Started(w, agenda[1]), held \cup missed)
           /\ ~ StartsNote(agenda[1]) => Started(w, agenda[1]).type # "NoteOn"
           /\ StartsNote(agenda[1]) =>
                 \A p \in 2 .. Len(agenda) : agenda[p].op = "regionOn"
<1> DEFINE t == agenda[1]
           after == Started(w, t)
<1>1. /\ after.region = t.region /\ after.type = t.type
      /\ after.channel = t.channel /\ after.number = t.number
  BY StartedIs
<1>2. PICK S : agenda \in Seq(S)
  BY DEF NoteInv, AgendaInv, Listed
<1>3. 1 \in 1 .. Len(agenda) /\ 1 + 1 = 2
  BY <1>2, EmptySeq, LenProperties
<1>4. /\ OfRegion(t)
      /\ StartsNote(t) => /\ Key(t) \in held
                          /\ \A p \in 2 .. Len(agenda) : agenda[p].op = "regionOn"
  BY <1>3 DEF NoteInv, AgendaInv, Ordered, OfNoteOn
<1>5. t.region # Null
  BY <1>4, FileAssumption DEF OfRegion, FileAssumption
<1> HIDE DEF after
<1>6. ~ StartsNote(t) => after.type # "NoteOn"
  BY <1>1 DEF StartsNote
<1>7. OfKey(after, held \cup missed)
  BY <1>1, <1>4, <1>5 DEF OfKey, StartsNote, Key
<1> QED BY <1>4, <1>6, <1>7 DEF after

\* A free voice is found.
LEMMA StartGoesOn ==
    ASSUME NoteInv, DoStart
    PROVE  AgendaInv' /\ KeysInv'
<1> DEFINE v == FirstOf(Free)
           w == voice[v]
           t == agenda[1]
<1>1. /\ agenda # <<>> /\ t.op = "start" /\ Task = t /\ Rest = Tail(agenda)
      /\ agenda' = Rest
      /\ UNCHANGED <<order, held, missed, skipped>>
      /\ voice' = [voice EXCEPT ![v] = Started(w, t)]
  BY DEF DoStart, Doing, midiVars, historyVars, Task, Rest
<1>2. v \in Voices
  BY FirstIsFree DEF DoStart, Free, NoteInv
<1> HIDE DEF v
<1>3. \A u \in Voices : voice'[u] = IF u = v THEN Started(w, t) ELSE voice[u]
  BY <1>1 DEF NoteInv, PedalInv
<1> DEFINE after == Started(w, t)
<1>4. /\ OfKey(after, held \cup missed)
      /\ ~ StartsNote(t) => after.type # "NoteOn"
      /\ StartsNote(t) => \A p \in 2 .. Len(agenda) : agenda[p].op = "regionOn"
  BY <1>1, <1>2, StartedOfKey DEF NoteInv, PedalInv, VoiceInv
<1> HIDE DEF after, w
<1>5. KeysInv'
  BY <1>1, <1>3, <1>4 DEF NoteInv, KeysInv, after
<1>6. CASE StartsNote(t)
  BY <1>1, <1>4, <1>5, <1>6, LastTurns DEF NoteInv
<1>7. CASE ~ StartsNote(t)
  <2>1. \A group : \A u \in Voices :
            voice'[u].state = "playing" /\ OffGroup(voice'[u], group) =>
                voice[u].state = "playing" /\ OffGroup(voice[u], group)
    <3>1. after.type # "NoteOn"
      BY <1>4, <1>7
    <3>2. \A group : ~ OffGroup(after, group)
      BY <3>1 DEF OffGroup
    <3> QED BY <1>3, <3>2 DEF after
  <2>2. \A i \in 1 .. Cardinality(Voices) : order[i] \in Voices
    BY DEF NoteInv, PedalInv, Surjection
  <2>3. \A group : \A i \in 1 .. Cardinality(Voices) :
            Sounds(voice', order', i, group) =>
                Sounds(voice, order, i, group) /\ agenda[1] # Choke(i, group)
    <3>1. \A i, group : agenda[1] # Choke(i, group)
      BY <1>1 DEF Choke
    <3>2. SUFFICES ASSUME NEW group, NEW i \in 1 .. Cardinality(Voices),
                          Sounds(voice', order', i, group)
                   PROVE  Sounds(voice, order, i, group)
      BY <3>1
    <3> QED BY <1>1, <2>1, <2>2, <3>2 DEF Sounds
  <2>4. agenda' = <<>> \o Tail(agenda) /\ Called(<<>>)
    BY <1>1, NothingIsCalled DEF NoteInv, AgendaInv
  <2> QED BY <1>1, <1>5, <2>3, <2>4, AgendaGoesOn DEF NoteInv
<1> QED BY <1>5, <1>6, <1>7

\* None is, and the voices are sorted: what the choke loops had yet to look at, they may
\* now miss.
LEMMA StealGoesOn ==
    ASSUME NoteInv, NEW sorted \in Bijection(1 .. Cardinality(Voices), Voices),
           NEW quiet \in SUBSET Voices, DoSteal(sorted, quiet)
    PROVE  AgendaInv' /\ KeysInv'
<1> DEFINE v == FirstOf(quiet)
           w == Reset(voice[v])
           t == agenda[1]
           chokes == {agenda[i].group : i \in {j \in DOMAIN agenda : agenda[j].op = "choke"}}
<1>1. /\ agenda # <<>> /\ t.op = "start" /\ Task = t /\ Rest = Tail(agenda)
      /\ agenda' = Rest /\ order' = sorted
      /\ UNCHANGED <<held, missed>>
      /\ skipped' = skipped \cup chokes
  BY DEF DoSteal, Doing, midiVars, historyVars, Task, Rest
<1> DEFINE after == Started(w, t)
<1>2. \/ quiet # {} /\ voice' = [voice EXCEPT ![v] = after]
      \/ voice' = voice
  BY <1>1 DEF DoSteal
<1> HIDE DEF v
<1>3. quiet # {} => v \in Voices
  BY FirstIsFree DEF NoteInv, v
<1>4. \A u \in Voices : voice'[u] = after \/ voice'[u] = voice[u]
  BY <1>2 DEF NoteInv, PedalInv
<1>5. quiet # {} => Members(w)
  <2>1. quiet # {} => VoiceInv(voice[v], Pedal)
    BY <1>3 DEF NoteInv, PedalInv
  <2> QED BY <2>1, ResetKeeps DEF VoiceInv
<1>6. quiet # {} => OfKey(after, held \cup missed)
  BY <1>1, <1>5, StartedOfKey
<1>7. /\ quiet # {} /\ ~ StartsNote(t) => after.type # "NoteOn"
      /\ quiet # {} /\ StartsNote(t) => \A p \in 2 .. Len(agenda) : agenda[p].op = "regionOn"
  BY <1>1, <1>5, StartedOfKey
<1>8. KeysInv'
  BY <1>1, <1>2, <1>4, <1>6 DEF NoteInv, KeysInv
<1> HIDE DEF after, w
<1>9. CASE quiet # {} /\ StartsNote(t)
  BY <1>1, <1>7, <1>8, <1>9, LastTurns DEF NoteInv
<1>10. CASE ~ (quiet # {} /\ StartsNote(t))
  <2>1. \A group : \A u \in Voices :
            voice'[u].state = "playing" /\ OffGroup(voice'[u], group) =>
                voice[u].state = "playing" /\ OffGroup(voice[u], group)
    <3>1. CASE voice' = voice
      BY <3>1
    <3>2. CASE quiet # {} /\ after.type # "NoteOn"
      <4>1. \A group : ~ OffGroup(after, group)
        BY <3>2 DEF OffGroup
      <4> QED BY <1>4, <4>1
    <3> QED BY <1>2, <1>7, <1>10, <3>1, <3>2
  <2>2. /\ order \in [1 .. Cardinality(Voices) -> Voices]
        /\ \A u \in Voices : \E i \in 1 .. Cardinality(Voices) : order[i] = u
        /\ \A i \in 1 .. Cardinality(Voices) : sorted[i] \in Voices
    BY DEF NoteInv, PedalInv, Surjection, Bijection, Injection
  <2>3. agenda' = <<>> \o Tail(agenda) /\ Called(<<>>)
    BY <1>1, NothingIsCalled DEF NoteInv, AgendaInv
  <2>5. /\ Listed(agenda') /\ Len(agenda) \in Nat
        /\ \A p \in 1 .. Len(agenda') : p + 1 \in 2 .. Len(agenda) /\ agenda'[p] = agenda[p + 1]
    BY <1>1, TailOf DEF NoteInv, AgendaInv
  <2>6. Ordered(agenda', held)
    BY <1>1, <2>3, RestIsOrdered DEF NoteInv, AgendaInv
  <2>7. ASSUME NEW p \in 1 .. Len(agenda'), StartsNote(agenda'[p]),
               D(agenda'[p].region).group \notin skipped',
               NEW i \in 1 .. Cardinality(Voices),
               Sounds(voice', order', i, D(agenda'[p].region).group)
        PROVE  FALSE
    <3> DEFINE group == D(agenda'[p].region).group
    <3>1. /\ p + 1 \in 1 .. Len(agenda) /\ StartsNote(agenda[p + 1])
          /\ D(agenda[p + 1].region).group = group
      BY <2>5, <2>7
    <3>2. group \notin skipped /\ group \notin chokes
      BY <1>1, <2>7
    <3> HIDE DEF group
    <3>3. PICK j \in 1 .. Cardinality(Voices) : order[j] = sorted[i]
      BY <2>2
    <3>4. Sounds(voice, order, j, group)
      BY <1>1, <2>1, <2>2, <2>7, <3>3 DEF Sounds, group
    <3>5. PICK q \in 1 .. (p + 1) - 1 : agenda[q] = Choke(j, group)
      BY <3>1, <3>2, <3>4 DEF NoteInv, AgendaInv, Pending
    <3>6. q \in 1 .. Len(agenda)
      BY <2>5, <3>1, <3>5
    <3>7. q \in DOMAIN agenda
      BY <3>6 DEF NoteInv, AgendaInv, Listed
    <3>8. agenda[q].op = "choke" /\ agenda[q].group = group
      BY <3>5 DEF Choke
    <3> QED BY <3>2, <3>7, <3>8
  <2>8. Pending(agenda', voice', order', skipped')
    BY <2>7 DEF Pending
  <2>9. AgendaInv'
    BY <1>1, <2>5, <2>6, <2>8 DEF AgendaInv, Listed, Ordered, Pending, Sounds
  <2> QED BY <1>8, <2>9
<1> QED BY <1>9, <1>10

-----------------------------------------------------------------------------
(* The handlers, which begin when nothing is left to do.                     *)

LEMMA CallsAreAlone ==
    ASSUME NEW pre, Called(pre), agenda' = pre
    PROVE  AgendaInv'
<1>1. \A p \in 1 .. Len(pre) : pre[p].op # "regionOn"
  BY DEF Called, OfNoteOn
<1>2. Ordered(pre, held') /\ Pending(pre, voice', order', skipped')
  BY <1>1, NothingStarts DEF Called
<1> QED BY <1>2 DEF Called, AgendaInv, Listed, Ordered, Pending, Sounds

\* Nothing is left to do, and no voice is told of anything but to be quiet.
LEMMA IdleStays ==
    ASSUME NoteInv, UNCHANGED <<agenda, order>>, agenda = <<>>,
           \A v \in Voices : Quieter(voice'[v], voice[v]),
           held \cup missed \subseteq held' \cup missed'
    PROVE  AgendaInv' /\ KeysInv'
<1>1. Len(agenda) = 0 /\ Listed(agenda)
  BY EmptySeq DEF NoteInv, AgendaInv
<1>2. AgendaInv'
  BY <1>1, CallsAreAlone DEF Called
<1>3. KeysInv'
  BY QuieterKeepsKey DEF NoteInv, KeysInv
<1> QED BY <1>2, <1>3

\* noteOn, for a key that goes down.
LEMMA NoteOnBegins ==
    ASSUME NoteInv, NEW channel, NEW note, NEW velocity, NEW rand,
           NoteOn(channel, note, velocity, rand)
    PROVE  AgendaInv' /\ KeysInv'
<1> DEFINE list == NoteList(note)
           turns == [i \in DOMAIN list |-> RegionOn(list[i], channel, note, velocity, rand)]
           Turns == {RegionOn(r, channel, note, velocity, rand) : r \in Regions}
<1>1. /\ agenda' = turns /\ UNCHANGED <<voice, missed>>
      /\ held' = held \cup {<<channel, note>>}
  BY DEF NoteOn, ForEach
<1>2. list \in Seq(Regions)
  BY ListsAreLists
<1>3. \A t \in Turns : t.op = "regionOn" /\ t.region \in Regions /\ Key(t) = <<channel, note>>
  BY DEF RegionOn, Key
<1>4. turns \in [DOMAIN list -> Turns]
  BY <1>2
<1> HIDE DEF Turns, list
<1>5. DOMAIN list = 1 .. Len(list) /\ Len(list) \in Nat
  BY <1>2
<1>6. turns \in Seq(Turns)
  BY <1>4, <1>5, SeqDef
<1> HIDE DEF turns
<1>7. \A p \in 1 .. Len(turns) : turns[p] \in Turns
  BY <1>6
<1>8. \A p \in 1 .. Len(turns) : \A q \in p + 1 .. Len(turns) : q \in 1 .. Len(turns)
  BY <1>6
<1>9. Ordered(turns, held') /\ Pending(turns, voice', order', skipped')
  BY <1>1, <1>3, <1>7, <1>8, NothingStarts DEF OfRegion
<1>10. AgendaInv'
  BY <1>1, <1>6, <1>9 DEF AgendaInv, Listed, Ordered, Pending, Sounds
<1>11. KeysInv'
  BY <1>1 DEF NoteInv, KeysInv, OfKey
<1> QED BY <1>10, <1>11

\* noteOff, for a key that goes up: the voices that it plays on have been told.
LEMMA NoteOffBegins ==
    ASSUME NoteInv, NEW channel, NEW note, NEW rand, NoteOff(channel, note, rand)
    PROVE  AgendaInv' /\ KeysInv'
<1> DEFINE pre == RegionsOff(channel, note, NoteVelocity(note), rand)
           key == <<channel, note>>
<1>1. /\ voice' = [v \in Voices |-> AfterVoiceNoteOff(voice[v], channel, note, Pedal)]
      /\ agenda' = pre \o <<>>
      /\ held' = held \ {key} /\ missed' = missed \ {key}
  BY DEF NoteOff, NoteOffBody, ForEach, RegionsOff, Pedal
<1>2. Called(pre)
  BY RegionsOffAreCalled
<1>3. agenda' = pre
  <2>1. PICK S : pre \in Seq(S)
    BY <1>2 DEF Called, Listed
  <2> HIDE DEF pre
  <2>2. pre \o <<>> = pre
    BY <2>1, ConcatEmptySeq
  <2> QED BY <1>1, <2>2
<1>4. AgendaInv'
  BY <1>2, <1>3, CallsAreAlone
<1>5. ASSUME NEW v \in Voices
      PROVE  OfKey(voice'[v], held' \cup missed')
  <2> DEFINE w == voice[v]
             after == AfterVoiceNoteOff(w, channel, note, Pedal)
  <2>1. OfKey(w, held \cup missed)
    BY DEF NoteInv, KeysInv
  <2>2. Quieter(after, w) /\ Told(after, w, key)
    BY NoteOffIsQuieter DEF NoteInv, PedalInv, VoiceInv
  <2>3. voice'[v] = after
    BY <1>1
  <2> HIDE DEF after, w, key
  <2>4. OfKey(after, held' \cup missed')
    BY <1>1, <2>1, <2>2 DEF OfKey, Quieter, Told
  <2> QED BY <2>3, <2>4
<1>6. KeysInv'
  BY <1>5 DEF KeysInv
<1> QED BY <1>4, <1>6

\* The handlers that start no voice of themselves.
LEMMA OthersBegin ==
    ASSUME NoteInv, NEW channel, NEW x, NEW y,
           \/ NoteOnRefused(channel, x, y) \/ NoteOffRefused(channel, x)
           \/ CC(channel, x, y) \/ RenderBlock(x, y)
    PROVE  AgendaInv' /\ KeysInv'
<1>m. \A v \in Voices : Members(voice[v])
  BY DEF NoteInv, PedalInv, VoiceInv
<1>1. CASE NoteOnRefused(channel, x, y) \/ NoteOffRefused(channel, x)
  <2>1. /\ UNCHANGED <<agenda, order, voice>> /\ agenda = <<>>
        /\ held \cup missed \subseteq held' \cup missed'
    BY <1>1 DEF NoteOnRefused, NoteOffRefused, Idle, midiVars
  <2>2. \A v \in Voices : Quieter(voice'[v], voice[v])
    BY <2>1 DEF Quieter
  <2> QED BY <2>1, <2>2, IdleStays
<1>2. CASE RenderBlock(x, y)
  <2>1. /\ UNCHANGED <<agenda, order, held, missed>> /\ agenda = <<>>
        /\ voice' = [v \in Voices |-> IF v \in y THEN Reset(voice[v])
                                      ELSE IF v \in x THEN Released(voice[v])
                                      ELSE voice[v]]
    BY <1>2 DEF RenderBlock, Idle, midiVars, historyVars
  <2>2. \A v \in Voices : Quieter(voice'[v], voice[v])
    <3>1. \A v \in Voices : Quieter(voice[v], voice[v])
      BY DEF Quieter
    <3> QED BY <1>m, <2>1, <3>1, ReleasedIsQuieter, ResetIsQuieter
  <2> QED BY <2>1, <2>2, IdleStays
<1>3. CASE CC(channel, x, y)
  <2>1. /\ UNCHANGED <<order, held, missed>>
        /\ voice' = [v \in Voices |-> AfterVoiceCC(voice[v], x, y)]
        /\ agenda' = RegionsCC(channel, x, y)
    BY <1>3 DEF CC, ForEach, RegionsCC, historyVars
  <2>2. \A v \in Voices : Quieter(voice'[v], voice[v])
    BY <1>m, <2>1, CCIsQuieter
  <2>3. AgendaInv'
    BY <2>1, RegionsCCAreCalled, CallsAreAlone
  <2>4. KeysInv'
    BY <2>1, <2>2, QuieterKeepsKey DEF NoteInv, KeysInv
  <2> QED BY <2>3, <2>4
<1> QED BY <1>1, <1>2, <1>3

-----------------------------------------------------------------------------
LEMMA NoteInvInit == Init => NoteInv
<1> SUFFICES ASSUME Init PROVE NoteInv
  OBVIOUS
<1>1. agenda = <<>> /\ voice = [v \in Voices |-> FreeVoice]
  BY DEF Init
<1>2. Listed(agenda) /\ Len(agenda) = 0
  BY <1>1, EmptySeq DEF Listed
<1>3. AgendaInv
  BY <1>2 DEF AgendaInv, Ordered, Pending
<1>4. KeysInv
  BY <1>1 DEF KeysInv, OfKey, FreeVoice
<1> QED BY <1>3, <1>4, PedalInvInit DEF NoteInv

LEMMA NoteInvNext == NoteInv /\ [Next]_vars => NoteInv'
<1> SUFFICES ASSUME NoteInv, [Next]_vars PROVE NoteInv'
  OBVIOUS
<1>1. PedalInv'
  BY PedalInvNext DEF NoteInv
<1>2. CASE Step
  BY <1>1, <1>2, RegionOnGoesOn, ChokeLooks, TurnGoesOn, StartGoesOn, NoteOffIsCalled,
     StealGoesOn DEF Step, NoteInv
<1>3. CASE Handler
  <2>1. AgendaInv' /\ KeysInv'
    <3>1. ASSUME NEW m \in Messages, NEW rand \in Rands, Dispatch(m, rand)
          PROVE  AgendaInv' /\ KeysInv'
      BY <3>1, NoteOnBegins, NoteOffBegins, OthersBegin DEF Dispatch
    <3>2. ASSUME NEW ended \in SUBSET Voices, NEW done \in SUBSET Voices,
                 RenderBlock(ended, done)
          PROVE  AgendaInv' /\ KeysInv'
      BY <3>2, OthersBegin
    <3> QED BY <1>3, <3>1, <3>2 DEF Handler
  <2> QED BY <1>1, <2>1 DEF NoteInv
<1>4. CASE UNCHANGED vars
  <2>1. UNCHANGED <<agenda, voice, order, held, missed, skipped>>
    BY <1>4 DEF vars
  <2>2. AgendaInv'
    BY <2>1 DEF NoteInv, AgendaInv, Listed, Ordered, Pending, Sounds
  <2>3. KeysInv'
    BY <2>1 DEF NoteInv, KeysInv
  <2> QED BY <1>1, <2>2, <2>3 DEF NoteInv
<1> QED BY <1>2, <1>3, <1>4 DEF Next

\* No stuck notes, for every instrument, number of voices and sequence of messages: a
\* voice that a key started has its key down, or has had its note-off, unless the gate
\* refused that note-off.  noteOn starts voices for its own key while it is down, and
\* noteOff tells every voice that plays on for the key.
THEOREM NoStuckNotesHolds == SafeSpec => []NoStuckNotes
<1>1. NoteInv => NoStuckNotes
  BY DEF NoteInv, KeysInv, OfKey, NoStuckNotes, Playing
<1> QED BY <1>1, NoteInvInit, NoteInvNext, PTL DEF SafeSpec

\* When noteOn starts a voice, every voice that the region's group turns off has been
\* looked at, although each look may call noteOff, which starts voices in between,
\* unless one of those starts has sorted the vector that the loop goes through.
THEOREM ChokedBeforeStartHolds == SafeSpec => []ChokedBeforeStart
<1>1. NoteInv => ChokedBeforeStart
  <2> SUFFICES ASSUME NoteInv, agenda # <<>>, StartsNote(agenda[1]),
                      D(agenda[1].region).group \notin skipped,
                      NEW v \in Voices, voice[v].state = "playing",
                      OffGroup(voice[v], D(agenda[1].region).group)
               PROVE  FALSE
    BY DEF ChokedBeforeStart, Doing, Task, StartsNote, Playing
  <2>1. PICK S : agenda \in Seq(S)
    BY DEF NoteInv, AgendaInv, Listed
  <2>2. 1 \in 1 .. Len(agenda)
    BY <2>1, EmptySeq, LenProperties
  <2>3. PICK i \in 1 .. Cardinality(Voices) : order[i] = v
    BY DEF NoteInv, PedalInv, Surjection
  <2>4. Sounds(voice, order, i, D(agenda[1].region).group)
    BY <2>3 DEF Sounds
  <2>5. \E q \in 1 .. 1 - 1 : agenda[q] = Choke(i, D(agenda[1].region).group)
    BY <2>2, <2>4 DEF NoteInv, AgendaInv, Pending
  <2> QED BY <2>5
<1> QED BY <1>1, NoteInvInit, NoteInvNext, PTL DEF SafeSpec

=================================================================================
