# A verification project for sfizz

sfizz is a sampler: it loads an SFZ instrument (a text file that maps keys,
velocities and controllers to samples) and plays it in real time. This directory
holds TLA+ modules translated from `sfizz/*.cpp`, TLC configurations that
model-check them on small instances, and proofs that TLAPS checks for every value
of their constants. `PROJECT.json` says which lines each definition stands for,
which bug (a "mutant") each property would catch, and which hazards of the code
the properties are for.

    tlc -config MCGate.cfg MCGate.tla        # one run; PROJECT.json lists them all
    tlapm GateProofs.tla                     # one module of proofs

## The system

| part | state | operations |
|---|---|---|
| **Synth** (`Synth.cpp`) | regions, voices, note and controller lists, MIDI state, `fileTicket`, the two atomics | `noteOn`, `noteOff`, `cc`, `renderBlock` on the audio thread; `loadSfzFile`, `clear`, `setSampleRate`, `setSamplesPerBlock` on a control thread |
| **Region** (`Region.cpp`) | the opcodes of one `<region>`, and switches that follow events | `registerNoteOn` and its siblings: update the switches, tell whether to play |
| **Voice** (`Voice.cpp`) | region, trigger, state (idle, playing, release), source position, file slot, envelopes | `startVoice`, `release`, `registerNoteOff`, `registerCC`, `checkOffGroup`, `renderBlock`, `reset`, `setFileData` |
| **FilePool** (`FilePool.cpp`) | loading queue, file handles, preloaded data, a mutex | `enqueueLoading`, `clear`, `getFileInformation`, and two threads: the loader and the garbage collector |
| **Parser** (`Parser.cpp`, `Opcode.cpp`) | included files, defines, the aggregated text | `loadSfzFile`, `readSfzFile` |
| **Envelopes** (`ADSREnvelope.cpp`, `LinearEnvelope.cpp`) | stage and counters; list of events | `reset`, `getBlock`, `startRelease`; `registerEvent`, `getBlock` |
| **Loading queue** (`readerwriterqueue.h`, `atomicops.h`) | a circle of blocks, each a circular buffer; a semaphore of two counts | `enqueue`, `try_enqueue` on one thread; `peek`, `pop`, `try_dequeue`, `wait_dequeue`, `wait_dequeue_timed` on another |
| **Kernels** (`SIMDHelpers.h`, `SIMDSSE.cpp`) | spans of floats | fills, gains, ramps, sums, indices, interleaving, each as a scalar loop and as an SSE loop |
| **JACK client** (`clients/jack_client.cpp`) | ports | `process`: the messages of a block, then the block; callbacks for rate and block size |
| filters, aligned buffers, file system, other vendored code | | |

The audio thread calls the handlers of the Synth. A handler updates regions, and
for each one that plays finds a voice, starts it, and puts a request on the
FilePool's queue; the voice plays the preloaded head of the file until the loader
hands it the rest. The control thread keeps the handlers out with two atomics. The
Synth *is* a Parser: `loadSfzFile` calls back into it for every header.

What is hard here: three threads besides the host's control thread share
voices without locks; the gate is a check followed by an act; the handlers are
nested loops that call one another and change the lists they go through; the
switches of a region depend on the whole history of events; a load must leave
nothing of the instrument before.

## The modules

| module | models | extends |
|---|---|---|
| `Gate` | the two atomics, their guards, who may be in the engine | |
| `GateProofs` | its inductive invariant and theorems | `Gate`, `TLAPS` |
| `FilePool` | requests, tickets, file slots, the loader, the collector, `clear` | |
| `FilePoolProofs` | its inductive invariant and theorems | `FilePool`, `TLAPS` |
| `Region` | the register methods as operators on a description and a state | |
| `Triggers` | all regions of an instrument under a stream of events | `Region` |
| `TriggersProofs` | what each method changes, and the properties for every instrument | `Triggers`, `TLAPS` |
| `Synth` | the handlers, their loops, and the life of voices | `Region` |
| `SynthProofs` | the life of a note and the choke loop, for every instrument | `Synth`, `TLAPS` |
| `Envelope` | the ADSR envelope by samples and by blocks, as operators | |
| `Playback` | one voice: where it reads, when it ends | `Envelope` |
| `PlaybackProofs` | where a voice reads, its loop, end, delay and envelope, for every sound and block | `Playback`, `TLAPS` |
| `Kernels` | every kernel, scalar and SSE, an element or four lanes at a time | |
| `Mixing` | levels and their events, the gain of a note, and blocks as programs of kernel calls | `Kernels` |
| `MixingProofs` | what a kernel touches and writes, what the programs of a voice make of a block, and its levels, for every span and block | `Mixing`, `TLAPS` |
| `Tokens` | abstract: a count that is given to and taken from | |
| `Semaphore` | `LightweightSemaphore` on the system's semaphore, with timeouts | |
| `Mailbox` | abstract: elements in order, each once, a wait only for one that is there | |
| `Queue` | the lock-free queue, each access to shared memory a step | `Semaphore` |
| `QueueProofs` | that the semaphore implements `Tokens` and the queue `Mailbox`; its slots, blocks, capacity and assertions, for every size | `Queue`, `TLAPS` |
| `Opcodes` | ranges, values, and what each opcode does to a region | `Region` |
| `Loader` | reading, parsing and registering an instrument, and what a load leaves for the next | `Opcodes` |
| `LoaderProofs` | which regions a load keeps, that they are what their opcodes say, and what voices can rely on in them, for every file system | `Loader`, `TLAPS` |
| `MC...` | constants for the runs | |

`Synth`, `Triggers` and `Loader` compose with `Region`: they call its operators where the
C++ calls the methods. A region that `Loader` builds is a description as the other two take
it. `Gate` is the context in which the other modules assume that a handler and a `clear` do
not overlap; the places where the code does let them overlap are the subject of `Gate` itself. `Queue` implements `Mailbox`, and `Semaphore`
inside it `Tokens`; `FilePool` uses the queue by that contract. `Mixing` runs the
programs of a voice on `Kernels`, whose own run checks each kernel on every alignment.

### Gate

`canEnterCallback` and `inCallback` are the atomics. A handler tests the first
(`Check`), raises the second (`Enter`) and lowers it (`Leave`); test and guard are
two statements and two steps. An entry point lowers the first (`Begin`), polls the
second (`EndWait`), works (`Work`) and raises the first (`Reopen`). Two nestings
exist and are modelled: `noteOn` calls `noteOff`, whose guard lowers `inCallback` on
the way out while `noteOn` runs on; `loadSfzFile` calls `clear`, whose disabler
reopens the gate before the file is parsed. Since both classes write constants,
neither restores what it found.

The history variable `overtaken` says that the handler passed its test before the
control thread's critical section began. What holds: a handler is in the engine
together with a control thread only if it was overtaken (`Exclusion`); once both are
out, the gate is open and silent (`GateRestored`); a wait does not end on a guard that
is up, but for the two gaps named (`WaitDrains`); a block is too long for the buffers
only for an overtaken handler (`BlockFitsUnlessOvertaken`). What does not hold is the
assertion in `Voice::renderBlock` as it is written (`BlockFits`, run `gate_block`).

*Fairness*: each step of a begun handler or entry point is weakly fair, since the
scheduler runs both threads; beginning one is not. `EntryReturns` needs no more,
although the wait polls: the gate is closed meanwhile and no new handler gets in.

*Bounds*: two block sizes, which are enough for shrinking and growing.

### FilePool

One step per access to something shared: `expectFileData`, the push, the two halves of
`Voice::reset` (flag, file), the semaphore and the element of each dequeue, the
test of the ticket, the store of the file, the store of the flag. The queue is
modelled by its contract, which is the subject of `Queue`; the two-step dequeue is its
semaphore. A request holds a
pointer to a name in a region: after `clear` the name is any name. The audio thread
never overlaps with `clear` here, which is the gate's business.

`PlaysRequestedSample` is the reason for the tickets. It holds but for voices in
`late`: the ticket was tested when the voice was free or being reset or started, or
was tested in time and the voice was reset before the store. `reset` neither
changes the ticket nor is it atomic, so both can happen; the property is about every
other voice. `Pinned` is why the handles exist: the audio thread never drops the
last reference of a file. `StaleJobsReserved` says how thoroughly `clear` drains.
`SingleConsumer` (run `filepool_consumer`) is what the queue's header demands, and
what `clear` violates.

*Fairness*: the loader and the collector are threads in a loop: weak fairness for their
steps, strong for taking the mutex. `std::mutex` promises no fairness; the collector
sleeps 200 ms between two holds and the loader reads a file between two, so neither
holds it nearly always. `RequestsAnswered` covers requests that got into the queue:
a full one loses them.

*Bounds*: one voice, two files (one missing), a queue of one, two requests in a session, one
clear, tickets modulo 4 (so that -1, 0, 1 meet the ticket 1 of the first session). The
run checks safety and liveness together, and for liveness a second voice is out of TLC's
reach. What needs two voices, a file that reaches another voice's request, is in the
theorems, which hold for any number of voices, files and requests.

### Region and Triggers

`Region` translates the register methods operator by operator: `AfterNoteOn` is the new
state and `NoteOnPlays` the result. `LoadedState` is what `loadSfzFile` leaves.
`Triggers` gives every event to every region (the Synth's lists only skip regions that
would ignore it) and keeps what a correct region depends on: keys down, last
keyswitch, last values of the controllers. Keys go down once and up once. Controllers
begin with any value that `set_cc` can give them (`SetCCs`).

The instrument of the run `triggers`: a round robin of three, `first` and `legato`,
two articulations with a default switch, `sw_previous`, `sw_down`, `sw_up`, release
samples; conditions on two controllers, pitch wheel, aftertouch and tempo, and a region that a
controller plays. *Bounds*: two channels, which make note counting by region rather
than by key matter; four notes, which wrap the sequence of three; `OneKindOfInput`: the
controllers, wheel, aftertouch and tempo move before the first key, or stay as the load left
them. The theorems have no such bound. What the code does, and no text denies: a
region with `sw_previous` never plays, since the note being played is written to
`previousKeySwitched` before it is compared (`PreviousNoteOk`).

### Synth

A handler is a set of nested loops whose bodies call other handlers. The variable
`agenda` is what is left of them: a sequence of tasks. A turn of the note-on loop
(`DoRegionOn`) puts a turn per voice of the choke loop and a start in front; a choked
voice (`DoChoke`) puts a call of `noteOff` in front; that puts its own loop in front.
Order and nesting are thus those of the code, and so is the sort of `voices` in
`findFreeVoice`, which happens in the middle of a choke loop when a release sample finds no
free voice (`DoSteal`; source positions are not modelled, so any order results).

Handlers are called by `Dispatch`, the loop of the JACK client's `process` over the
messages of a block; it adds one to the channel and drops what it does not know. A note-on
of velocity zero, which in MIDI lets a key go, is passed on as a note-on.

The end of a sample, the end of an envelope, and which released voices are quiet are
choices. `GateCloses` lets the gate refuse handlers: a refused note-on still records its
velocity, a refused note-off is lost.

`ChokedBeforeStart` holds up to `skipped`, the groups whose choke loop saw a sort. A
note-off that the gate refuses leaves a voice without key and without note-off:
`NoStuckNotes` allows exactly those (`missed`).

*Runs*: `handlers` (choke groups, release samples, the pedal, a one-shot, a sample the pedal
plays, refusals; fair) and `note_count`. *Bounds*: two voices, two keys and two notes, so that
voices run out, since key 1 has two regions and key 2 a release sample. *Fairness*: a begun handler runs on (`Step`), as
straight-line code does.

### Envelope and Playback

`Envelope` is `ADSREnvelope` as operators on a record: the stage and the samples left in
each. The class has the same envelope twice, by samples (`GetNextValue`) and by blocks
(`GetBlock`), and its unit tests expect the same of both. `Playback` advances both
side by side, `egEnvelope` as the code does and `byValues` as the abstract specification
of it. Before a release they agree however the time is cut (`BlocksAreValues`).
After one they do not: `shouldRelease` stays up, so that each block after the
first takes two shares of the release (run `envelope_release`). `ReleaseMeetsEnd` says when
the end of a sample releases the voice: at the first frame that reads the end, counted from where the sample
begins in the block. The envelope counts from the beginning of the block, so that the release is
early by what was left of the delay; the property does not hold that against the code.

`Playback` is one voice: `startVoice`, `release`, `renderBlock` and `reset`. The code's
arrays of indices are functions (`Indices`); the loop that turns them back is `Turns`.
Positions are in half frames, which is exact where the code has floats.

A frame that is played is made of two, the one at its index and the one after it (`Loads`), and
`RightCoeff` is the weight of the second: the fraction of the position, or all of it where the
index was clamped. The source is the head, or the file, of which the pool reads as much as the
sample lasts (`FramesAtLast`). `ReadsInSample` says that both frames are in the source and before the end of
the sample, but that the frame after the last index, and none further, is loaded too. What
that frame weighs is another matter: at the clamp it is all that is heard. `HeardIsInSource` says that a voice
that has not been released does not hear it, since `fillWithData` silences its block from the frame that
reads the end. What the code does, and no text denies: it does so in that one block. In those after it the
released voice plays the frame behind its source (`Voice.cpp:403`, the padding of the buffer), and so does
a voice with a loop mode and no loop, which has no end.

`due` is an endless tape that knows neither blocks nor the change from the head of the sample
to the file, and `OnTape` says that the voice is where the tape is, unless it was held at the
end of the head (`starved`: without its file, it was clamped or asked to end there). A loop that
ends exactly where the head does is not held, though it has no file yet. `PlaysToTheEnd` tells a
sample that ends from one whose file is missing, and `VoicesAreFreed` says that both end. `SoundsAssumption`
leaves out what no load checks and the voice would not survive: an offset beyond the end, and a loop shorter
than a step, which one turn for each index cannot keep up with. Every property, and every theorem, is about the
other sounds only. A file that arrives for the voice's previous note is
in `FilePool`, the handlers that release a voice in `Synth`.

*Fairness*: the host goes on asking for blocks (`Render`). *Bounds*: nine sounds (two that
need their file, one of which comes to its end between two frames, one that ends in its head with a delay, a loop that goes beyond the head, three loops with
an end opcode: before the loop's end and within the head, at the end of the head, and with the
whole loop in the head; a loop mode on a file without a loop, a generator), blocks of
one, two and four frames, and delays that are in the next block and beyond it. A release of
six samples spans up to six blocks.

### Kernels and Mixing

A call of `Kernels` names a kernel, whether it goes to the SSE version, the lengths of its
spans and where each begins in its sixteen bytes. The SSE versions go one by one to an
alignment (`InHead`), in fours (`InFours`), and one by one through the rest (`InRest`);
spans that are never aligned together go one by one to the end. The initial states are the calls
of every kernel with 0, 1, 4 and 9 elements at every alignment of each span, with an output as
long or two longer. `MatchesReference` compares what is written with what the kernel is for;
`AccessesAreLegal` says that no load or store is outside of the spans, or is an aligned one at an
address that is not.

A block of `Mixing` is a program: the list of kernel calls that `Voice::renderBlock` makes, with
which span of which buffer each reads and writes. `SIMDConfig` (`Config.h`) says which go to
the SSE versions. Buffers begin a block with anything in them, so that `BlockIsMixed`, which says what a
frame is from its sound and the levels at that frame, finds a gain that is read after its buffer
was used again. Between blocks, controllers add events to the levels (`CC`), voices start in the
middle of a block (`StartVoice`), and `LevelsFollowControllers` compares where each level
stands after its events with where the controller would put it in a new voice.

The gain of a note (`BaseGain`) is the product of the amplitude, the crossfades of
controllers, key and velocity, and the curve of the velocity. `CrossfadesAddUp` and
`TestedCrossfades` (`MCMixing`) check the crossfades by themselves, the latter on values of
`tests/RegionCrossfadesT.cpp`.

Floats are integers, chosen so that quotients are whole; `Sine` has eight values, `exp` and `log`
are terms that tell them from the rest. `Top` stands for 127.

*Bounds*: blocks of one and four frames, of which two are rendered; one controller that moves up to
three levels; three events for two places (`MaxCapacity`), so that one is lost; events at the beginning, in the middle and
beyond the end of a block. Voices do not end in `Mixing`; they do in `Playback`.

What the code does and no text denies:
- `SIMDSSE.cpp` computes the heads and rests of `cos`, `log` and `sin` with `std::exp`,
  and its `pan` takes the fours without the envelope; no caller uses any of these. The rests of
  four kernels run to the end of the output where the input is shorter.
- `volume_oncc` moves the amplitude's envelope (`Voice.cpp:177`).
- `Voice.cpp:333` calls the left channel mid, where the side is.
- The phase of a generator goes on by the whole temporary buffer in a shorter block.
- A custom velocity curve is the share of the segment times its height, without what is below;
  at the first point, or with `amp_veltrack` at zero or below, it divides by zero. Velocities of the
  run are above the first point.
- A crossfade by a controller is taken when a voice starts, and does not follow it.
- The looping index turns back once for each element, in the SSE loop after up to four jumps. The
  run's jumps are short enough for that, four of them no longer than the loop; nothing in the code sees to it.
- The events of a level are sorted by `std::sort`, which keeps events of one time in order in
  lists of up to sixteen only (`StableUpTo`, the threshold of libstdc++). In a longer one they are in some order
  (`Sorted`), and `LevelsFollowControllers` gives up on the level (`lost`); a level can have 1024 events.
  The lists of the run are of two, so that this case is in the theorem only.

### Semaphore and Queue

`Semaphore` has one thread that signals and one that waits, in any of the three ways of the
code. A waiter that times out gives its debt back (`Restore`), unless a signal is on its way to it
already (`Retake`, `PollFinds`).

`Queue` has the constructor, both enqueues (one allocates), every way to dequeue, and the
destructor, one step for each access to what the other thread may write. The code's fences
order them; the model is sequentially consistent otherwise. `SlotsAreOwned`
says that the two threads never touch a slot together; `AssertionsHold` has the assertions of
both files; `HoldsMaxSize` the promise of the constructor; `ImplementsMailbox` is the refinement: the
elements between `front` and `tail` of the blocks from `frontBlock` to `tailBlock` are the
abstract queue, and each step is one of its operations or none (`Safety` of `Mailbox`). That the mailbox's
elements are also announced and taken out, its `Fairness`, is a part of `CallsReturn`.

*Fairness*: a thread goes on with its call. A wait without end needs a signal. *Bounds*: two values, a
queue made for one element (a block of two slots, one of them spare) that grows by one block of
two, so that both the block change and the memory that is refused occur; larger
constructors are checked by themselves (`ConstructorAssumption`: up to 28 elements in blocks of 2 to 16).

### Opcodes and Loader

`Opcodes` has the switch of `Region::parseOpcode` as a table: the member an opcode sets, how
(`Value`, `Start`, `End`, ...), and the range that bounds it; `NewValue` is the setters of
`Opcode.h`, and `NewRegion` the members' initial values. Values of some opcodes leave traces
even if they cannot be read (`sw_last`, `locc`, the `_oncc` pairs), and so do they here.

`Loader` is `loadSfzFile` in its three loops: a line (`Include`, `Define`, `ReadTokens`, with the
calls of `readSfzFile` as a stack), a header (`ParseInherited`, `ParseControl`, `BuildRegion`), a
region (`RegisterRegion`, or `RemoveRegion` if its sample is missing). `Begin` is `clear`, so that a
second load begins with what it leaves: the included files, the defines, the root directory and
`unknownOpcodes`, whose names are views of a text that the second load frees, and read as
anything afterwards (`EndOfText`).

`OpcodesTakeEffect` compares each member of each region with the last opcode about it in the text, found
from the text alone; it names the two ways in which an opcode is passed over. `ReloadIsSame` compares two
loads of an absolute path, region by region: nothing else of the first load reaches the second. It is about
loads that met nothing of what the parser is known to keep (`met`), and leaves out the loop of a
region whose own sample has no instrument chunk (`LoopIsGarbage`). `SoundsAreReady`
is what a voice takes for granted of a sample whose head is shared with other regions, and part
of what `SoundsAssumption` assumes in `Playback`; it leaves out the head of a region whose offsets and preload
size are together beyond `uint32_t`, where the sum wraps, and the loop of a file without an instrument chunk.
`InstrumentIsComplete` is about the loop that prunes
while it registers.

What the code does and no text denies: a file without an instrument chunk gets a loop from
uninitialised memory (`Garbage`); whether a relative path exists is tested in the directory of the
load before; one wrong parameter (`locc200`) makes all later `locc` vanish; `sw_default`, which no
region knows, is an unknown opcode.

*Left out*: the regular expressions (a text is a sequence of tokens), fractions, controller names, the
counts of headers, two debug assertions (a second `<control>`, an unknown opcode in it), and the
voices, which `clear` resets (`FilePool`, `Synth`).

*Bounds* (run `loader`): two loads, each of an absolute or a relative path; the disks of `MCLoader`:
each opcode with numbers below, in and above its range, a note name and
words, without, with, and with a wrong parameter; every two opcodes about the same member; and instruments of
up to 15 headers. `Largest`, the largest `uint32_t`, is 200, `PreloadSize` 4, and samples are up to 20 frames, so
that an offset can be beyond a sample and the sum of two can wrap. Files include each other only
under the guard.

## What the runs show

| run | result |
|---|---|
| `gate` | who is in the engine with whom, and that an entry point gets through |
| `filepool` | files reach the voices that asked, requests are answered, handles are reclaimed |
| `triggers` | round robins, phrases, articulations and switches, for a stream of notes |
| `handlers` | chokes, the pedal, no stuck notes; every handler ends |
| `playback` | where a voice reads, when it ends, that it ends |
| `loader` | what the text says is what the regions have, also after another load |
| `queue` | the queue is a mailbox, and no wake-up is lost |
| `mixing` | every kernel on every alignment, and blocks that are what their levels make of them |
| `gate_block` | a resize can overtake an admitted `renderBlock` |
| `filepool_consumer` | two consumers meet on the loading queue |
| `note_count` | choking a held key counts its release twice, so the number of notes in a region falls below none |
| `envelope_release` | a release over several blocks is shorter than the opcode says |

The last four expect a violation of something that the repository states: an assertion, a comment
of a header, a comment of a counter, and unit tests.

The hazards of `PROJECT.json` include some that no property would catch, because the model takes the code's
behaviour as it is, or because a property names the case as an exception. They have no properties, and a note
that says where the behaviour is recorded.

## What is proved

TLAPS checks the theorems for all values of the constants that satisfy the named
assumptions: `BlockSizesAssumption` (Gate), `ConstantsAssumption` (FilePool),
`InstrumentAssumption` (Triggers), which says what a round robin, a phrase and a set of
articulations are, `MidiAssumption` (Synth), that there are finitely many voices and that
controllers, the pedal among them, have MIDI values, `FileAssumption` (Synth), that a file is a
sequence of regions and none of them a null pointer, `SizesAssumption` and `PowersAssumption`
(Queue), that a queue is made for one element or more and blocks of at least two slots, as the
constructor asserts, that raw memory is not an element, and that `CeilToPow2` returns what its name
says, which is arithmetic the provers do not have, and `SoundsAssumption` (Playback), which says what a
load establishes of a sound and what is assumed beyond it, `SpansAssumption` (Kernels), that lengths are
numbers, and `VoiceAssumption` (Mixing), that a block fits the buffers, that times are numbers and that 0, by
which a level says that nothing moves it, is no controller, and `GainsAssumption` (Mixing), that the values of
controllers and the gain and volume of a note are numbers, whatever starts it, since the roots and the points of a
velocity curve are chosen rather than computed; `LargestAssumption` (Opcodes), that the largest
`uint32_t` is at least the largest note, and `LoaderAssumption` and `DisksAssumption` (Loader), that the keys and
controllers that have a list have MIDI values, that texts are sequences of lines and these of tokens, whose values
are what the regular expressions make of a text, and that the frames and loops of a sample are numbers. TLC evaluates
them on every run. The type invariants are
proved, and not checked again by the runs.

- **Gate.** `GateInv` links the place of each thread to the atomics (for instance
  "a handler in the engine has its guard up, unless its nested `noteOff` took it down") and to
  `overtaken`. The properties alone are not inductive: they do not say where
  `canEnterCallback` is false. From it follow `Exclusion`, `GateRestored`,
  `BlockFitsUnlessOvertaken` and the action property `WaitDrains`.
- **FilePool.** `PoolInv` adds to the properties who holds the mutex, that a
  token is reserved for each request, that tickets of one session differ, and
  what the loader's request has to do with its voice at each step. From it follow
  `Pinned`, `PlaysRequestedSample` and `StaleJobsReserved`.
- **Triggers.** All its properties, for every instrument, number of keys and stream of
  events. One lemma per register method says what it does to each field of a region
  (`NoteOnChanges` and its siblings); no other proof opens the methods. `CountInv` counts
  the keys: `ActiveNotesCountHeld` says nothing of how many keys there may be, so that
  finiteness and the number of notes are added. `PlainInv` says that a region whose opcodes
  give it no switch is never switched off, and `InStep` that the regions of a round robin
  have equal counters; with both, the counter modulo the length is the position of the one
  region that plays (`OneOfASequence`), and `first` and `legato` are told apart by the
  counter alone (`FirstOrLegato`). `LastSwitchWins` is inductive as it stands once the
  channels are known to exist. `SwitchesFollowInputs` rests on `Agrees` for each
  region, which a controller keeps by changing both sides alike (`CCAgrees`).
- **Playback.** `EndInv` adds to `EndIsNoticed` the types of what it depends on (`Placed`),
  for sounds that do not loop; a file that arrives can only move the end away
  (`FileKeepsEnd`), and a block that reaches it releases the voice (`FillKeepsEnd`). With the
  file, the end of the source is the end of the sample (`FileHasTheEnd`), hence
  `PlaysToTheEnd`. `BeginTogether` is inductive once the envelope has its type:
  `GetBlockEffect` says that a block within the delay takes all of it from the delay, and
  that a release never goes back to it.
  The rest goes through two recursions, the turns of a loop and the envelope by samples. Both
  are functions on `0 .. n`, so that no induction theorem with an operator is needed: that the
  function exists, and what it is, is shown on the set of numbers up to which it is known, which
  would have a first number missing (`HasFirst`, `UpTo`, `RecursionExists`).
  `PlaceInv` says where a voice may be between blocks; each index is turned back at most once,
  as a step is not longer than the loop, and what one step leaves beyond the end the next turn
  takes (`IndicesInSample`), hence `ReadsInSample` for the first frame of each load; the second is one
further, and in the source unless the first is the last (`SourceNumbers`). As a voice does not go back
(`StraightGoesOn`), no index before the one that ends it is the last, hence `HeardIsInSource`. `ReleaseMeetsEnd` needs that the first frame at the
  end exists when the last is there (`EndFrame`) and that the block keeps the delay of the
  release (`ReleaseInThisBlock`, with the types in `EnvelopeInv`). `TapeInv` adds to `OnTape` that a voice without a sample
  begins at a whole frame; a turn does not show modulo the loop (`TurnsDoNotShow`), and
  a loop that is not in the source waits for its file (`LoopWaits`), so that a clamped voice is `starved`. `BlocksAreValues` is by `StageTakesOneMore`: a block of one frame more is
  the block and one value, whatever stages it goes through (`ValuesAreBlock`).
- **Semaphore.** `SemaphoreInv` relates the two counts: what is below none in `count` is owed
  to a waiter, and a post is there or on its way exactly if one is owed. The assertion of `signal()`
  (`OneWaits`) follows, and so does that every step gives a token, takes one, or is a
  stutter of `Tokens` (`Refinement`), for calls without end.
- **Queue.** `SlotsAreOwned` and `AssertionsHold`, for queues and blocks of every size. Neither says
  anything of the steps between two looks at a block, so that `QueueInv` has to. Each copy of an
  index lags behind the index (`Indices`), which is why a thread may trust it. A slot holds an element exactly if it is
  between front and tail, but for the one that is being written or read (`OwnedInv`). No two
  blocks have the same next one (`Circle`), and from the front block to the tail block leads a
  chain of blocks of which only the first may be empty, while no other block holds
  an element but the one that the producer is about to make the last (`Chain`). The elements,
  wherever they are, are as many as the semaphore has available, one that a wait was granted and one that
  is not announced yet (`Tally`). So a block that looks empty to a granted wait
  is not the last (`FoundElsewhere`), for only one element can be on its way; and the block
  after the tail, if the consumer is not in it, is on no chain and empty (`NextIsNotLive`).
  The lemmas on circular buffers (`MoveTail`, `MoveFront`) and `SemaphoreInv` carry the rest.
  `QueueIsMailbox` is the refinement. The abstract contents are the elements of each block of the chain, from front to
  tail, one block after the other. `ItemInv` says that a slot or block that is about to be published has the element of the call,
  `CountInv` what the semaphore knows of how many there are. A write adds its element to the end of the contents
  and a read takes the first one, also when the block after is about to be entered or a new one to be linked;
  every other step leaves them. That a concatenation of sequences splits is an induction, of which the set of lengths
  (or of numbers of blocks) for which it is known is the subject (`AllSequences`, `AllNumbers`).
  `HoldsMaxSizeHolds` is the promise of the constructor: when `try_enqueue` is refused, as many
  elements are in the queue as it was made for. `RoomInv` adds that no block is smaller and that there are no fewer than the
  constructor made (`SizesInv`); that the blocks are one circle, so that whatever is closed under `next`
  has all of them (`OneCircle`); and that a block between the first and the last is full, and so is the last
  when the producer turns away from it while the consumer is elsewhere (`FullInv`). So a producer that
  finds the consumer's block next has every block on the chain (`AllAreLive`), all full but the consumer's
  (`AllAreFull`), which the constructor's arithmetic allows for (`SizesSuffice`).
- **Kernels and Mixing.** `AccessesAreLegal`, for spans of any length and alignment. `CallInv` says how
  far a call is: the pointers of its operands have all gone on by the same number of elements, which is at most the shortest
  span's, but for the kernels that run over, and no pointer is past the end of its loop. What bounds
  a pointer is said once for all kernels (`LoopBounds`). A four
  that begins fits (`FourFits`), because the
  SSE loops stop at the last multiple of four before the end, and is aligned, because the
  head stops at an alignment and every four keeps it. For the calls of a voice, `IsProgram` says that
  each of them is one of a kernel on spans of the buffers; the programs of levels, gains, generator, mono
  and stereo join to such a program (`BlockIsProgram`). A ramp of negative length would be none,
  so that the order of events matters: a level that is read got its events in the order of the block
  (`EventsAre`), sorting leaves them so (`SortedStays`), and an event beyond the block is
  cut to its end (`GetBlockIsProgram`). `LevelsFollowControllers` rests on what an event appends to the levels of
  its controller (`RegisterAppends`), and on that the value where a level stands after a block is the last
  that was registered (`StandingIsLast`), as long as the sort keeps events of one time in order.
  `MatchesReference` is the result of every kernel, in whatever way its elements fall into head, fours and rest. `MatchInv` says that of
  a call whose pointers have gone on by `m` (`RunsAt`): what is behind the pointers is as it was given
  (`Untouched`), what is before them is right or of the elements that the SSE loops are known to get wrong, and what is handed over
  is the sum, the ramp or the position after `m` elements (`CarryIs`). The first is needed because a kernel may
  work in place, and read what it is about to write. A lemma for each kernel says that the element, or the four, that it
  writes next is right (`SnippetIsRight`, `FourAreRight`): the shifts of a register add up to the sums of its
  lanes (`PrefixSumsAre`), a position that loops stays within the loop though it turns back only once for each
  element (`PlacedGoesOn`), and both ways of taking a position apart give back the position
  (`PositionsAreWeighed`). A step of one or of four is then one lemma (`StepIsRight`). The reference sums and powers are recursive functions
  (`SumsExist`). A voice calls with numbers only: the levels and their events are numbers through every
  event, start and block (`Numbers`), and the steps of a ramp between them (`GetBlockIsProgram`).
  `BlockIsMixed` is the result of a whole block, in mono and stereo, wherever in it the voice begins and its events are. A call
  has an effect on the buffers (`Effect`), and a program leads from some buffers to others (`Runs`). `BlockInv` says that
  what is left of the program makes of the buffers, whatever they hold by then, the block that it should be, and that the kernel that runs
  is the one of the next call. Each call takes its effect off that program (`RunsOn`): what a kernel gives back is that effect because it
  matches its reference (`TakenBackIs`), and no kernel of a block is one of those that are known to go wrong. That the block should
  come out of the whole program is `ProgramSets`, for one frame at a time: a level is on the line between its events, ramp by
  ramp (`GetBlockSets`), silence gives way to the sound behind the delay (`FilledSets`), and the gains, the width, the position and the
  pan follow from what each call makes of a frame (`MonoSets`, `StereoSets`).
- **Synth.** All its safety properties but the counter's, for every instrument, number of
  voices and sequence of messages. `PlaysOnlyUnderPedal` is not inductive: a free voice that
  remembered a note-off would start its next note as if its key were up. `PedalInv` adds that
  it has forgotten it (`Voice::reset`), and that the vector lists every voice, however it is
  sorted, so that the voice `findFreeVoice` returns is a free one (`FirstIsFree`).
  `NoStuckNotes` and `ChokedBeforeStart` depend on what is left of a handler. `AgendaInv` says
  it (`Ordered`, `Pending`): whatever noteOn calls comes before what noteOn does next, after
  the note it starts only turns of its own loop are left, their key is down, and wherever a
  voice plays on that the group turns off, the choke loop has yet to look before the note starts. A
  task that is done leaves room for the calls it made (`RestOf`), and the methods only make a
  voice quieter (`Quieter`), so that nothing sounds behind the loop (`AgendaGoesOn`); a steal
  sorts the vector, and gives up on every group that waits for a look (`StealGoesOn`).
  `KeysInv` is `NoStuckNotes` within handlers too.
- **Loader.** `InstrumentIsComplete`, `SoundsAreReady` and `OpcodesTakeEffect`, for every file system, file and number of loads.
  While regions are registered they are those that were built, in another order (`AllOnce`): those before the current
  one can play, those after the last one cannot, and the lists hold none but the former (`RegisteringAt`). The region that a
  removed one changes places with is looked at next, so that none is passed over. For `SoundsAreReady`,
  `SourceInv` says that what the parser reads are tokens, through includes, defines and the calls of `readSfzFile`, so
  that what it gives to a region are opcodes. Whatever they are, they leave numbers in the members that a sound relies on (`IsSound`,
  `ParsedIsSound`), because the table bounds each of these members (`SettingsFit`). `SoundInv` adds that no head in the pool is longer than
  its sample (`HeadsFit`), so that a head that is shared with another region does not reach beyond it, and the longer of
  the two covers the offsets (`HeadCovers`). The sort of the velocity curve and its end points are
  `SortedPoints` and `EndpointsCover`. The recursions over tokens and opcodes are functions on `0 .. n`, handled as in Playback.
  `OpcodesTakeEffect` rests on the table: the settings that share a member are of kinds that go together (`SettingsSuit`),
  so that two opcodes about one member are ends of the same range, or values of the same sort. An opcode of use gives its
  member the value that it says (`UsefulIsSaid`); one of no use leaves it, but for a controller, which it may
  give the default range (`UselessIsPassed`), and that keeps what was said before (`SaidStays`). `Told` says that of the first `n` opcodes of a region, and goes on from
  one to the next whether the opcode is handed to `parseOpcode` or passed over (`HandedIsTold`, `PassedIsTold`), hence
  `CollectedIsTold`. That the opcodes are those of the right headers is `HeadersInv`: the parser holds, of each kind, the
  members of the last header before its place (`MembersPastOneHeader`), and it has built as many regions as it has
  passed region headers, so that the n-th region belongs to the n-th of them (`HeaderIsFound`, by their cardinalities). `NamesInv` is the exception that
  the property names: an unknown name was refused in this load or is left from an earlier one.

Only model-checked: liveness (`EntryReturns`, `RequestsAnswered`, `HandlesReclaimed`,
`HandlersEnd`, `VoicesAreFreed`, `CallsReturn`), which is out of the prover's reach, and `ReloadIsSame` of
`Loader`, which compares two behaviours of it.

## What is not modelled

- Pitch, what the two interpolated frames hold, and the power of a block, by which a
  released voice counts as quiet (`Synth` lets any be). Floats are integers, so rounding, and
  a release from level zero, which takes a logarithm of zero, are not seen.
- The one-pole filter, which nothing but its test uses.
- The allocation of aligned memory (`Buffer`, `AudioBuffer`), which has no state that the voices
  see: they resize it behind the gate. Reading it: `Buffer::clear` frees without forgetting the pointer,
  and `AudioBuffer::resize` keeps the old number of frames; nothing calls either so that it shows.
  `AudioSpan`'s constructor from spans leaves the number of frames at zero; nobody uses it.
- Logging, libsndfile and the sort of the standard library, which are external and taken by what they do, as
  are the vendored file system (`ghc/filesystem.hpp`) and SSE maths (`mathfuns/sse_mathfun.h`). The semaphores of Windows and Mach, of which the POSIX one is modelled.
- `pitchWheel`, `aftertouch` and `tempo` of the Synth, which are declared and have no
  body, and `Voice`'s, which are empty; the Region's are modelled.
- `garbageCollect`, which nothing calls, the shutdown of the FilePool's threads, and the opening of
  the JACK client's ports.

## Plan

1. `Gate`, `FilePool`, `Region` and `Triggers`, `Synth`, `Envelope` and `Playback`,
   `Opcodes` and `Loader`, `Semaphore` and `Queue` with their abstract specifications, `Kernels`
   and `Mixing`: done.
2. Proofs: the inductive invariants of `Gate`, `FilePool`, `Triggers`, `Semaphore`, `Queue`,
   `Synth`, `Playback`, `Kernels`, `Mixing` and `Loader`: done.
3. An abstract voice, `free`, `sounding`, `fading`, implemented by `Synth` and by `Playback`.
4. Pitch and the power history, if they can be had in integers that TLC can multiply.
