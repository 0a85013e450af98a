-------------------------------- MODULE FilePool --------------------------------
(*****************************************************************************)
(* Background loading of samples: the file slots of the voices, the tickets  *)
(* of the Synth, and the FilePool with its two threads.                      *)
(*                                                                           *)
(* The caller (the audio thread, or the control thread in Synth::clear; the  *)
(* gate of module Gate keeps the two apart) starts and resets voices and     *)
(* requests files.  The loading thread reads each file, keeps a handle on    *)
(* it, and gives it to the voice if the voice still expects that ticket.     *)
(* The garbage thread drops the handles nobody else refers to, so that the   *)
(* audio thread never frees a file.                                          *)
(*                                                                           *)
(* A voice's ticket, file and flag are shared with the loading thread and no *)
(* lock protects them: each access is a step.  A request points at the       *)
(* sample name in a Region; clear() destroys the regions, and a request of   *)
(* an earlier session then reads some other string.                          *)
(*****************************************************************************)
EXTENDS Integers, Sequences, FiniteSets

CONSTANTS
    Voices,
    Samples,                \* names of sample files
    Missing,                \* those that are not on the disk
    Generator,              \* the region of a generator: it has no file
    NoRegion,               \* a free voice's region, the null pointer
    NoFile,                 \* the null file
    QueueCapacity,          \* usable capacity of the loading queue
    TicketMod,              \* 2^32: tickets are unsigned
    MaxTickets,             \* bound: requests in a session (no ticket wraps)
    MaxSessions             \* bound: calls of clear()

Tickets == 0 .. TicketMod - 1
Sessions == 0 .. MaxSessions

\* A request, and a file read for it: the data is the sample's.
Jobs == [voice : Voices, sample : Samples, ticket : Tickets, session : Sessions]

ASSUME ConstantsAssumption ==
    /\ Missing \subseteq Samples
    /\ Generator \notin Samples /\ NoRegion \notin Samples /\ Generator # NoRegion
    /\ QueueCapacity \in Nat \ {0}
    /\ TicketMod \in Nat \ {0, 1}
    /\ MaxTickets \in Nat /\ MaxSessions \in Nat
    /\ NoFile \notin Jobs

VARIABLES
    region,                 \* voice -> its region: a sample, Generator, NoRegion
    ticket,                 \* voice -> the ticket it expects
    dataReady,              \* voice -> the atomic flag
    fileData,               \* voice -> the file it holds
    fileTicket,             \* the Synth's next ticket
    caller,                 \* where the caller is
    target,                 \* the voice the caller is working on
    toReset,                \* the voices clear() still has to reset
    queue,                  \* loadingQueue
    tokens,                 \* its semaphore
    loader,                 \* where the loading thread is
    job,                    \* the request it works on
    collector,              \* where the garbage thread is
    toVisit,                \* the handles it still has to look at
    mutex,                  \* holder of fileHandleMutex
    fileHandles,            \* handles of the pool
    session,                \* history: number of clears of the regions
    used,                   \* history: tickets given in this session
    late                    \* history: voices whose ticket was checked, or that
                            \* got a file, at a time they had no use for it

slotVars == <<region, ticket, dataReady, fileData>>
callerVars == <<caller, target, toReset, fileTicket>>
queueVars == <<queue, tokens>>
loaderVars == <<loader, job>>
collectorVars == <<collector, toVisit>>
historyVars == <<session, used, late>>
vars == <<slotVars, callerVars, queueVars, loaderVars, collectorVars, mutex,
          fileHandles, historyVars>>

\* "clearing" to "popping" are the stages of Synth::clear: reset the voices (in
\* two steps each), destroy the regions, drop the handles, pop the queue.
CallerStates ==
    {"idle", "started", "expecting", "unready",
     "clearing", "clearingUnready", "dropping", "draining", "popping"}
LoaderStates ==
    {"idle", "dequeuing", "dequeued", "opened", "locked", "pushed", "accepted",
     "stored"}

TypeOK ==
    /\ region \in [Voices -> Samples \cup {Generator, NoRegion}]
    /\ ticket \in [Voices -> Tickets]
    /\ dataReady \in [Voices -> BOOLEAN]
    /\ fileData \in [Voices -> Jobs \cup {NoFile}]
    /\ fileTicket \in Tickets
    /\ caller \in CallerStates
    /\ target \in Voices
    /\ toReset \subseteq Voices
    /\ queue \in Seq(Jobs)
    /\ tokens \in Nat
    /\ loader \in LoaderStates
    /\ job \in Jobs
    /\ collector \in {"asleep", "scanning"}
    /\ toVisit \subseteq Jobs
    /\ mutex \in {"free", "loader", "collector"}
    /\ fileHandles \subseteq Jobs
    /\ session \in Sessions
    /\ used \subseteq Tickets
    /\ late \subseteq Voices

Init ==
    /\ region = [v \in Voices |-> NoRegion]
    /\ ticket = [v \in Voices |-> 0]
    /\ dataReady = [v \in Voices |-> FALSE]
    /\ fileData = [v \in Voices |-> NoFile]
    /\ fileTicket = 1
    /\ caller = "idle"
    /\ target \in Voices
    /\ toReset = {}
    /\ queue = <<>>
    /\ tokens = 0
    /\ loader = "idle"
    /\ job \in [voice : Voices, sample : Samples, ticket : {0}, session : {0}]
    /\ collector = "asleep"
    /\ toVisit = {}
    /\ mutex = "free"
    /\ fileHandles = {}
    /\ session = 0
    /\ used = {}
    /\ late = {}

-----------------------------------------------------------------------------
(* The caller: starting a voice.                                             *)

\* The bounds: a session makes MaxTickets requests, and no session is so long
\* that a ticket comes back.
TicketLeft == fileTicket \notin used /\ Cardinality(used) < MaxTickets

\* Voice::startVoice, on a voice that findFreeVoice returned.  Neither the
\* ticket nor dataReady changes.  A generator needs no file.
StartVoice(v, r) ==
    /\ caller = "idle"
    /\ region[v] = NoRegion
    /\ r \in Samples => TicketLeft
    /\ region' = [region EXCEPT ![v] = r]
    /\ caller' = IF r = Generator THEN "idle" ELSE "started"
    /\ target' = v
    /\ UNCHANGED <<ticket, dataReady, fileData, toReset, fileTicket, queueVars,
                   loaderVars, collectorVars, mutex, fileHandles, historyVars>>

\* voice->expectFileData(fileTicket)
ExpectFileData ==
    /\ caller = "started"
    /\ ticket' = [ticket EXCEPT ![target] = fileTicket]
    /\ caller' = "expecting"
    /\ UNCHANGED <<region, dataReady, fileData, target, toReset, fileTicket, queueVars,
                   loaderVars, collectorVars, mutex, fileHandles, historyVars>>

Request ==
    [voice |-> target, sample |-> region[target], ticket |-> fileTicket, session |-> session]

\* filePool.enqueueLoading(voice, &region->sample, ..., fileTicket++).  A full
\* queue loses the request, which is only logged.
EnqueueLoading ==
    /\ caller = "expecting"
    /\ IF Len(queue) < QueueCapacity
       THEN queue' = Append(queue, Request) /\ tokens' = tokens + 1
       ELSE UNCHANGED queueVars
    /\ fileTicket' = (fileTicket + 1) % TicketMod
    /\ used' = used \cup {fileTicket}
    /\ caller' = "idle"
    /\ UNCHANGED <<slotVars, target, toReset, loaderVars, collectorVars, mutex,
                   fileHandles, session, late>>

-----------------------------------------------------------------------------
(* The caller: resetting a voice (its envelope ended, or it was stolen), and *)
(* Synth::clear.  Voice::reset is two steps: the flag, then the file.        *)

\* The loading thread is between the check of the voice's ticket and the store
\* of its flag.
Delivering(v) == loader \in {"accepted", "stored"} /\ job.voice = v

ResetFlag(v) ==
    /\ target' = v
    /\ dataReady' = [dataReady EXCEPT ![v] = FALSE]
    /\ late' = IF Delivering(v) THEN late \cup {v} ELSE late \ {v}
    /\ UNCHANGED <<region, ticket, fileData, fileTicket, queueVars, loaderVars,
                   collectorVars, mutex, fileHandles, session, used>>

ResetFile ==
    /\ fileData' = [fileData EXCEPT ![target] = NoFile]
    /\ region' = [region EXCEPT ![target] = NoRegion]
    /\ UNCHANGED <<ticket, dataReady, target, fileTicket, queueVars, loaderVars,
                   collectorVars, mutex, fileHandles, historyVars>>

BeginReset(v) ==
    /\ caller = "idle"
    /\ region[v] # NoRegion
    /\ caller' = "unready"
    /\ ResetFlag(v)
    /\ UNCHANGED toReset

EndReset ==
    /\ caller = "unready"
    /\ caller' = "idle"
    /\ ResetFile
    /\ UNCHANGED toReset

BeginClear ==
    /\ caller = "idle"
    /\ session < MaxSessions
    /\ caller' = "clearing"
    /\ toReset' = Voices
    /\ UNCHANGED <<slotVars, target, fileTicket, queueVars, loaderVars, collectorVars,
                   mutex, fileHandles, historyVars>>

BeginClearVoice(v) ==
    /\ caller = "clearing"
    /\ v \in toReset
    /\ caller' = "clearingUnready"
    /\ toReset' = toReset \ {v}
    /\ ResetFlag(v)

EndClearVoice ==
    /\ caller = "clearingUnready"
    /\ caller' = "clearing"
    /\ ResetFile
    /\ UNCHANGED toReset

\* regions.clear(): from here on every earlier request points nowhere.
ClearRegions ==
    /\ caller = "clearing"
    /\ toReset = {}
    /\ caller' = "dropping"
    /\ session' = session + 1
    /\ used' = {}
    /\ UNCHANGED <<slotVars, target, toReset, fileTicket, queueVars, loaderVars,
                   collectorVars, mutex, fileHandles, late>>

\* fileHandles.clear(), without fileHandleMutex.
ClearHandles ==
    /\ caller = "dropping"
    /\ caller' = "draining"
    /\ fileHandles' = {}
    /\ UNCHANGED <<slotVars, target, toReset, fileTicket, queueVars, loaderVars,
                   collectorVars, mutex, historyVars>>

\* loadingQueue.pop(): take a token, then an element.
BeginPop ==
    /\ caller = "draining"
    /\ tokens > 0
    /\ tokens' = tokens - 1
    /\ caller' = "popping"
    /\ UNCHANGED <<slotVars, target, toReset, fileTicket, queue, loaderVars, collectorVars,
                   mutex, fileHandles, historyVars>>

EndPop ==
    /\ caller = "popping"
    /\ queue' = Tail(queue)
    /\ caller' = "draining"
    /\ UNCHANGED <<slotVars, target, toReset, fileTicket, tokens, loaderVars, collectorVars,
                   mutex, fileHandles, historyVars>>

\* Mutant: the queue is not drained.
EndClearAtOnce ==
    /\ caller = "draining"
    /\ fileTicket' = TicketMod - 1
    /\ caller' = "idle"
    /\ UNCHANGED <<slotVars, target, toReset, queueVars, loaderVars, collectorVars, mutex,
                   fileHandles, historyVars>>

\* The queue is empty: fileTicket = -1.
EndClear ==
    /\ caller = "draining"
    /\ tokens = 0
    /\ fileTicket' = TicketMod - 1
    /\ caller' = "idle"
    /\ UNCHANGED <<slotVars, target, toReset, queueVars, loaderVars, collectorVars, mutex,
                   fileHandles, historyVars>>

Caller ==
    \/ \E v \in Voices, r \in Samples \cup {Generator} : StartVoice(v, r)
    \/ ExpectFileData \/ EnqueueLoading
    \/ \E v \in Voices : BeginReset(v) \/ BeginClearVoice(v)
    \/ EndReset \/ EndClearVoice
    \/ BeginClear \/ ClearRegions \/ ClearHandles \/ BeginPop \/ EndPop \/ EndClear

-----------------------------------------------------------------------------
(* The loading thread.                                                       *)

\* wait_dequeue_timed: take a token, then an element.  A timeout changes nothing.
BeginDequeue ==
    /\ loader = "idle"
    /\ tokens > 0
    /\ tokens' = tokens - 1
    /\ loader' = "dequeuing"
    /\ UNCHANGED <<slotVars, callerVars, queue, job, collectorVars, mutex, fileHandles,
                   historyVars>>

EndDequeue ==
    /\ loader = "dequeuing"
    /\ job' = Head(queue)
    /\ queue' = Tail(queue)
    /\ loader' = "dequeued"
    /\ UNCHANGED <<slotVars, callerVars, tokens, collectorVars, mutex, fileHandles,
                   historyVars>>

\* Read the sample name (any string, if its region is gone) and look for the file.
OpenFile(s) ==
    /\ loader = "dequeued"
    /\ job.session = session => s = job.sample
    /\ loader' = IF s \in Missing THEN "idle" ELSE "opened"
    /\ job' = [job EXCEPT !.sample = s]
    /\ UNCHANGED <<slotVars, callerVars, queueVars, collectorVars, mutex, fileHandles,
                   historyVars>>

LoaderLock ==
    /\ loader = "opened"
    /\ mutex = "free"
    /\ mutex' = "loader"
    /\ loader' = "locked"
    /\ UNCHANGED <<slotVars, callerVars, queueVars, job, collectorVars, fileHandles,
                   historyVars>>

\* fileHandles.emplace_back(readFromFile(...))
PushHandle ==
    /\ loader = "locked"
    /\ fileHandles' = fileHandles \cup {job}
    /\ loader' = "pushed"
    /\ UNCHANGED <<slotVars, callerVars, queueVars, job, collectorVars, mutex, historyVars>>

\* The voice plays, and nobody is starting or resetting it.
Settled(v) ==
    /\ region[v] # NoRegion
    /\ target = v => caller \notin {"started", "unready", "clearingUnready"}

\* Mutant: every file is taken, whatever its ticket.
AcceptAlways ==
    /\ loader = "pushed"
    /\ loader' = "accepted"
    /\ late' = IF job.session = session /\ Settled(job.voice)
               THEN late ELSE late \cup {job.voice}
    /\ UNCHANGED <<slotVars, callerVars, queueVars, job, collectorVars, mutex, fileHandles,
                   session, used>>

\* Voice::setFileData: a file for another ticket is refused, and the lock ends.
CheckTicket ==
    /\ loader = "pushed"
    /\ IF ticket[job.voice] = job.ticket
       THEN /\ loader' = "accepted"
            /\ late' = IF job.session = session /\ Settled(job.voice)
                       THEN late ELSE late \cup {job.voice}
            /\ UNCHANGED mutex
       ELSE /\ loader' = "idle"
            /\ mutex' = "free"
            /\ UNCHANGED late
    /\ UNCHANGED <<slotVars, callerVars, queueVars, job, collectorVars, fileHandles,
                   session, used>>

StoreFile ==
    /\ loader = "accepted"
    /\ fileData' = [fileData EXCEPT ![job.voice] = job]
    /\ loader' = "stored"
    /\ UNCHANGED <<region, ticket, dataReady, callerVars, queueVars, job, collectorVars,
                   mutex, fileHandles, historyVars>>

\* Mutant: the flag is not set.
StoreNoFlag ==
    /\ loader = "stored"
    /\ loader' = "idle"
    /\ mutex' = "free"
    /\ UNCHANGED <<slotVars, callerVars, queueVars, job, collectorVars, fileHandles,
                   historyVars>>

\* dataReady.store(true), and the lock guard is destroyed.
StoreFlag ==
    /\ loader = "stored"
    /\ dataReady' = [dataReady EXCEPT ![job.voice] = TRUE]
    /\ loader' = "idle"
    /\ mutex' = "free"
    /\ UNCHANGED <<region, ticket, fileData, callerVars, queueVars, job, collectorVars,
                   fileHandles, historyVars>>

LoaderStep ==
    \/ BeginDequeue \/ EndDequeue
    \/ \E s \in Samples : OpenFile(s)
    \/ PushHandle \/ CheckTicket \/ StoreFile \/ StoreFlag

-----------------------------------------------------------------------------
(* The garbage thread.                                                       *)

Referenced(h) == \E v \in Voices : fileData[v] = h

\* Mutant: the collector does not take the mutex.
CollectorNoLock ==
    /\ collector = "asleep"
    /\ toVisit' = fileHandles
    /\ collector' = "scanning"
    /\ UNCHANGED <<slotVars, callerVars, queueVars, loaderVars, mutex, fileHandles, historyVars>>

CollectorLock ==
    /\ collector = "asleep"
    /\ mutex = "free"
    /\ mutex' = "collector"
    /\ toVisit' = fileHandles
    /\ collector' = "scanning"
    /\ UNCHANGED <<slotVars, callerVars, queueVars, loaderVars, fileHandles, historyVars>>

\* Mutant: every handle is kept.
VisitKeep(h) ==
    /\ collector = "scanning"
    /\ h \in toVisit
    /\ toVisit' = toVisit \ {h}
    /\ UNCHANGED <<slotVars, callerVars, queueVars, loaderVars, collector, mutex, fileHandles,
                   historyVars>>

\* Drop the handle if its use_count() is 1.
Visit(h) ==
    /\ collector = "scanning"
    /\ h \in toVisit
    /\ toVisit' = toVisit \ {h}
    /\ fileHandles' = IF Referenced(h) THEN fileHandles ELSE fileHandles \ {h}
    /\ UNCHANGED <<slotVars, callerVars, queueVars, loaderVars, collector, mutex, historyVars>>

CollectorUnlock ==
    /\ collector = "scanning"
    /\ toVisit = {}
    /\ mutex' = "free"
    /\ collector' = "asleep"
    /\ UNCHANGED <<slotVars, callerVars, queueVars, loaderVars, toVisit, fileHandles,
                   historyVars>>

CollectorStep == (\E h \in toVisit : Visit(h)) \/ CollectorUnlock

-----------------------------------------------------------------------------
Next == Caller \/ LoaderStep \/ LoaderLock \/ CollectorStep \/ CollectorLock

\* Both threads run.  The collector sleeps 200 ms between two holds of the mutex
\* and the loader reads a file between two, so neither keeps it from the other
\* for ever: strong fairness for the two lock operations.  A caller that is in
\* the middle of a handler goes on; it need not begin one.
CallerGoesOn ==
    ExpectFileData \/ EnqueueLoading \/ EndReset \/ EndClearVoice \/ EndPop

Fairness ==
    /\ WF_vars(LoaderStep) /\ SF_vars(LoaderLock)
    /\ WF_vars(CollectorStep) /\ SF_vars(CollectorLock)
    /\ WF_vars(CallerGoesOn)

SafeSpec == Init /\ [][Next]_vars
Spec == SafeSpec /\ Fairness

-----------------------------------------------------------------------------
(* Properties.                                                               *)

\* A voice that plays a sample and finds dataReady plays that sample and no
\* other, from a file that is there -- unless the check of its ticket was made
\* too late (the voice was free, or was being started or reset, or the request
\* was from a cleared session) or was out of date when the file was stored (the
\* voice was reset in between).  reset() does not change the ticket, startVoice()
\* leaves dataReady alone, and setFileData() stores in two steps: both happen.
PlaysRequestedSample ==
    \A v \in Voices :
        region[v] \in Samples /\ dataReady[v] /\ v \notin late =>
            fileData[v] # NoFile /\ fileData[v].sample = region[v]

\* A file that a voice holds has a handle in the pool too, so that no reset of
\* a voice frees memory on the audio thread.  Files of a session that was
\* cleared are not covered: clear() drops their handles.
Pinned ==
    \A v \in Voices :
        fileData[v] # NoFile /\ fileData[v].session = session =>
            fileData[v] \in fileHandles

\* When clear() has returned, no request of an earlier session is left in the
\* queue, but for one that the loading thread has taken the token of.
InClear == caller \in {"clearing", "clearingUnready", "dropping", "draining", "popping"}

StaleJobsReserved ==
    ~InClear =>
        \A i \in 1 .. Len(queue) :
            queue[i].session # session => i = 1 /\ loader = "dequeuing"

\* The queue has one consumer at a time (readerwriterqueue.h).
SingleConsumer == ~(caller = "popping" /\ loader = "dequeuing")

\* A request for a file that exists, once it is in the queue, is answered before
\* the voice is reset, or the voice is: it does not wait for ever.
Awaits(v) ==
    /\ region[v] \in Samples \ Missing
    /\ ~(caller = "started" /\ target = v)
    /\ \E i \in 1 .. Len(queue) :
          queue[i].voice = v /\ queue[i].ticket = ticket[v] /\ queue[i].session = session

RequestsAnswered ==
    \A v \in Voices :
        Awaits(v) ~> (dataReady[v] \/ region[v] \notin Samples)

\* A handle nobody uses is dropped in the end, or used again.
HandlesReclaimed ==
    \A h \in Jobs :
        (h \in fileHandles /\ ~Referenced(h)) ~> (h \notin fileHandles \/ Referenced(h))

=================================================================================
