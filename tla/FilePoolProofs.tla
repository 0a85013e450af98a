----------------------------- MODULE FilePoolProofs -----------------------------
(*****************************************************************************)
(* Safety of background loading, for any number of voices, samples, tickets  *)
(* and sessions and any capacity of the queue.                               *)
(*                                                                           *)
(* The types need to know that the queue is not empty when one of its two    *)
(* consumers has a token, so TypeInv comes first and carries the count of    *)
(* the tokens.  The rest of the invariant rests on it.                       *)
(*****************************************************************************)
EXTENDS FilePool, TLAPS

\* A started voice has a sample; its ticket is new.
Starting ==
    caller \in {"started", "expecting"} =>
        region[target] \in Samples /\ fileTicket \notin used

\* Every element of the queue has a token, or a consumer that took it.
TokensCounted ==
    Len(queue) = tokens + (IF loader = "dequeuing" THEN 1 ELSE 0)
                        + (IF caller = "popping" THEN 1 ELSE 0)

ClearCounted == caller \in {"clearing", "clearingUnready"} => session < MaxSessions

TypeInv == TypeOK /\ Starting /\ TokensCounted /\ ClearCounted

-----------------------------------------------------------------------------
LEMMA TypeInvInit == Init => TypeInv
BY ConstantsAssumption
   DEF Init, TypeInv, TypeOK, Starting, TokensCounted, ClearCounted, Tickets, Sessions,
       Jobs, CallerStates, LoaderStates

LEMMA TypeInvCaller == TypeInv /\ Caller => TypeInv'
<1> SUFFICES ASSUME TypeInv, Caller PROVE TypeInv'
  OBVIOUS
<1> USE DEF TypeInv, TypeOK, Starting, TokensCounted, ClearCounted, CallerStates,
            slotVars, queueVars, loaderVars, collectorVars, historyVars
<1>1. ASSUME NEW v \in Voices, NEW r \in Samples \cup {Generator}, StartVoice(v, r)
      PROVE TypeInv'
  BY <1>1, ConstantsAssumption DEF StartVoice, TicketLeft
<1>2. CASE ExpectFileData
  BY <1>2 DEF ExpectFileData
<1>3. CASE EnqueueLoading
  <2>1. Request \in Jobs
    BY <1>3 DEF EnqueueLoading, Request, Jobs
  <2>2. fileTicket' \in Tickets
    BY <1>3, ConstantsAssumption DEF EnqueueLoading, Tickets
  <2>3. used' \subseteq Tickets
    BY <1>3 DEF EnqueueLoading
  <2>4. CASE Len(queue) < QueueCapacity
    <3>1. queue' = Append(queue, Request) /\ tokens' = tokens + 1
      BY <1>3, <2>4 DEF EnqueueLoading
    <3>2. queue' \in Seq(Jobs) /\ Len(queue') = Len(queue) + 1
      BY <2>1, <3>1
    <3>3. /\ loader' = loader /\ caller = "expecting" /\ caller' = "idle"
          /\ session' = session
      BY <1>3 DEF EnqueueLoading
    <3>4. TokensCounted'
      BY <3>1, <3>2, <3>3
    <3>5. TypeOK'
      BY <1>3, <2>2, <2>3, <3>1, <3>2 DEF EnqueueLoading
    <3>6. QED
      BY <3>3, <3>4, <3>5
  <2>5. CASE ~(Len(queue) < QueueCapacity)
    BY <1>3, <2>2, <2>3, <2>5 DEF EnqueueLoading
  <2>6. QED
    BY <2>4, <2>5
<1>4. ASSUME NEW v \in Voices, BeginReset(v) PROVE TypeInv'
  BY <1>4 DEF BeginReset, ResetFlag
<1>5. ASSUME NEW v \in Voices, BeginClearVoice(v) PROVE TypeInv'
  BY <1>5 DEF BeginClearVoice, ResetFlag
<1>6. CASE EndReset
  BY <1>6 DEF EndReset, ResetFile
<1>7. CASE EndClearVoice
  BY <1>7 DEF EndClearVoice, ResetFile
<1>8. CASE BeginClear
  BY <1>8 DEF BeginClear
<1>9. CASE ClearRegions
  BY <1>9, ConstantsAssumption DEF ClearRegions, Sessions
<1>10. CASE ClearHandles
  BY <1>10 DEF ClearHandles
<1>11. CASE BeginPop
  BY <1>11 DEF BeginPop
<1>12. CASE EndPop
  BY <1>12 DEF EndPop
<1>13. CASE EndClear
  BY <1>13, ConstantsAssumption DEF EndClear, Tickets
<1>14. QED
  BY <1>1, <1>2, <1>3, <1>4, <1>5, <1>6, <1>7, <1>8, <1>9, <1>10, <1>11, <1>12, <1>13
     DEF Caller

LEMMA TypeInvThreads ==
    TypeInv /\ (LoaderStep \/ LoaderLock \/ CollectorStep \/ CollectorLock) => TypeInv'
<1> SUFFICES ASSUME TypeInv, LoaderStep \/ LoaderLock \/ CollectorStep \/ CollectorLock
             PROVE TypeInv'
  OBVIOUS
<1> USE DEF TypeInv, TypeOK, Starting, TokensCounted, ClearCounted, LoaderStates,
            slotVars, callerVars, queueVars, loaderVars, collectorVars, historyVars
<1>1. CASE BeginDequeue
  BY <1>1 DEF BeginDequeue
<1>2. CASE EndDequeue
  BY <1>2 DEF EndDequeue
<1>3. ASSUME NEW s \in Samples, OpenFile(s) PROVE TypeInv'
  <2>1. [job EXCEPT !.sample = s] \in Jobs
    BY <1>3 DEF Jobs
  <2>2. QED
    BY <1>3, <2>1 DEF OpenFile
<1>4. CASE PushHandle
  BY <1>4 DEF PushHandle
<1>5. CASE CheckTicket
  BY <1>5 DEF CheckTicket, Jobs
<1>6. CASE StoreFile
  BY <1>6 DEF StoreFile, Jobs
<1>7. CASE StoreFlag
  BY <1>7 DEF StoreFlag
<1>8. CASE LoaderLock
  BY <1>8 DEF LoaderLock
<1>9. ASSUME NEW h \in toVisit, Visit(h) PROVE TypeInv'
  BY <1>9 DEF Visit
<1>10. CASE CollectorUnlock
  BY <1>10 DEF CollectorUnlock
<1>11. CASE CollectorLock
  BY <1>11 DEF CollectorLock
<1>12. QED
  BY <1>1, <1>2, <1>3, <1>4, <1>5, <1>6, <1>7, <1>8, <1>9, <1>10, <1>11
     DEF LoaderStep, CollectorStep

LEMMA TypeInvStutter == TypeInv /\ UNCHANGED vars => TypeInv'
BY DEF TypeInv, TypeOK, Starting, TokensCounted, ClearCounted, vars,
       slotVars, callerVars, queueVars, loaderVars, collectorVars, historyVars

\* Every variable keeps its type, and neither consumer finds the queue empty.
THEOREM TypeCorrect == SafeSpec => [](TypeOK /\ TypeInv)
<1>1. Init => TypeInv
  BY TypeInvInit
<1>2. TypeInv /\ [Next]_vars => TypeInv'
  BY TypeInvCaller, TypeInvThreads, TypeInvStutter DEF Next
<1>3. TypeInv => TypeOK
  BY DEF TypeInv
<1>4. QED
  BY <1>1, <1>2, <1>3, PTL DEF SafeSpec

-----------------------------------------------------------------------------
(* The inductive invariant.                                                  *)

\* Who holds the mutex.
Locking ==
    /\ mutex = "loader" <=> loader \in {"locked", "pushed", "accepted", "stored"}
    /\ mutex = "collector" <=> collector = "scanning"

Holding == loader \notin {"idle", "dequeuing"}

Current(j) == j.session = session

\* No request or file comes from the future.
SessionsBounded ==
    /\ \A i \in 1 .. Len(queue) : queue[i].session <= session
    /\ job.session <= session
    /\ \A v \in Voices : fileData[v] # NoFile => fileData[v].session <= session

\* While the handles are dropped everything in flight is from an earlier session.
NothingCurrent ==
    caller = "dropping" =>
        /\ \A i \in 1 .. Len(queue) : ~Current(queue[i])
        /\ Holding => ~Current(job)
        /\ \A v \in Voices : fileData[v] # NoFile => ~Current(fileData[v])

\* The voices that clear() is done with are free.
VoicesCleared ==
    caller \in {"clearing", "clearingUnready"} =>
        \A v \in Voices \ toReset :
            region[v] = NoRegion \/ (caller = "clearingUnready" /\ v = target)

\* A request of this session has a ticket of this session, so that a voice that
\* still has the ticket still has the sample, if it has one at all.
TicketUsed(j) == Current(j) => j.ticket \in used

Answers(j) ==
    Current(j) /\ ticket[j.voice] = j.ticket
               /\ ~(caller = "started" /\ target = j.voice) =>
        region[j.voice] \in {NoRegion, Generator, j.sample}

Requests ==
    /\ \A i \in 1 .. Len(queue) : TicketUsed(queue[i]) /\ Answers(queue[i])
    /\ Holding => TicketUsed(job) /\ Answers(job)

\* The handle of the file that is being delivered is in the pool.
DeliveryPinned ==
    loader \in {"pushed", "accepted", "stored"} /\ Current(job) => job \in fileHandles

\* A delivery in progress is what the voice plays, if it is not late.
Deliveries ==
    loader \in {"accepted", "stored"} /\ job.voice \notin late =>
        /\ Current(job)
        /\ Settled(job.voice)
        /\ region[job.voice] \in {Generator, job.sample}
        /\ loader = "stored" => fileData[job.voice] = job

\* So is a delivery that is over.
Delivered ==
    \A v \in Voices :
        dataReady[v] /\ v \notin late =>
            /\ region[v] # NoRegion
            /\ target = v => caller \notin {"unready", "clearingUnready"}
            /\ region[v] \in Samples =>
                  fileData[v] # NoFile /\ fileData[v].sample = region[v]

PoolInv ==
    /\ Locking
    /\ SessionsBounded
    /\ NothingCurrent
    /\ VoicesCleared
    /\ Requests
    /\ Pinned
    /\ DeliveryPinned
    /\ Deliveries
    /\ Delivered
    /\ StaleJobsReserved

-----------------------------------------------------------------------------
LEMMA PoolInvInit == Init => PoolInv
BY ConstantsAssumption
   DEF Init, PoolInv, Locking, SessionsBounded, NothingCurrent, VoicesCleared, Requests,
       Pinned, DeliveryPinned, Deliveries, Delivered, StaleJobsReserved, Holding, InClear

LEMMA PoolInvCaller == TypeInv /\ PoolInv /\ Caller => PoolInv'
<1> SUFFICES ASSUME TypeInv, PoolInv, Caller PROVE PoolInv'
  OBVIOUS
<1> USE ConstantsAssumption
    DEF TypeInv, TypeOK, Starting, TokensCounted, Jobs, PoolInv, Locking, SessionsBounded,
        NothingCurrent, VoicesCleared, Requests, Pinned, DeliveryPinned, Deliveries,
        Delivered, StaleJobsReserved, Holding, Current, TicketUsed, Answers, Settled,
        InClear, slotVars, callerVars, queueVars, loaderVars, collectorVars, historyVars
<1>1. ASSUME NEW v \in Voices, NEW r \in Samples \cup {Generator}, StartVoice(v, r) PROVE PoolInv'
  BY <1>1 DEF StartVoice, TicketLeft
<1>2. CASE ExpectFileData
  BY <1>2 DEF ExpectFileData
<1>3. CASE EnqueueLoading
  <2>1. Request \in Jobs /\ Current(Request)
    BY <1>3 DEF EnqueueLoading, Request
  <2>2. /\ Request.voice = target
        /\ Request.sample = region[target]
        /\ Request.ticket \in used'
    BY <1>3 DEF EnqueueLoading, Request
  <2>3. ASSUME NEW i \in 1 .. Len(queue')
        PROVE \/ i \in 1 .. Len(queue) /\ queue'[i] = queue[i]
              \/ queue'[i] = Request
    <3>1. CASE Len(queue) < QueueCapacity
      <4>1. queue' = Append(queue, Request)
        BY <1>3, <3>1 DEF EnqueueLoading
      <4>2. QED
        BY <2>1, <2>3, <4>1
    <3>2. CASE ~(Len(queue) < QueueCapacity)
      BY <1>3, <2>3, <3>2 DEF EnqueueLoading
    <3>3. QED
      BY <3>1, <3>2
  <2>4. /\ caller = "expecting" /\ caller' = "idle"
        /\ used' = used \cup {fileTicket}
        /\ UNCHANGED <<slotVars, target, toReset, loaderVars, collectorVars, mutex,
                       fileHandles, session, late>>
    BY <1>3 DEF EnqueueLoading
  <2>5. SessionsBounded'
    BY <2>1, <2>3, <2>4 DEF Sessions
  <2>6. Requests'
    BY <2>1, <2>2, <2>3, <2>4
  <2>7. StaleJobsReserved'
    BY <2>1, <2>3, <2>4
  <2>8. QED
    BY <2>4, <2>5, <2>6, <2>7
<1>4. ASSUME NEW v \in Voices, BeginReset(v) PROVE PoolInv'
  BY <1>4 DEF BeginReset, ResetFlag, Delivering
<1>5. CASE EndReset
  BY <1>5 DEF EndReset, ResetFile
<1>6. CASE BeginClear
  BY <1>6 DEF BeginClear
<1>7. ASSUME NEW v \in Voices, BeginClearVoice(v) PROVE PoolInv'
  BY <1>7 DEF BeginClearVoice, ResetFlag, Delivering
<1>8. CASE EndClearVoice
  BY <1>8 DEF EndClearVoice, ResetFile
<1>9. CASE ClearRegions
  <2>1. /\ caller = "clearing" /\ caller' = "dropping" /\ toReset = {}
        /\ session' = session + 1 /\ used' = {}
        /\ UNCHANGED <<slotVars, target, toReset, fileTicket, queueVars, loaderVars,
                       collectorVars, mutex, fileHandles, late>>
    BY <1>9 DEF ClearRegions
  <2>2. session \in Int /\ \A j \in Jobs : j.session \in Int
    BY DEF Sessions
  <2>3. \A j \in Jobs : j.session <= session => j.session <= session' /\ ~Current(j)'
    BY <2>1, <2>2
  <2>4. \A i \in 1 .. Len(queue) :
            queue[i].session <= session' /\ ~Current(queue[i])'
    <3> HIDE DEF Jobs
    <3>1. \A i \in 1 .. Len(queue) : queue[i] \in Jobs /\ queue[i].session <= session
      OBVIOUS
    <3>2. queue' = queue
      BY <2>1
    <3>3. QED
      BY <2>3, <3>1, <3>2
  <2>5. job.session <= session' /\ ~Current(job)'
    BY <2>1, <2>3
  <2>6. \A v \in Voices : fileData[v] # NoFile =>
            fileData[v].session <= session' /\ ~Current(fileData[v])'
    <3>1. \A v \in Voices : fileData[v] # NoFile => fileData[v] \in Jobs
      OBVIOUS
    <3>2. QED
      BY <2>1, <2>3, <3>1
  <2>7. SessionsBounded' /\ NothingCurrent' /\ VoicesCleared'
    BY <2>1, <2>4, <2>5, <2>6
  <2>8. Requests' /\ Pinned' /\ DeliveryPinned'
    BY <2>1, <2>4, <2>5, <2>6
  <2>9. Deliveries'
    BY <2>1
  <2>10. Locking' /\ Delivered' /\ StaleJobsReserved'
    BY <2>1
  <2>11. QED
    BY <2>7, <2>8, <2>9, <2>10
<1>10. CASE ClearHandles
  BY <1>10 DEF ClearHandles
<1>11. CASE BeginPop
  BY <1>11 DEF BeginPop
<1>12. CASE EndPop
  BY <1>12 DEF EndPop
<1>13. CASE EndClear
  BY <1>13 DEF EndClear
<1>14. QED
  BY <1>1, <1>2, <1>3, <1>4, <1>5, <1>6, <1>7, <1>8, <1>9, <1>10, <1>11, <1>12, <1>13 DEF Caller

LEMMA PoolInvLoader == TypeInv /\ PoolInv /\ (LoaderStep \/ LoaderLock) => PoolInv'
<1> SUFFICES ASSUME TypeInv, PoolInv, LoaderStep \/ LoaderLock PROVE PoolInv'
  OBVIOUS
<1> USE ConstantsAssumption
    DEF TypeInv, TypeOK, Starting, TokensCounted, Jobs, PoolInv, Locking, SessionsBounded,
        NothingCurrent, VoicesCleared, Requests, Pinned, DeliveryPinned, Deliveries,
        Delivered, StaleJobsReserved, Holding, Current, TicketUsed, Answers, Settled,
        InClear, slotVars, callerVars, queueVars, loaderVars, collectorVars, historyVars
<1>1. CASE BeginDequeue
  BY <1>1 DEF BeginDequeue
<1>2. CASE EndDequeue
  BY <1>2 DEF EndDequeue
<1>3. ASSUME NEW s \in Samples, OpenFile(s) PROVE PoolInv'
  BY <1>3 DEF OpenFile
<1>4. CASE LoaderLock
  BY <1>4 DEF LoaderLock
<1>5. CASE PushHandle
  BY <1>5 DEF PushHandle
<1>6. CASE CheckTicket
  BY <1>6 DEF CheckTicket
<1>7. CASE StoreFile
  BY <1>7 DEF StoreFile
<1>8. CASE StoreFlag
  BY <1>8 DEF StoreFlag
<1>9. QED
  BY <1>1, <1>2, <1>3, <1>4, <1>5, <1>6, <1>7, <1>8 DEF LoaderStep

LEMMA PoolInvCollector == TypeInv /\ PoolInv /\ (CollectorStep \/ CollectorLock) => PoolInv'
<1> SUFFICES ASSUME TypeInv, PoolInv, CollectorStep \/ CollectorLock PROVE PoolInv'
  OBVIOUS
<1> USE ConstantsAssumption
    DEF TypeInv, TypeOK, Starting, TokensCounted, Jobs, PoolInv, Locking, SessionsBounded,
        NothingCurrent, VoicesCleared, Requests, Pinned, DeliveryPinned, Deliveries,
        Delivered, StaleJobsReserved, Holding, Current, TicketUsed, Answers, Settled,
        InClear, slotVars, callerVars, queueVars, loaderVars, collectorVars, historyVars
<1>1. CASE CollectorLock
  BY <1>1 DEF CollectorLock
<1>2. ASSUME NEW h \in toVisit, Visit(h) PROVE PoolInv'
  BY <1>2 DEF Visit, Referenced
<1>3. CASE CollectorUnlock
  BY <1>3 DEF CollectorUnlock
<1>4. QED
  BY <1>1, <1>2, <1>3 DEF CollectorStep

LEMMA PoolInvStutter == PoolInv /\ UNCHANGED vars => PoolInv'
BY DEF PoolInv, Locking, SessionsBounded, NothingCurrent, VoicesCleared, Requests, Pinned,
       DeliveryPinned, Deliveries, Delivered, StaleJobsReserved, Holding, Current, TicketUsed,
       Answers, Settled, InClear, vars, slotVars, callerVars, queueVars, loaderVars,
       collectorVars, historyVars

THEOREM PoolInvariant == SafeSpec => []PoolInv
<1>1. TypeInv /\ PoolInv /\ [Next]_vars => PoolInv'
  BY PoolInvCaller, PoolInvLoader, PoolInvCollector, PoolInvStutter DEF Next
<1>2. QED
  BY <1>1, PoolInvInit, TypeCorrect, PTL DEF SafeSpec

-----------------------------------------------------------------------------
\* No reset of a voice frees a file: the audio thread never owns the last
\* reference to a file of the current session.
THEOREM PinnedHolds == SafeSpec => []Pinned
<1>1. PoolInv => Pinned
  BY DEF PoolInv
<1>2. QED
  BY <1>1, PoolInvariant, PTL

\* A voice plays the file it asked for, but for deliveries made late.
THEOREM PlaysRequestedSampleHolds == SafeSpec => []PlaysRequestedSample
<1>1. PoolInv => PlaysRequestedSample
  BY DEF PoolInv, Delivered, PlaysRequestedSample
<1>2. QED
  BY <1>1, PoolInvariant, PTL

\* clear() leaves at most one old request, in the hands of the loading thread.
THEOREM StaleJobsReservedHolds == SafeSpec => []StaleJobsReserved
<1>1. PoolInv => StaleJobsReserved
  BY DEF PoolInv
<1>2. QED
  BY <1>1, PoolInvariant, PTL

=================================================================================
