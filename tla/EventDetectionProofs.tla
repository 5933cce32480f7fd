------------------------ MODULE EventDetectionProofs ------------------------
(***************************************************************************)
(* Proofs about EventDetection for every profile, queue size, pool size    *)
(* and number of signals: type correctness, the leaky bucket, the account  *)
(* of the reports, and what the recoveries do: none resolves an entry of a *)
(* later condition (ResolvedByLaterRecovery), and no entry a recovery is   *)
(* about is forgotten (RecoveryReachesItsLogs).                            *)
(*                                                                         *)
(* For the recoveries, items are in the order of their signals and threads *)
(* know only of signals before those still queued (OrderInv), and an owed  *)
(* entry that is not resolved is excused, or filed under a sub type, or is *)
(* still ahead of some item in the queue, or of the worker (RecoveryInv).  *)
(***************************************************************************)
EXTENDS EventDetection, FiniteSetTheorems, SequenceTheorems, TLAPS

\* The values of a record whose fields mean nothing.
LEMMA PlaceholdersTyped ==
    /\ Sleeping \in Workers
    /\ Sleeping.ids = {} /\ Sleeping.pc = "sleep" /\ Sleeping.kind = "none"
    /\ Dead \in Workers
    /\ Dead.ids = {} /\ Dead.pc = "dead" /\ Dead.kind = "none"
    /\ Idle \in Threads /\ Idle.pc = "idle"
    /\ AnyEvent \in Events
<1>1. AnyObject \in Objects /\ AnyEvent \in Events /\ AnyDevice \in Devices
  BY BoundAssumption DEF AnyObject, AnyEvent, AnyDevice
<1>2. InitProp[AnyObject] \in Values
  BY <1>1, ProfileAssumption
<1>3. /\ Sleeping \in Workers
      /\ Sleeping.ids = {} /\ Sleeping.pc = "sleep" /\ Sleeping.kind = "none"
  BY <1>1, <1>2 DEF Sleeping, Workers, WorkerPCs
<1>4. /\ Dead \in Workers
      /\ Dead.ids = {} /\ Dead.pc = "dead" /\ Dead.kind = "none"
  BY <1>3 DEF Dead, Workers, WorkerPCs
<1>5. Idle \in Threads /\ Idle.pc = "idle"
  BY <1>1 DEF Idle, Threads, ThreadPCs
<1> QED
  BY <1>1, <1>3, <1>4, <1>5

\* The devices a check names for a value are devices.
LEMMA ChecksTyped ==
    ASSUME NEW e \in Events, NEW o \in Objects, NEW v \in Values
    PROVE  /\ Profile[e].recovery.check[o][v] \subseteq Devices
           /\ Profile[e].trigger.check[o][v] \subseteq Devices
           /\ Profile[e].accessor.check[o][v] \subseteq Devices
  BY ProfileAssumption DEF Parts

LEMMA InitTyped == Init => TypeOK
<1> SUFFICES ASSUME Init PROVE TypeOK
  OBVIOUS
<1>1. prop \in [Objects -> Values] /\ changes \in 0 .. MaxChanges
  BY ProfileAssumption, BoundAssumption DEF Init
<1>2. queue \in Seq(Items) /\ Len(queue) <= QueueSize
  BY BoundAssumption DEF Init
<1>3. /\ w \in Workers /\ w.ids \subseteq DOMAIN logs
      /\ thr \in [Guards -> Threads]
  BY PlaceholdersTyped DEF Init
<1>4. /\ count \in [Events -> [Devices -> Nat]]
      /\ seen \in [Events -> [Devices -> Nat]]
      /\ fired \in [Events -> [Devices -> Nat]]
  BY DEF Init
<1>5. logs \in Seq(Entries)
  BY DEF Init
<1>6. /\ booted \in BOOLEAN /\ reports \in Nat /\ lost \in Nat
      /\ owed \subseteq DOMAIN logs /\ excused \subseteq DOMAIN logs
  BY DEF Init
<1> QED
  BY <1>1, <1>2, <1>3, <1>4, <1>5, <1>6 DEF TypeOK

-----------------------------------------------------------------------------
(* Type correctness: the main thread and popFromQueue                      *)

LEMMA SignalTyped ==
    ASSUME TypeOK, NEW o \in Objects, NEW v \in Values,
           dbusEventHandlerCallback(o, v)
    PROVE  TypeOK'
<1>1. RecoveredBy(o, v) \subseteq DOMAIN logs
  BY DEF RecoveredBy
<1>2. [seq |-> changes + 1, obj |-> o, val |-> v, events |-> eventDiscovery(o)]
        \in Items
  BY DEF TypeOK, Items, eventDiscovery
<1>3. queue' \in Seq(Items) /\ Len(queue') <= QueueSize
  <2>1. CASE UNCHANGED queue
    BY <2>1 DEF TypeOK
  <2>2. CASE /\ Len(queue) < QueueSize
             /\ queue' = Append(queue, [seq |-> changes + 1, obj |-> o,
                                val |-> v, events |-> eventDiscovery(o)])
    BY <1>2, <2>2, BoundAssumption DEF TypeOK
  <2> QED
    BY <2>1, <2>2 DEF dbusEventHandlerCallback, pushToQueue
<1>4. owed' \subseteq DOMAIN logs
  BY <1>1 DEF dbusEventHandlerCallback, pushToQueue, TypeOK
<1>5. prop' \in [Objects -> Values] /\ changes' \in 0 .. MaxChanges
  BY BoundAssumption DEF dbusEventHandlerCallback, TypeOK
<1>6. UNCHANGED <<w, count, thr, booted, logs, seen, fired, reports, lost,
                  excused>>
  BY DEF dbusEventHandlerCallback, pool
<1> QED
  BY <1>3, <1>4, <1>5, <1>6 DEF TypeOK

LEMMA PopTyped ==
    ASSUME TypeOK, popFromQueue
    PROVE  TypeOK'
<1>1. Head(queue) \in Items /\ Tail(queue) \in Seq(Items)
      /\ Len(Tail(queue)) <= QueueSize
  BY BoundAssumption DEF TypeOK, popFromQueue
<1>2. Working(Head(queue)) \in Workers /\ Working(Head(queue)).ids = {}
  BY <1>1, PlaceholdersTyped DEF Working, Workers, WorkerPCs, Items
<1> QED
  BY <1>1, <1>2 DEF popFromQueue, TypeOK, signals, pool, ghosts

\* A step that changes no more than the worker's record and marks entries
\* that exist.
LEMMA WorkerStepTyped ==
    ASSUME TypeOK, w' \in Workers, w'.ids \subseteq DOMAIN logs,
           UNCHANGED <<signals, queue, count, pool, seen, fired, reports, owed>>,
           logs' \in Seq(Entries), DOMAIN logs' = DOMAIN logs,
           lost' \in Nat, excused' \subseteq DOMAIN logs
    PROVE  TypeOK'
  BY DEF TypeOK, signals, pool

-----------------------------------------------------------------------------
(* Type correctness: the worker                                            *)

\* A candidate of the list, and the list after one of its devices.
LEMMA CandidatesTyped ==
    ASSUME TypeOK, w.cands # <<>>, NEW d \in Devices
    PROVE  /\ Candidate \in Candidates
           /\ Advance(d) \in Seq(Candidates)
<1>1. w.cands \in Seq(Candidates)
  BY DEF TypeOK, Workers
<1>2. Candidate \in Candidates /\ Tail(w.cands) \in Seq(Candidates)
  BY <1>1 DEF Candidate
<1>3. [Candidate EXCEPT !.devs = @ \ {d}] \in Candidates
  BY <1>2 DEF Candidates
<1>4. <<[Candidate EXCEPT !.devs = @ \ {d}]>> \o Tail(w.cands)
        \in Seq(Candidates)
  BY <1>2, <1>3
<1> QED
  BY <1>2, <1>4 DEF Advance

LEMMA TracerTyped ==
    ASSUME TypeOK, NEW e \in Events
    PROVE  WithTracer(e) \in Workers
<1> DEFINE c == [event |-> e, recovery |-> TRUE,
                 devs |-> Profile[e].recovery.check[w.obj][w.val]]
<1>1. w \in Workers /\ w.obj \in Objects /\ w.val \in Values
      /\ w.cands \in Seq(Candidates)
  BY DEF TypeOK, Workers
<1>2. c \in Candidates
  BY <1>1, ChecksTyped DEF Candidates
<1>3. Append(w.cands, c) \in Seq(Candidates)
  BY <1>1, <1>2
<1> HIDE DEF c
<1>4. [w EXCEPT !.traced = {""}, !.cands = Append(@, c)] \in Workers
  BY <1>1, <1>3 DEF Workers
<1> QED
  BY <1>1, <1>4 DEF WithTracer, c

LEMMA UnresolvedTyped ==
    ASSUME TypeOK, NEW n, NEW d
    PROVE  Unresolved(n, d) \subseteq DOMAIN logs /\ DOMAIN logs \subseteq Nat
<1>1. Unresolved(n, d) \subseteq DOMAIN logs
  BY DEF Unresolved
<1>2. DOMAIN logs \subseteq Nat
  BY DEF TypeOK
<1> QED
  BY <1>1, <1>2

LEMMA RecoveryTyped ==
    ASSUME TypeOK, Recovery
    PROVE  TypeOK'
<1>0. w \in Workers /\ w.obj \in Objects /\ w.val \in Values
      /\ w.event \in Events /\ w.devs \subseteq Devices /\ w.todo \subseteq Events
      /\ w.ids \subseteq DOMAIN logs /\ w.ids \subseteq Nat
  BY DEF TypeOK, Workers
<1>1. ASSUME NEW e \in w.todo, CheckRecovery(e) PROVE TypeOK'
  <2>1. Profile[e].recovery.check[w.obj][w.val] \subseteq Devices
    BY <1>0, ChecksTyped
  <2>2. w' \in Workers /\ w'.ids = w.ids
    BY <1>0, <1>1, <2>1 DEF CheckRecovery, Workers, WorkerPCs
  <2> QED
    BY <1>0, <1>1, <2>2, WorkerStepTyped DEF CheckRecovery, TypeOK, ghosts
<1>2. ASSUME NEW d \in w.devs, resolveDeviceLogs(d) PROVE TypeOK'
  <2>1. WithTracer(w.event) \in Workers
    BY <1>0, TracerTyped
  <2>2. RecoverKey(w.event, d) \in Names \X Devices
    BY <1>0 DEF RecoverKey, Names
  <2>3. /\ Unresolved(Profile[w.event].name, d) \subseteq DOMAIN logs
        /\ Unresolved(Profile[w.event].name, d) \subseteq Nat
    BY UnresolvedTyped
  <2>4. w' \in Workers /\ w'.ids \subseteq DOMAIN logs
    BY <1>2, <2>1, <2>2, <2>3 DEF resolveDeviceLogs, Workers, WorkerPCs
  <2> QED
    BY <1>2, <2>4, WorkerStepTyped DEF resolveDeviceLogs, TypeOK, ghosts
<1>3. ASSUME NEW d \in w.devs, GetAllFails(d) PROVE TypeOK'
  <2>1. WithTracer(w.event) \in Workers /\ WithTracer(w.event).ids = w.ids
    BY <1>0, TracerTyped DEF WithTracer, Workers
  <2>2. RecoverKey(w.event, d) \in Names \X Devices
    BY <1>0 DEF RecoverKey, Names
  <2>3. Unresolved(Profile[w.event].name, d) \subseteq DOMAIN logs
    BY UnresolvedTyped
  <2>4. w' \in Workers /\ w'.ids \subseteq DOMAIN logs
    BY <1>0, <1>3, <2>1, <2>2 DEF GetAllFails, Workers, WorkerPCs
  <2> QED
    BY <1>3, <2>3, <2>4, WorkerStepTyped DEF GetAllFails, TypeOK
<1>4. ASSUME NEW d \in w.devs, SkipRecovered(d) PROVE TypeOK'
  <2>1. w' \in Workers /\ w'.ids = w.ids
    BY <1>0, <1>4 DEF SkipRecovered, Workers
  <2> QED
    BY <1>0, <1>4, <2>1, WorkerStepTyped DEF SkipRecovered, TypeOK, ghosts
<1>5. ASSUME NEW i \in w.ids, setLogEntryResolved(i) PROVE TypeOK'
  <2>1. w' \in Workers /\ w'.ids \subseteq DOMAIN logs
    BY <1>0, <1>5 DEF setLogEntryResolved, Workers
  <2>2. logs[i] \in Entries
    BY <1>0 DEF TypeOK
  <2>3. [logs[i] EXCEPT !.resolved = TRUE] \in Entries
    BY <2>2 DEF Entries
  <2>4. logs' \in Seq(Entries) /\ DOMAIN logs' = DOMAIN logs
    BY <1>0, <1>5, <2>3 DEF setLogEntryResolved, TypeOK
  <2> QED
    BY <1>5, <2>1, <2>4, WorkerStepTyped DEF setLogEntryResolved, TypeOK, ghosts
<1>6. ASSUME ResolveFails PROVE TypeOK'
  <2>1. w' \in Workers /\ w'.ids = {}
    BY <1>0, <1>6 DEF ResolveFails, Workers, WorkerPCs
  <2> QED
    BY <1>0, <1>6, <2>1, WorkerStepTyped DEF ResolveFails, TypeOK
<1>7. ASSUME ResolveEnds PROVE TypeOK'
  <2>1. w' \in Workers /\ w'.ids = w.ids
    BY <1>0, <1>7 DEF ResolveEnds, Workers, WorkerPCs
  <2> QED
    BY <1>0, <1>7, <2>1, WorkerStepTyped DEF ResolveEnds, TypeOK, ghosts
<1>8. ASSUME RecoveriesEnd PROVE TypeOK'
  <2>1. w' \in Workers /\ w'.ids = w.ids
    BY <1>0, <1>8, PlaceholdersTyped DEF RecoveriesEnd, Workers, WorkerPCs
  <2> QED
    BY <1>0, <1>8, <2>1, WorkerStepTyped DEF RecoveriesEnd, TypeOK, ghosts
<1> QED
  BY <1>1, <1>2, <1>3, <1>4, <1>5, <1>6, <1>7, <1>8 DEF Recovery

LEMMA DetectionTyped ==
    ASSUME TypeOK, Detection
    PROVE  TypeOK'
<1>0. w \in Workers /\ w.obj \in Objects /\ w.val \in Values
      /\ w.only \subseteq Events /\ w.cands \in Seq(Candidates)
      /\ w.ids \subseteq DOMAIN logs
  BY DEF TypeOK, Workers
<1>1. ASSUME NEW e \in w.only, Detect(e) PROVE TypeOK'
  <2>1. PICK devs \in AssertedDevices(e) :
          w' = [w EXCEPT
                  !.only = @ \ {e},
                  !.cands = IF devs = {} THEN @
                            ELSE Append(@, [event |-> e, recovery |-> FALSE,
                                            devs |-> devs])]
    BY <1>1 DEF Detect
  <2>2. devs \subseteq Devices
    <3>1. e \in Events
      BY <1>0
    <3>2. \A o \in Objects, v \in Values :
             /\ Profile[e].trigger.check[o][v] \subseteq Devices
             /\ Profile[e].accessor.check[o][v] \subseteq Devices
      BY <3>1, ChecksTyped
    <3>3. \A d \in Devices : Profile[e].readFrom[d] \in Objects
      BY <3>1, ProfileAssumption
    <3>4. \A o \in Objects : prop[o] \in Values
      BY DEF TypeOK
    <3>5. Profile[e].trigger.check[w.obj][w.val] \subseteq Devices
      BY <1>0, <3>2
    <3>6. CASE \E d \in Profile[e].trigger.check[w.obj][w.val] :
                 devs = Profile[e].accessor.check
                          [Profile[e].readFrom[d]][prop[Profile[e].readFrom[d]]]
      BY <3>2, <3>3, <3>4, <3>5, <3>6
    <3>7. CASE \/ devs = Profile[e].accessor.check[w.obj][w.val]
               \/ devs = Profile[e].trigger.check[w.obj][w.val]
               \/ devs = {}
      BY <1>0, <3>2, <3>7
    <3> QED
      BY <2>1, <3>6, <3>7 DEF AssertedDevices
  <2>3. [event |-> e, recovery |-> FALSE, devs |-> devs] \in Candidates
    BY <1>0, <2>2 DEF Candidates
  <2>4. /\ w.cands \in Seq(Candidates)
        /\ Append(w.cands, [event |-> e, recovery |-> FALSE, devs |-> devs])
             \in Seq(Candidates)
    BY <1>0, <2>3
  <2>5. w' \in Workers /\ w'.ids = w.ids
    BY <1>0, <2>1, <2>4 DEF Workers
  <2> QED
    BY <1>0, <1>1, <2>5, WorkerStepTyped DEF Detect, TypeOK, ghosts
<1>2. ASSUME DetectionsEnd PROVE TypeOK'
  <2>1. w' \in Workers /\ w'.ids = w.ids
    BY <1>0, <1>2 DEF DetectionsEnd, Workers, WorkerPCs
  <2> QED
    BY <1>0, <1>2, <2>1, WorkerStepTyped DEF DetectionsEnd, TypeOK, ghosts
<1> QED
  BY <1>1, <1>2 DEF Detection

\* IsEvent keeps the count of an event with a bucket between 0 and the
\* trigger count.
LEMMA CountTyped ==
    ASSUME TypeOK, NEW e \in Events, NEW d \in Devices, NEW c \in Counts(e, d),
           Profile[e].triggerCount # -1,
           count' = IF Profile[e].valueAsCount THEN count
                    ELSE [count EXCEPT ![e][d] = Bucket(e, c)]
    PROVE  count' \in [Events -> [Devices -> Nat]]
<1>1. CASE Profile[e].valueAsCount
  BY <1>1 DEF TypeOK
<1>2. CASE ~Profile[e].valueAsCount
  <2>1. count[e] \in [Devices -> Nat] /\ count[e][d] \in Nat
    BY DEF TypeOK
  <2>2. c = count[e][d] + 1
    BY <1>2 DEF Counts
  <2>3. Profile[e].triggerCount \in Nat
    BY TriggerCountAssumption
  <2>4. Bucket(e, c) \in Nat
    BY <2>1, <2>2, <2>3 DEF Bucket
  <2>5. [count[e] EXCEPT ![d] = Bucket(e, c)] \in [Devices -> Nat]
    BY <2>1, <2>4
  <2> QED
    BY <1>2, <2>5 DEF TypeOK
<1> QED
  BY <1>1, <1>2

LEMMA ProcessingTyped ==
    ASSUME TypeOK, Processing
    PROVE  TypeOK'
<1>0. w \in Workers /\ w.ids \subseteq DOMAIN logs
  BY DEF TypeOK
<1>1. ASSUME NEW d \in Devices, TraceRecovered(d) PROVE TypeOK'
  <2>1. Candidate \in Candidates /\ Advance(d) \in Seq(Candidates)
    BY <1>1, CandidatesTyped DEF TraceRecovered
  <2>2. w' \in Workers /\ w'.ids = w.ids
    BY <1>0, <1>1, <2>1 DEF TraceRecovered, Workers, WorkerPCs, Candidates
  <2> QED
    BY <1>0, <1>1, <2>2, WorkerStepTyped DEF TraceRecovered, TypeOK, ghosts
<1>2. ASSUME NEW d \in Devices, IsNoEvent(d) PROVE TypeOK'
  <2> DEFINE e == Candidate.event
  <2>1. Candidate \in Candidates /\ Advance(d) \in Seq(Candidates)
    BY <1>2, CandidatesTyped DEF IsNoEvent
  <2>2. e \in Events
    BY <2>1 DEF Candidates
  <2>3. w' \in Workers /\ w'.ids = w.ids
    BY <1>0, <1>2, <2>1 DEF IsNoEvent, Workers
  <2> HIDE DEF e
  <2>4. count' \in [Events -> [Devices -> Nat]]
    <3>1. CASE UNCHANGED count
      BY <3>1 DEF TypeOK
    <3>2. CASE \E c \in Counts(e, d) :
                  /\ Profile[e].triggerCount # -1
                  /\ count' = IF Profile[e].valueAsCount THEN count
                              ELSE [count EXCEPT ![e][d] = Bucket(e, c)]
      BY <2>2, <3>2, CountTyped
    <3> QED
      BY <1>2, <3>1, <3>2 DEF IsNoEvent, e
  <2>5. seen' = [seen EXCEPT ![e][d] = @ + 1]
    BY <1>2 DEF IsNoEvent, e
  <2>6. seen' \in [Events -> [Devices -> Nat]]
    BY <2>2, <2>5 DEF TypeOK
  <2>7. UNCHANGED <<prop, changes, queue, thr, booted, logs, fired, reports,
                    lost, owed, excused>>
    BY <1>2 DEF IsNoEvent, signals, pool
  <2> QED
    BY <2>3, <2>4, <2>6, <2>7 DEF TypeOK
<1>3. ASSUME NEW d \in Devices, IsEvent(d) PROVE TypeOK'
  <2> DEFINE e == Candidate.event
  <2>1. Candidate \in Candidates /\ Advance(d) \in Seq(Candidates)
    BY <1>3, CandidatesTyped DEF IsEvent
  <2>2. e \in Events
    BY <2>1 DEF Candidates
  <2>3. w' \in Workers /\ w'.ids = w.ids
    BY <1>0, <1>3, <2>1, <2>2 DEF IsEvent, Workers, WorkerPCs
  <2> HIDE DEF e
  <2>4. count' \in [Events -> [Devices -> Nat]]
    <3>1. \E c \in Counts(e, d) :
             /\ Profile[e].triggerCount # -1
             /\ count' = IF Profile[e].valueAsCount THEN count
                         ELSE [count EXCEPT ![e][d] = Bucket(e, c)]
      BY <1>3 DEF IsEvent, e
    <3> QED
      BY <2>2, <3>1, CountTyped
  <2>5. /\ seen' = [seen EXCEPT ![e][d] = @ + 1]
        /\ fired' = [fired EXCEPT ![e][d] = @ + 1]
        /\ reports' = reports + 1
    BY <1>3 DEF IsEvent, e
  <2>6. /\ seen' \in [Events -> [Devices -> Nat]]
        /\ fired' \in [Events -> [Devices -> Nat]]
        /\ reports' \in Nat
    BY <2>2, <2>5 DEF TypeOK
  <2>7. UNCHANGED <<prop, changes, queue, thr, booted, logs, lost, owed,
                    excused>>
    BY <1>3 DEF IsEvent, signals, pool
  <2> QED
    BY <2>3, <2>4, <2>6, <2>7 DEF TypeOK
<1>4. ASSUME ItemEnds PROVE TypeOK'
  BY <1>4, PlaceholdersTyped, WorkerStepTyped DEF ItemEnds, TypeOK, ghosts
<1> QED
  BY <1>1, <1>2, <1>3, <1>4 DEF Processing

-----------------------------------------------------------------------------
(* Type correctness: slots, event threads, exceptions                      *)

\* Back from RunEventHandler(s), whatever became of the slot.
LEMMA ReturnedTyped ==
    ASSUME TypeOK
    PROVE  Returned \in Workers /\ Returned.ids = w.ids
  BY PlaceholdersTyped DEF TypeOK, Returned, Workers, WorkerPCs

\* Who waits for a slot knows what for.
KindOK == w.pc = "slot" => w.kind # "none"

LEMMA SlotTyped ==
    ASSUME TypeOK, KindOK,
           \/ NoSlot \/ NoThread
           \/ \E g \in Guards : StartThread(g) \/ BootThread(g)
    PROVE  TypeOK'
<1>0. w \in Workers /\ w.ids \subseteq DOMAIN logs /\ lost \in Nat
      /\ thr \in [Guards -> Threads]
  BY DEF TypeOK
<1>1. CASE NoSlot
  <2>1. lost' \in Nat
    BY <1>0, <1>1 DEF NoSlot
  <2> QED
    BY <1>0, <1>1, <2>1, ReturnedTyped, WorkerStepTyped DEF NoSlot, TypeOK
<1>2. CASE NoThread
  <2>1. lost' \in Nat
    BY <1>0, <1>2 DEF NoThread
  <2> QED
    BY <1>2, <2>1, PlaceholdersTyped, WorkerStepTyped DEF NoThread, TypeOK
<1>3. ASSUME NEW g \in Guards, StartThread(g) PROVE TypeOK'
  <2>1. PICK d \in w.devs :
          thr' = [thr EXCEPT ![g] = [pc |-> w.kind, event |-> w.event,
                                     dev |-> d, seq |-> w.seq]]
    BY <1>3 DEF StartThread
  <2>2. d \in Devices /\ w.event \in Events /\ w.seq \in Nat
    BY <1>0, <2>1 DEF Workers
  <2>3. w.kind \in {"trace", "report"}
    BY <1>0, <1>3 DEF StartThread, KindOK, Workers
  <2>4. [pc |-> w.kind, event |-> w.event, dev |-> d, seq |-> w.seq]
          \in Threads
    BY <2>2, <2>3 DEF Threads, ThreadPCs
  <2>5. thr' \in [Guards -> Threads]
    BY <1>0, <2>1, <2>4
  <2>6. w' \in Workers /\ w'.ids = w.ids
    BY <1>3, ReturnedTyped DEF StartThread
  <2>7. UNCHANGED <<prop, changes, queue, count, booted, logs, seen, fired,
                    reports, lost, owed, excused>>
    BY <1>3 DEF StartThread, signals, ghosts
  <2> QED
    BY <1>0, <2>5, <2>6, <2>7 DEF TypeOK
<1>4. ASSUME NEW g \in Guards, BootThread(g) PROVE TypeOK'
  <2>1. thr' = [thr EXCEPT ![g].pc = "boot"] /\ booted' = TRUE
    BY <1>4 DEF BootThread
  <2>2. thr[g] \in Threads
    BY <1>0
  <2>3. [thr[g] EXCEPT !.pc = "boot"] \in Threads
    BY <2>2 DEF Threads, ThreadPCs
  <2>4. thr' \in [Guards -> Threads]
    BY <1>0, <2>1, <2>3
  <2>5. UNCHANGED <<prop, changes, queue, w, count, logs, seen, fired,
                    reports, lost, owed, excused>>
    BY <1>4 DEF BootThread, signals, ghosts
  <2> QED
    BY <2>1, <2>4, <2>5 DEF TypeOK
<1> QED
  BY <1>1, <1>2, <1>3, <1>4

\* An entry is filed in a namespace.
LEMMA NamespaceTyped ==
    ASSUME NEW e \in Events, NEW d \in Devices
    PROVE  getPhosphorLoggingNamespace(e, d) \in Namespaces
  BY SubTypeAssumption DEF getPhosphorLoggingNamespace, Namespaces

LEMMA ThreadTyped ==
    ASSUME TypeOK, NEW g \in Guards, EventThread(g)
    PROVE  TypeOK'
<1>0. thr \in [Guards -> Threads] /\ thr[g] \in Threads
      /\ thr[g].event \in Events /\ thr[g].dev \in Devices /\ thr[g].seq \in Nat
      /\ lost \in Nat /\ logs \in Seq(Entries)
  BY DEF TypeOK, Threads
<1>1. [thr[g] EXCEPT !.pc = "logged"] \in Threads
  BY <1>0 DEF Threads, ThreadPCs
<1>2. CASE createLog(g)
  <2> DEFINE entry == [name |-> Profile[thr[g].event].name,
                       dev |-> thr[g].dev,
                       ns |-> getPhosphorLoggingNamespace(thr[g].event,
                                                          thr[g].dev),
                       seq |-> thr[g].seq, resolved |-> FALSE]
  <2>1. entry \in Entries
    BY <1>0, NamespaceTyped DEF Entries, Names
  <2>2. logs' = Append(logs, entry)
    BY <1>2 DEF createLog
  <2> HIDE DEF entry
  <2>3. logs' \in Seq(Entries) /\ DOMAIN logs \subseteq DOMAIN logs'
    BY <1>0, <2>1, <2>2
  <2>4. thr' \in [Guards -> Threads]
    BY <1>0, <1>1, <1>2 DEF createLog
  <2>5. UNCHANGED <<prop, changes, queue, w, count, booted, seen, fired,
                    reports, lost, owed, excused>>
    BY <1>2 DEF createLog, signals, ghosts
  <2> QED
    BY <2>3, <2>4, <2>5 DEF TypeOK
<1>3. CASE createLogFails(g)
  <2>1. thr' \in [Guards -> Threads] /\ lost' \in Nat
    BY <1>0, <1>1, <1>3 DEF createLogFails
  <2>2. UNCHANGED <<prop, changes, queue, w, count, booted, logs, seen, fired,
                    reports, owed, excused>>
    BY <1>3 DEF createLogFails, signals
  <2> QED
    BY <2>1, <2>2 DEF TypeOK
<1>4. CASE ThreadEnds(g)
  <2>1. thr' \in [Guards -> Threads]
    BY <1>0, <1>4, PlaceholdersTyped DEF ThreadEnds
  <2>2. UNCHANGED <<prop, changes, queue, w, count, booted, logs, seen, fired,
                    reports, lost, owed, excused>>
    BY <1>4 DEF ThreadEnds, signals, ghosts
  <2> QED
    BY <2>1, <2>2 DEF TypeOK
<1> QED
  BY <1>2, <1>3, <1>4 DEF EventThread

LEMMA ExceptionTyped ==
    ASSUME TypeOK, NoBus \/ NoNumber \/ startWorkerThread
    PROVE  TypeOK'
<1>1. RecoveredBy(w.obj, w.val) \subseteq DOMAIN logs
  BY DEF RecoveredBy
<1>2. CASE NoBus
  BY <1>1, <1>2, PlaceholdersTyped, WorkerStepTyped DEF NoBus, TypeOK
<1>3. CASE NoNumber
  BY <1>3, PlaceholdersTyped, WorkerStepTyped DEF NoNumber, TypeOK, ghosts
<1>4. CASE startWorkerThread
  BY <1>4, PlaceholdersTyped, WorkerStepTyped
     DEF startWorkerThread, TypeOK, ghosts
<1> QED
  BY <1>2, <1>3, <1>4

\* Only the report of an event and the trace of a recovery enter "slot".
LEMMA KindPreserved ==
    ASSUME TypeOK, KindOK, [Next]_vars
    PROVE  KindOK'
<1>0. w \in Workers
  BY DEF TypeOK
<1>1. CASE UNCHANGED w
  BY <1>1 DEF KindOK
<1>2. CASE w'.pc # "slot"
  BY <1>2 DEF KindOK
<1>3. CASE w'.kind # "none"
  BY <1>3 DEF KindOK
<1>4. CASE Recovery
  BY <1>0, <1>2, <1>4
     DEF Recovery, CheckRecovery, resolveDeviceLogs, GetAllFails, WithTracer,
         SkipRecovered, setLogEntryResolved, ResolveFails, ResolveEnds,
         RecoveriesEnd, Workers
<1>5. CASE Detection
  BY <1>0, <1>2, <1>5 DEF Detection, Detect, DetectionsEnd, Workers
<1>6. CASE Processing
  BY <1>0, <1>2, <1>3, <1>6, PlaceholdersTyped
     DEF Processing, TraceRecovered, IsNoEvent, IsEvent, ItemEnds, Workers
<1>7. CASE popFromQueue
  BY <1>2, <1>7, PlaceholdersTyped DEF popFromQueue, Working, Workers
<1>8. CASE NoSlot \/ \E g \in Guards : StartThread(g)
  BY <1>0, <1>2, <1>8 DEF NoSlot, StartThread, Returned, Workers
<1>9. CASE NoBus \/ NoThread \/ NoNumber \/ startWorkerThread
  BY <1>2, <1>9, PlaceholdersTyped
     DEF NoBus, NoThread, NoNumber, startWorkerThread
<1>10. CASE \E g \in Guards : EventThread(g) \/ BootThread(g)
  BY <1>1, <1>10 DEF EventThread, createLog, createLogFails, ThreadEnds,
                     BootThread
<1>11. CASE \E o \in Objects, v \in Values : dbusEventHandlerCallback(o, v)
  BY <1>1, <1>11 DEF dbusEventHandlerCallback
<1>12. CASE UNCHANGED vars
  BY <1>1, <1>12 DEF vars
<1> QED
  BY <1>4, <1>5, <1>6, <1>7, <1>8, <1>9, <1>10, <1>11, <1>12 DEF Next, Worker

LEMMA TypePreserved ==
    ASSUME TypeOK, KindOK, [Next]_vars
    PROVE  TypeOK'
<1>1. CASE UNCHANGED vars
  BY <1>1 DEF vars, ghosts, TypeOK
<1>2. CASE Next
  <2>1. CASE \E o \in Objects, v \in Values : dbusEventHandlerCallback(o, v)
    BY <2>1, SignalTyped
  <2>2. CASE popFromQueue \/ Recovery \/ Detection \/ Processing
    BY <2>2, PopTyped, RecoveryTyped, DetectionTyped, ProcessingTyped
  <2>3. CASE NoBus \/ NoNumber \/ startWorkerThread
    BY <2>3, ExceptionTyped
  <2>4. CASE \/ NoSlot \/ NoThread
             \/ \E g \in Guards : StartThread(g) \/ BootThread(g)
    BY <2>4, SlotTyped
  <2>5. CASE \E g \in Guards : EventThread(g)
    BY <2>5, ThreadTyped
  <2> QED
    BY <1>2, <2>1, <2>2, <2>3, <2>4, <2>5 DEF Next, Worker
<1> QED
  BY <1>1, <1>2

\* Every variable keeps its type, queue and bucket stay within their bounds,
\* and the entries the properties speak of exist.
THEOREM PipelineTyped == Spec => [](TypeOK /\ KindOK)
<1>1. Init => TypeOK /\ KindOK
  BY InitTyped, PlaceholdersTyped DEF Init, KindOK
<1>2. TypeOK /\ KindOK /\ [Next]_vars => TypeOK' /\ KindOK'
  BY TypePreserved, KindPreserved
<1> QED
  BY <1>1, <1>2, PTL DEF Spec

-----------------------------------------------------------------------------
(* The leaky bucket                                                        *)

\* What the bucket of an event holds after n counts on a device, and how many
\* of them were reported.
Filled(limit, n) == IF limit = -1 THEN 0 ELSE IF n < limit THEN n ELSE limit

Reported(limit, n) ==
    LET swallowed == IF limit <= 1 THEN 0 ELSE limit - 1
    IN IF limit = -1 \/ n <= swallowed THEN 0 ELSE n - swallowed

\* LeakyBucketExact alone is not inductive: whether the next count is reported
\* depends on what the bucket holds.
BucketInv ==
    \A e \in Events : ~Profile[e].valueAsCount =>
        \A d \in Devices :
            /\ count[e][d] = Filled(Profile[e].triggerCount, seen[e][d])
            /\ fired[e][d] = Reported(Profile[e].triggerCount, seen[e][d])

\* One more count below the limit, and one at the limit.
LEMMA BucketArithmetic ==
    ASSUME NEW limit \in Nat, NEW n \in Nat,
           NEW c, c = Filled(limit, n) + 1
    PROVE  /\ c < limit => /\ c = Filled(limit, n + 1)
                           /\ Reported(limit, n + 1) = Reported(limit, n)
           /\ c >= limit => /\ limit = Filled(limit, n + 1)
                            /\ Reported(limit, n + 1) = Reported(limit, n) + 1
<1>1. CASE limit <= 1
  BY <1>1 DEF Filled, Reported
<1>2. CASE limit > 1
  BY <1>2 DEF Filled, Reported
<1> QED
  BY <1>1, <1>2

\* A step that counts for one event and device.
LEMMA OneBucketChanges ==
    ASSUME BucketInv, NEW e \in Events, NEW d \in Devices,
           \A f \in Events, x \in Devices :
              f # e \/ x # d => /\ count'[f][x] = count[f][x]
                                /\ seen'[f][x] = seen[f][x]
                                /\ fired'[f][x] = fired[f][x],
           ~Profile[e].valueAsCount =>
              /\ count'[e][d] = Filled(Profile[e].triggerCount, seen'[e][d])
              /\ fired'[e][d] = Reported(Profile[e].triggerCount, seen'[e][d])
    PROVE  BucketInv'
  BY DEF BucketInv

LEMMA BucketPreserved ==
    ASSUME TypeOK, BucketInv, [Next]_vars
    PROVE  BucketInv'
<1>1. CASE UNCHANGED <<count, seen, fired>>
  BY <1>1 DEF BucketInv
<1>2. ASSUME NEW d \in Devices, IsNoEvent(d) \/ IsEvent(d) PROVE BucketInv'
  <2> DEFINE e == Candidate.event
             limit == Profile[e].triggerCount
             n == seen[e][d]
             c == count[e][d] + 1
             add == IF IsEvent(d) THEN 1 ELSE 0
  <2>1. Candidate \in Candidates
    BY <1>2, CandidatesTyped DEF IsNoEvent, IsEvent
  <2>2. e \in Events /\ limit \in Nat \cup {-1}
    BY <2>1, TriggerCountAssumption DEF Candidates
  <2>3. /\ count \in [Events -> [Devices -> Nat]]
        /\ seen \in [Events -> [Devices -> Nat]]
        /\ fired \in [Events -> [Devices -> Nat]]
    BY DEF TypeOK
  <2>4. seen' = [seen EXCEPT ![e][d] = @ + 1]
    BY <1>2 DEF IsNoEvent, IsEvent
  <2>5. /\ IsEvent(d) => fired' = [fired EXCEPT ![e][d] = @ + 1]
        /\ ~IsEvent(d) => UNCHANGED fired
    BY <1>2 DEF IsNoEvent, IsEvent
  <2>6. /\ \/ UNCHANGED count
           \/ count' = [count EXCEPT ![e][d] = Bucket(e, c)]
        /\ Profile[e].valueAsCount => UNCHANGED count
    BY <1>2 DEF IsNoEvent, IsEvent, Counts
  <2>7. ~Profile[e].valueAsCount =>
          \/ /\ ~IsEvent(d) /\ limit = -1 /\ UNCHANGED count
          \/ /\ ~IsEvent(d) /\ limit # -1 /\ c < limit
             /\ count' = [count EXCEPT ![e][d] = c]
          \/ /\ IsEvent(d) /\ limit # -1 /\ c >= limit
             /\ count' = [count EXCEPT ![e][d] = limit]
    <3>1. CASE IsEvent(d)
      BY <3>1 DEF IsEvent, Counts, Bucket
    <3>2. CASE ~IsEvent(d)
      <4>1. ~Profile[e].valueAsCount =>
              \/ limit = -1 /\ UNCHANGED count
              \/ /\ limit # -1 /\ c < limit
                 /\ count' = [count EXCEPT ![e][d] = Bucket(e, c)]
        BY <1>2, <3>2 DEF IsNoEvent, Counts
      <4>2. c \in Nat
        BY <2>2, <2>3
      <4>3. limit # -1 /\ c < limit => Bucket(e, c) = c
        BY <2>2, <4>2 DEF Bucket
      <4> QED
        BY <3>2, <4>1, <4>3
    <3> QED
      BY <3>1, <3>2
  <2> HIDE DEF e, limit
  <2>8. /\ n \in Nat
        /\ seen'[e][d] = n + 1
        /\ fired'[e][d] = fired[e][d] + add
    BY <2>2, <2>3, <2>4, <2>5
  <2>9. ASSUME NEW f \in Events, NEW x \in Devices, f # e \/ x # d
        PROVE  /\ count'[f][x] = count[f][x]
               /\ seen'[f][x] = seen[f][x]
               /\ fired'[f][x] = fired[f][x]
    BY <2>2, <2>3, <2>4, <2>5, <2>6, <2>9
  <2>10. ASSUME ~Profile[e].valueAsCount
         PROVE  /\ count'[e][d] = Filled(limit, n + 1)
                /\ fired'[e][d] = Reported(limit, n + 1)
    <3>1. /\ count[e][d] = Filled(limit, n) /\ fired[e][d] = Reported(limit, n)
          /\ count[e][d] \in Nat /\ fired[e][d] \in Nat
      BY <2>2, <2>3, <2>10 DEF BucketInv, limit
    <3>2. CASE ~IsEvent(d) /\ limit = -1 /\ UNCHANGED count
      BY <2>8, <3>1, <3>2 DEF Filled, Reported
    <3>3. CASE /\ ~IsEvent(d) /\ limit # -1 /\ c < limit
               /\ count' = [count EXCEPT ![e][d] = c]
      <4>1. count'[e][d] = c
        BY <2>2, <2>3, <3>3
      <4>2. c = Filled(limit, n + 1)
            /\ Reported(limit, n + 1) = Reported(limit, n)
        BY <2>2, <2>8, <3>1, <3>3, BucketArithmetic
      <4> QED
        BY <2>8, <3>1, <3>3, <4>1, <4>2
    <3>4. CASE /\ IsEvent(d) /\ limit # -1 /\ c >= limit
               /\ count' = [count EXCEPT ![e][d] = limit]
      <4>1. count'[e][d] = limit
        BY <2>2, <2>3, <3>4
      <4>2. limit = Filled(limit, n + 1)
            /\ Reported(limit, n + 1) = Reported(limit, n) + 1
        BY <2>2, <2>8, <3>1, <3>4, BucketArithmetic
      <4> QED
        BY <2>8, <3>1, <3>4, <4>1, <4>2
    <3> QED
      BY <2>7, <2>10, <3>2, <3>3, <3>4
  <2> QED
    BY <2>2, <2>8, <2>9, <2>10, OneBucketChanges DEF limit
<1>3. CASE Recovery \/ Detection
  BY <1>1, <1>3
     DEF Recovery, CheckRecovery, resolveDeviceLogs, GetAllFails, SkipRecovered,
         setLogEntryResolved, ResolveFails, ResolveEnds, RecoveriesEnd,
         Detection, Detect, DetectionsEnd, ghosts
<1>4. CASE Processing
  BY <1>1, <1>2, <1>4 DEF Processing, TraceRecovered, ItemEnds, ghosts
<1>5. CASE \/ popFromQueue \/ NoSlot \/ NoBus \/ NoThread \/ NoNumber
           \/ startWorkerThread
  BY <1>1, <1>5 DEF popFromQueue, NoSlot, NoBus, NoThread, NoNumber,
                    startWorkerThread, ghosts
<1>6. CASE \/ \E g \in Guards : \/ StartThread(g) \/ BootThread(g)
                                \/ EventThread(g)
           \/ \E o \in Objects, v \in Values : dbusEventHandlerCallback(o, v)
  BY <1>1, <1>6 DEF StartThread, BootThread, EventThread, createLog,
                    createLogFails, ThreadEnds, dbusEventHandlerCallback, ghosts
<1>7. CASE UNCHANGED vars
  BY <1>1, <1>7 DEF vars, ghosts
<1> QED
  BY <1>3, <1>4, <1>5, <1>6, <1>7 DEF Next, Worker

\* IsEvent reports every count from the trigger count on and none before it,
\* for each event and device by itself, whatever signals, recoveries, lost
\* reports and restarts of the worker come between.
THEOREM LeakyBucket == Spec => []LeakyBucketExact
<1>1. Init => BucketInv
  <2>1. \A e \in Events : Profile[e].triggerCount \in Nat \cup {-1}
    BY TriggerCountAssumption
  <2> QED
    BY <2>1 DEF Init, BucketInv, Filled, Reported
<1>2. TypeOK /\ BucketInv /\ [Next]_vars => BucketInv'
  BY BucketPreserved
<1>3. BucketInv => LeakyBucketExact
  BY DEF BucketInv, LeakyBucketExact, Reported
<1> QED
  BY <1>1, <1>2, <1>3, PipelineTyped, PTL DEF Spec

-----------------------------------------------------------------------------
(* The account of the reports                                              *)

\* The event threads that have yet to create their entry, and the report that
\* waits for its slot.
Reporting == {g \in Guards : thr[g].pc = "report"}

Waiting == IF w.pc = "slot" /\ w.kind = "report" THEN 1 ELSE 0

LEMMA Account ==
    ReportsAccounted
      <=> reports = Len(logs) + lost + Cardinality(Reporting) + Waiting
  BY DEF ReportsAccounted, Reporting, Waiting

\* The sizes of the set of reporting threads a step can lead to.
LEMMA ReportingCounts ==
    ASSUME TypeOK, NEW g \in Guards,
           \A h \in Guards : h # g => thr'[h].pc = thr[h].pc
    PROVE  /\ Cardinality(Reporting) \in Nat
           /\ (thr[g].pc = "report") <=> (thr'[g].pc = "report")
                => Cardinality(Reporting') = Cardinality(Reporting)
           /\ thr[g].pc # "report" /\ thr'[g].pc = "report"
                => Cardinality(Reporting') = Cardinality(Reporting) + 1
           /\ thr[g].pc = "report" /\ thr'[g].pc # "report"
                => Cardinality(Reporting') = Cardinality(Reporting) - 1
<1>1. IsFiniteSet(Reporting)
  BY BoundAssumption, FS_Subset DEF Reporting
<1>2. Cardinality(Reporting) \in Nat
  BY <1>1, FS_CardinalityType
<1>3. ((thr[g].pc = "report") <=> (thr'[g].pc = "report"))
        => Reporting' = Reporting
  BY DEF Reporting
<1>4. thr[g].pc # "report" /\ thr'[g].pc = "report"
        => Reporting' = Reporting \cup {g} /\ g \notin Reporting
  BY DEF Reporting
<1>5. thr[g].pc = "report" /\ thr'[g].pc # "report"
        => Reporting' = Reporting \ {g} /\ g \in Reporting
  BY DEF Reporting
<1> QED
  BY <1>1, <1>2, <1>3, <1>4, <1>5, FS_AddElement, FS_RemoveElement

\* Steps that leave the account alone.
LEMMA AccountUntouched ==
    ASSUME ReportsAccounted, UNCHANGED <<reports, thr, lost>>,
           Len(logs') = Len(logs), Waiting' = Waiting
    PROVE  ReportsAccounted'
  BY Account DEF ReportsAccounted, Waiting

LEMMA ReportsPreserved ==
    ASSUME TypeOK, KindOK, ReportsAccounted, [Next]_vars
    PROVE  ReportsAccounted'
<1>0. /\ w \in Workers /\ logs \in Seq(Entries)
      /\ thr \in [Guards -> Threads] /\ reports \in Nat /\ lost \in Nat
  BY DEF TypeOK
<1>1. CASE UNCHANGED vars
  BY <1>1, AccountUntouched DEF vars, ghosts, Waiting
<1>2. CASE Recovery
  <2>1. Len(logs') = Len(logs)
    <3>1. CASE UNCHANGED logs
      BY <3>1
    <3>2. CASE \E i \in w.ids : logs' = [logs EXCEPT ![i].resolved = TRUE]
      BY <1>0, <3>2
    <3> QED
      BY <1>2, <3>1, <3>2
         DEF Recovery, CheckRecovery, resolveDeviceLogs, GetAllFails,
             SkipRecovered, setLogEntryResolved, ResolveFails, ResolveEnds,
             RecoveriesEnd
  <2>2. w.pc # "slot" /\ w'.pc # "slot"
    BY <1>0, <1>2
       DEF Recovery, CheckRecovery, resolveDeviceLogs, GetAllFails, WithTracer,
           SkipRecovered, setLogEntryResolved, ResolveFails, ResolveEnds,
           RecoveriesEnd, Workers
  <2>3. UNCHANGED <<reports, thr, lost>>
    BY <1>2 DEF Recovery, CheckRecovery, resolveDeviceLogs, GetAllFails,
                SkipRecovered, setLogEntryResolved, ResolveFails, ResolveEnds,
                RecoveriesEnd, pool, ghosts
  <2> QED
    BY <2>1, <2>2, <2>3, AccountUntouched DEF Waiting
<1>3. CASE Detection
  <2>1. w.pc # "slot" /\ w'.pc # "slot" /\ UNCHANGED <<reports, thr, lost, logs>>
    BY <1>0, <1>3 DEF Detection, Detect, DetectionsEnd, Workers, pool, ghosts
  <2> QED
    BY <2>1, AccountUntouched DEF Waiting
<1>4. CASE Processing
  <2>1. ASSUME NEW d \in Devices, IsEvent(d) PROVE ReportsAccounted'
    <3>1. Waiting = 0 /\ Waiting' = 1
      BY <1>0, <2>1 DEF IsEvent, Waiting, Workers
    <3>2. reports' = reports + 1 /\ UNCHANGED <<thr, lost, logs>>
      BY <2>1 DEF IsEvent, pool
    <3>3. Reporting' = Reporting
      BY <3>2 DEF Reporting
    <3>4. Cardinality(Reporting) \in Nat /\ Len(logs) \in Nat
      BY <1>0, BoundAssumption, FS_Subset, FS_CardinalityType DEF Reporting
    <3> QED
      BY <1>0, <3>1, <3>2, <3>3, <3>4 DEF ReportsAccounted, Waiting, Reporting
  <2>2. CASE ItemEnds \/ \E d \in Devices : TraceRecovered(d) \/ IsNoEvent(d)
    <3>1. /\ Waiting' = Waiting
          /\ UNCHANGED <<reports, thr, lost, logs>>
      BY <1>0, <2>2, PlaceholdersTyped
         DEF ItemEnds, TraceRecovered, IsNoEvent, Waiting, Workers, pool, ghosts
    <3> QED
      BY <3>1, AccountUntouched
  <2> QED
    BY <1>4, <2>1, <2>2 DEF Processing
<1>5. CASE popFromQueue \/ NoBus \/ NoNumber \/ startWorkerThread
  <2>1. Waiting' = Waiting /\ UNCHANGED <<reports, thr, lost, logs>>
    BY <1>0, <1>5, PlaceholdersTyped
       DEF popFromQueue, Working, NoBus, NoNumber, startWorkerThread, Waiting,
           Workers, pool, ghosts
  <2> QED
    BY <2>1, AccountUntouched
<1>6. CASE NoSlot \/ NoThread
  <2>1. Waiting' = 0 /\ lost' = lost + Waiting /\ UNCHANGED <<reports, thr, logs>>
    <3>1. w.pc = "slot" /\ UNCHANGED <<reports, thr, logs>>
      BY <1>6 DEF NoSlot, NoThread, pool
    <3>2. lost' = IF w.kind = "report" THEN lost + 1 ELSE lost
      BY <1>6 DEF NoSlot, NoThread
    <3>3. w'.pc # "slot"
      BY <1>0, <1>6, PlaceholdersTyped DEF NoSlot, NoThread, Returned, Workers
    <3> QED
      BY <1>0, <3>1, <3>2, <3>3 DEF Waiting
  <2>2. Reporting' = Reporting
    BY <2>1 DEF Reporting
  <2>3. Cardinality(Reporting) \in Nat /\ Len(logs) \in Nat /\ Waiting \in Nat
    BY <1>0, BoundAssumption, FS_Subset, FS_CardinalityType DEF Reporting, Waiting
  <2> QED
    BY <1>0, <2>1, <2>2, <2>3 DEF ReportsAccounted, Waiting, Reporting
<1>7. ASSUME NEW g \in Guards, StartThread(g) \/ BootThread(g) PROVE ReportsAccounted'
  <2>1. \A h \in Guards : h # g => thr'[h].pc = thr[h].pc
    BY <1>0, <1>7 DEF StartThread, BootThread
  <2>2. thr[g].pc = "idle"
    BY <1>7 DEF StartThread, BootThread, Slots!Acquire, Held
  <2>3. /\ StartThread(g) => /\ thr'[g].pc = w.kind /\ w.pc = "slot"
                             /\ Waiting' = 0
        /\ ~StartThread(g) => /\ thr'[g].pc = "boot" /\ UNCHANGED w
        /\ UNCHANGED <<reports, lost, logs>>
    <3>1. UNCHANGED <<reports, lost, logs>>
      BY <1>7 DEF StartThread, BootThread, ghosts
    <3>2. ASSUME StartThread(g)
          PROVE  thr'[g].pc = w.kind /\ w.pc = "slot" /\ Waiting' = 0
      <4>1. PICK d \in w.devs :
              thr' = [thr EXCEPT ![g] = [pc |-> w.kind, event |-> w.event,
                                         dev |-> d, seq |-> w.seq]]
        BY <3>2 DEF StartThread
      <4>2. thr'[g].pc = w.kind
        BY <1>0, <4>1
      <4>3. w.pc = "slot" /\ w'.pc # "slot"
        BY <1>0, <3>2 DEF StartThread, Returned, Workers
      <4> QED
        BY <4>2, <4>3 DEF Waiting
    <3>3. ASSUME BootThread(g)
          PROVE  thr'[g].pc = "boot" /\ UNCHANGED w
      <4>1. thr[g] \in Threads /\ thr' = [thr EXCEPT ![g].pc = "boot"]
        BY <1>0, <3>3 DEF BootThread
      <4> QED
        BY <1>0, <3>3, <4>1 DEF BootThread, Threads
    <3> QED
      BY <1>7, <3>1, <3>2, <3>3
  <2>4. Cardinality(Reporting') + Waiting' = Cardinality(Reporting) + Waiting
    BY <2>1, <2>2, <2>3, ReportingCounts DEF Waiting
  <2>5. Cardinality(Reporting) \in Nat /\ Len(logs) \in Nat /\ Waiting \in Nat
    BY <1>0, BoundAssumption, FS_Subset, FS_CardinalityType DEF Reporting, Waiting
  <2>6. Cardinality(Reporting') \in Nat /\ Waiting' \in Nat
    BY <2>1, <2>2, <2>5, ReportingCounts DEF Waiting
  <2> QED
    BY <1>0, <2>3, <2>4, <2>5, <2>6 DEF ReportsAccounted, Waiting, Reporting
<1>8. ASSUME NEW g \in Guards, EventThread(g) PROVE ReportsAccounted'
  <2>1. \A h \in Guards : h # g => thr'[h].pc = thr[h].pc
    BY <1>0, <1>8 DEF EventThread, createLog, createLogFails, ThreadEnds
  <2>2. Cardinality(Reporting) \in Nat /\ Len(logs) \in Nat /\ Waiting \in Nat
    BY <1>0, BoundAssumption, FS_Subset, FS_CardinalityType DEF Reporting, Waiting
  <2>3. Waiting' = Waiting /\ reports' = reports
    BY <1>8 DEF EventThread, createLog, createLogFails, ThreadEnds, ghosts, Waiting
  <2>4. CASE createLog(g) \/ createLogFails(g)
    <3>1. thr[g].pc = "report" /\ thr'[g].pc # "report"
      BY <1>0, <2>4 DEF createLog, createLogFails, Threads
    <3>2. Cardinality(Reporting') = Cardinality(Reporting) - 1
      BY <2>1, <3>1, ReportingCounts
    <3>3. CASE createLog(g)
      <4> DEFINE entry == [name |-> Profile[thr[g].event].name,
                           dev |-> thr[g].dev,
                           ns |-> getPhosphorLoggingNamespace(thr[g].event,
                                                              thr[g].dev),
                           seq |-> thr[g].seq, resolved |-> FALSE]
      <4>1. logs' = Append(logs, entry) /\ lost' = lost
        BY <3>3 DEF createLog, ghosts
      <4> HIDE DEF entry
      <4>2. Len(logs') = Len(logs) + 1
        BY <1>0, <4>1
      <4> QED
        BY <1>0, <2>2, <2>3, <3>2, <4>1, <4>2
           DEF ReportsAccounted, Waiting, Reporting
    <3>4. CASE createLogFails(g)
      <4>1. logs' = logs /\ lost' = lost + 1
        BY <3>4 DEF createLogFails
      <4> QED
        BY <1>0, <2>2, <2>3, <3>2, <4>1 DEF ReportsAccounted, Waiting, Reporting
    <3> QED
      BY <2>4, <3>3, <3>4
  <2>5. CASE ThreadEnds(g)
    <3>1. thr[g].pc # "report" /\ thr'[g].pc # "report"
      BY <1>0, <2>5, PlaceholdersTyped DEF ThreadEnds, Threads
    <3>2. Cardinality(Reporting') = Cardinality(Reporting)
      BY <2>1, <3>1, ReportingCounts
    <3>3. UNCHANGED <<logs, lost>>
      BY <2>5 DEF ThreadEnds, ghosts
    <3> QED
      BY <1>0, <2>2, <2>3, <3>2, <3>3 DEF ReportsAccounted, Waiting, Reporting
  <2> QED
    BY <1>8, <2>4, <2>5 DEF EventThread
<1>9. CASE \E o \in Objects, v \in Values : dbusEventHandlerCallback(o, v)
  <2>1. UNCHANGED <<w, reports, thr, lost, logs>>
    BY <1>9 DEF dbusEventHandlerCallback, pool
  <2> QED
    BY <2>1, AccountUntouched DEF Waiting
<1> QED
  BY <1>1, <1>2, <1>3, <1>4, <1>5, <1>6, <1>7, <1>8, <1>9 DEF Next, Worker

\* No report of IsEvent is lost without a trace.
THEOREM NoReportVanishes == Spec => []ReportsAccounted
<1>1. Init => ReportsAccounted
  <2> SUFFICES ASSUME Init PROVE ReportsAccounted
    OBVIOUS
  <2>1. Reporting = {} /\ Waiting = 0
    BY PlaceholdersTyped DEF Init, Reporting, Waiting
  <2>2. Cardinality(Reporting) = 0 /\ Len(logs) = 0 /\ lost = 0 /\ reports = 0
    BY <2>1, FS_EmptySet DEF Init
  <2> QED
    BY <2>1, <2>2, Account
<1>2. TypeOK /\ KindOK /\ ReportsAccounted /\ [Next]_vars => ReportsAccounted'
  BY ReportsPreserved
<1> QED
  BY <1>1, <1>2, PipelineTyped, PTL DEF Spec

-----------------------------------------------------------------------------
(* The recoveries                                                          *)

\* All threads and log entries are about signals before s.
AllBefore(s) ==
    /\ \A g \in Guards : thr[g].seq < s
    /\ \A i \in DOMAIN logs : logs[i].seq < s

OrderInv ==
    /\ \A k \in DOMAIN queue : /\ queue[k].seq \in 1 .. changes
                               /\ AllBefore(queue[k].seq)
                               /\ w.seq < queue[k].seq
    /\ \A k, l \in DOMAIN queue : k < l => queue[k].seq < queue[l].seq
    /\ AllBefore(changes + 1) /\ w.seq <= changes
    /\ w.pc \in {"recover", "resolve", "detect"} => AllBefore(w.seq)

\* Recovering event e by value v of property o resolves entry i.
Reaches(e, o, v, i) ==
    /\ o \in Profile[e].recovery.on
    /\ Profile[e].name = logs[i].name
    /\ logs[i].dev \in Profile[e].recovery.check[o][v]

AheadOfItem(k, i) ==
    \E e \in Events : Reaches(e, queue[k].obj, queue[k].val, i)

\* The worker has still to look for the entry, or has found it.
AheadOfWorker(i) ==
    \/ w.pc = "resolve" /\ i \in w.ids
    \/ /\ w.pc \in {"recover", "resolve"}
       /\ <<logs[i].name, logs[i].dev>> \notin w.recovered
       /\ \E e \in Events : /\ Reaches(e, w.obj, w.val, i)
                            /\ e \in w.todo \/ (e = w.event /\ logs[i].dev \in w.devs)

Settled(i) == logs[i].resolved \/ i \in excused \/ FiledApart(i)

RecoveryInv ==
    /\ \A k \in DOMAIN queue : queue[k].events = eventDiscovery(queue[k].obj)
    /\ \A i \in owed : \/ Settled(i)
                       \/ \E k \in DOMAIN queue : AheadOfItem(k, i)
                       \/ AheadOfWorker(i)

-----------------------------------------------------------------------------
(* What the steps do to the worker's record                                *)

\* The states in which an item's recoveries are looked for or carried out.
Looking == {"recover", "resolve", "detect"}

\* The RootCauseTracer candidate is all that WithTracer adds.
LEMMA TracerKeeps ==
    ASSUME TypeOK, NEW e \in Events
    PROVE  LET x == WithTracer(e) IN
           /\ x \in Workers
           /\ x.pc = w.pc /\ x.seq = w.seq /\ x.obj = w.obj /\ x.val = w.val
           /\ x.todo = w.todo /\ x.event = w.event /\ x.devs = w.devs
           /\ x.recovered = w.recovered /\ x.ids = w.ids
<1> DEFINE c == Append(w.cands, [event |-> e, recovery |-> TRUE,
                       devs |-> Profile[e].recovery.check[w.obj][w.val]])
<1>1. w \in Workers
  BY DEF TypeOK
<1>2. WithTracer(e) = IF "" \in w.traced THEN w
                      ELSE [w EXCEPT !.traced = {""}, !.cands = c]
  BY <1>1 DEF WithTracer, Workers
<1>3. WithTracer(e) \in Workers
  BY TracerTyped
<1> HIDE DEF c
<1> QED
  BY <1>1, <1>2, <1>3 DEF Workers

LEMMA LookingIs ==
    ASSUME TypeOK, Recovery
    PROVE  w.pc \in Looking /\ w'.seq = w.seq
<1>1. w \in Workers
  BY DEF TypeOK
<1>2. ASSUME NEW d \in w.devs, resolveDeviceLogs(d) \/ GetAllFails(d)
      PROVE  w'.seq = w.seq
  <2>1. w.event \in Events
    BY <1>1 DEF Workers
  <2> DEFINE x == WithTracer(w.event)
  <2>2. x \in Workers /\ x.seq = w.seq
    BY <2>1, TracerKeeps
  <2> HIDE DEF x
  <2>3. w'.seq = x.seq
    BY <1>2, <2>2 DEF resolveDeviceLogs, GetAllFails, Workers, x
  <2> QED
    BY <2>2, <2>3
<1>3. ASSUME \/ \E e \in w.todo : CheckRecovery(e)
             \/ \E d \in w.devs : SkipRecovered(d)
             \/ \E i \in w.ids : setLogEntryResolved(i)
             \/ ResolveFails \/ ResolveEnds \/ RecoveriesEnd
      PROVE  w'.seq = w.seq
  BY <1>1, <1>3 DEF Workers, CheckRecovery, SkipRecovered, setLogEntryResolved,
                    ResolveFails, ResolveEnds, RecoveriesEnd
<1>4. w'.seq = w.seq
  BY <1>2, <1>3 DEF Recovery
<1>5. w.pc \in {"recover", "resolve"}
  BY DEF Recovery, CheckRecovery, resolveDeviceLogs, GetAllFails, SkipRecovered,
         setLogEntryResolved, ResolveFails, ResolveEnds, RecoveriesEnd
<1> QED
  BY <1>4, <1>5 DEF Looking

LEMMA DetectionIs ==
    ASSUME TypeOK, Detection
    PROVE  w.pc = "detect" /\ w'.seq = w.seq /\ w'.pc \in {"detect", "process"}
<1>1. w \in Workers
  BY DEF TypeOK
<1>2. CASE DetectionsEnd
  BY <1>1, <1>2 DEF DetectionsEnd, Workers
<1>3. ASSUME NEW e \in w.only, Detect(e)
      PROVE  w.pc = "detect" /\ w'.seq = w.seq /\ w'.pc = "detect"
  <2>1. PICK devs \in AssertedDevices(e) :
          w' = [w EXCEPT !.only = @ \ {e},
                  !.cands = IF devs = {} THEN @
                            ELSE Append(@, [event |-> e, recovery |-> FALSE,
                                            devs |-> devs])]
    BY <1>3 DEF Detect
  <2> DEFINE c == IF devs = {} THEN w.cands
                  ELSE Append(w.cands, [event |-> e, recovery |-> FALSE,
                                        devs |-> devs])
  <2>2. w' = [w EXCEPT !.only = @ \ {e}, !.cands = c]
    BY <2>1
  <2> HIDE DEF c
  <2> QED
    BY <1>1, <1>3, <2>2 DEF Detect, Workers
<1> QED
  BY <1>2, <1>3 DEF Detection

LEMMA ProcessingIs ==
    ASSUME TypeOK, Processing
    PROVE  /\ w.pc = "process" /\ w'.seq \in {w.seq, 0} /\ w'.pc \notin Looking
           /\ UNCHANGED <<signals, queue, pool, logs, owed, excused>>
<1>1. w \in Workers
  BY DEF TypeOK
<1>2. ASSUME NEW d \in Devices, TraceRecovered(d) \/ IsNoEvent(d) \/ IsEvent(d)
      PROVE  w.pc = "process" /\ w'.seq = w.seq /\ w'.pc \in {"slot", "process"}
  <2> DEFINE c == Advance(d)
             e == Candidate.event
  <2>1. /\ w.pc = "process"
        /\ \/ \E k \in {"trace", "report"} :
                w' = [w EXCEPT !.pc = "slot", !.event = e, !.devs = {d},
                               !.kind = k, !.cands = c]
           \/ w' = [w EXCEPT !.cands = c]
    BY <1>2 DEF TraceRecovered, IsNoEvent, IsEvent
  <2> HIDE DEF c, e
  <2> QED
    BY <1>1, <2>1 DEF Workers
<1>3. CASE ItemEnds
  BY <1>3 DEF ItemEnds, Sleeping, Looking, ghosts
<1>4. ASSUME NEW d \in Devices, TraceRecovered(d) \/ IsNoEvent(d) \/ IsEvent(d)
      PROVE  UNCHANGED <<signals, queue, pool, logs, owed, excused>>
  BY <1>4 DEF TraceRecovered, IsNoEvent, IsEvent, ghosts
<1> QED
  BY <1>2, <1>3, <1>4 DEF Processing, Looking

LEMMA SlotStepIs ==
    ASSUME TypeOK, NoSlot \/ NoThread \/ NoNumber \/ startWorkerThread
                   \/ \E g \in Guards : StartThread(g)
    PROVE  /\ w.pc \notin Looking /\ w'.pc \notin Looking
           /\ w'.seq \in {w.seq, 0}
           /\ UNCHANGED <<signals, queue, logs, owed, excused>>
<1>1. w \in Workers
  BY DEF TypeOK
<1>2. Returned.seq = w.seq /\ Returned.pc = "process"
  BY <1>1 DEF Returned, Workers
<1>3. /\ Dead.seq = 0 /\ Dead.pc = "dead"
      /\ Sleeping.seq = 0 /\ Sleeping.pc = "sleep"
  BY DEF Dead, Sleeping
<1> QED
  BY <1>2, <1>3 DEF NoSlot, NoThread, NoNumber, startWorkerThread, StartThread,
                    Looking, ghosts

-----------------------------------------------------------------------------
(* The order of the signals                                                *)

LEMMA NumbersTyped ==
    ASSUME TypeOK
    PROVE  /\ changes \in Nat /\ w.seq \in Nat
           /\ \A g \in Guards : thr[g].seq \in Nat
           /\ \A i \in DOMAIN logs : logs[i].seq \in Nat
           /\ \A k \in DOMAIN queue : queue[k] \in Items
<1>1. changes \in Nat
  BY BoundAssumption DEF TypeOK
<1>2. w.seq \in Nat
  BY DEF TypeOK, Workers
<1>3. \A g \in Guards : thr[g].seq \in Nat
  BY DEF TypeOK, Threads
<1>4. \A i \in DOMAIN logs : logs[i].seq \in Nat
  <2>1. \A i \in DOMAIN logs : logs[i] \in Entries
    BY DEF TypeOK
  <2> QED
    BY <2>1 DEF Entries
<1>5. \A k \in DOMAIN queue : queue[k] \in Items
  BY DEF TypeOK
<1> QED
  BY <1>1, <1>2, <1>3, <1>4, <1>5

\* A step that neither queues nor pops.
LEMMA OrderKept ==
    ASSUME TypeOK, OrderInv, UNCHANGED <<queue, changes>>,
           w'.seq \in {w.seq, 0},
           w'.pc \in Looking => w.pc \in Looking /\ w'.seq = w.seq,
           \A s \in Nat : AllBefore(s) /\ (w.seq < s \/ w'.pc \in Looking)
                            => AllBefore(s)'
    PROVE  OrderInv'
<1>1. changes \in Nat /\ w.seq \in Nat
  BY NumbersTyped
<1>2. \A k \in DOMAIN queue : /\ queue[k].seq \in 1 .. changes
                              /\ AllBefore(queue[k].seq)'
                              /\ w'.seq < queue[k].seq
  <2> SUFFICES ASSUME NEW k \in DOMAIN queue
               PROVE  /\ queue[k].seq \in 1 .. changes
                      /\ AllBefore(queue[k].seq)'
                      /\ w'.seq < queue[k].seq
    OBVIOUS
  <2>1. /\ queue[k].seq \in 1 .. changes /\ AllBefore(queue[k].seq)
        /\ w.seq < queue[k].seq
    BY DEF OrderInv
  <2>2. PICK s \in Nat : s = queue[k].seq
    BY <1>1, <2>1
  <2>3. AllBefore(s)'
    BY <2>1, <2>2
  <2> QED
    BY <1>1, <2>1, <2>2, <2>3 DEF AllBefore
<1>3. AllBefore(changes + 1)'
  <2>1. PICK s \in Nat : s = changes + 1
    BY <1>1
  <2>2. AllBefore(s)'
    BY <1>1, <2>1 DEF OrderInv
  <2> QED
    BY <2>1, <2>2 DEF AllBefore
<1>4. w'.pc \in Looking => AllBefore(w.seq)'
  <2>1. PICK s \in Nat : s = w.seq
    BY <1>1
  <2>2. w'.pc \in Looking => AllBefore(s)'
    BY <2>1 DEF OrderInv, Looking
  <2> QED
    BY <2>1, <2>2 DEF AllBefore
<1> QED
  BY <1>1, <1>2, <1>3, <1>4 DEF OrderInv, Looking

\* setLogEntryResolved changes one field of one entry.
EntryResolved(i) ==
    /\ DOMAIN logs' = DOMAIN logs
    /\ logs'[i].resolved
    /\ \A j \in DOMAIN logs : /\ logs'[j].name = logs[j].name
                              /\ logs'[j].dev = logs[j].dev
                              /\ logs'[j].ns = logs[j].ns
                              /\ logs'[j].seq = logs[j].seq
                              /\ j # i => logs'[j] = logs[j]

LEMMA ResolvedIs ==
    ASSUME TypeOK, NEW i \in w.ids, setLogEntryResolved(i)
    PROVE  EntryResolved(i)
<1>1. /\ i \in DOMAIN logs /\ logs \in Seq(Entries)
      /\ logs' = [logs EXCEPT ![i].resolved = TRUE]
  BY DEF TypeOK, setLogEntryResolved
<1> DEFINE e == [logs[i] EXCEPT !.resolved = TRUE]
<1>2. e.name = logs[i].name /\ e.dev = logs[i].dev /\ e.ns = logs[i].ns
      /\ e.seq = logs[i].seq /\ e.resolved
  <2>1. logs[i] \in Entries
    BY <1>1
  <2> QED
    BY <2>1 DEF Entries
<1>3. logs' = [logs EXCEPT ![i] = e]
  BY <1>1
<1> HIDE DEF e
<1>4. /\ DOMAIN logs' = DOMAIN logs /\ logs'[i] = e
      /\ \A j \in DOMAIN logs : j # i => logs'[j] = logs[j]
  BY <1>1, <1>3
<1> QED
  BY <1>2, <1>4 DEF EntryResolved

LEMMA SignalOrder ==
    ASSUME TypeOK, OrderInv, NEW o \in Objects, NEW v \in Values,
           dbusEventHandlerCallback(o, v)
    PROVE  OrderInv'
<1>1. /\ changes \in Nat /\ queue \in Seq(Items)
      /\ \A g \in Guards : thr[g].seq \in Nat
      /\ \A i \in DOMAIN logs : logs[i].seq \in Nat
  BY NumbersTyped DEF TypeOK
<1> DEFINE item == [seq |-> changes + 1, obj |-> o, val |-> v,
                    events |-> eventDiscovery(o)]
<1>2. /\ changes' = changes + 1 /\ UNCHANGED <<w, thr, logs>>
      /\ queue' = queue \/ queue' = Append(queue, item)
  BY DEF dbusEventHandlerCallback, pushToQueue, pool
<1>3. item.seq = changes + 1 /\ item \in Items
  BY <1>1 DEF Items, eventDiscovery
<1> HIDE DEF item
<1>4. AllBefore(changes + 1) /\ AllBefore(changes + 2)
  BY <1>1 DEF OrderInv, AllBefore
<1>5. /\ DOMAIN queue \subseteq DOMAIN queue'
      /\ \A k \in DOMAIN queue : queue'[k] = queue[k]
      /\ \A k \in DOMAIN queue' \ DOMAIN queue :
            queue'[k] = item /\ \A l \in DOMAIN queue : l < k
      /\ \A k, l \in DOMAIN queue' \ DOMAIN queue : k = l
  <2>1. CASE queue' = queue
    BY <2>1
  <2>2. CASE queue' = Append(queue, item)
    <3>1. /\ DOMAIN queue' = DOMAIN queue \cup {Len(queue) + 1}
          /\ DOMAIN queue = 1 .. Len(queue) /\ Len(queue) \in Nat
          /\ \A k \in DOMAIN queue : queue'[k] = queue[k]
          /\ queue'[Len(queue) + 1] = item
      BY <1>1, <1>3, <2>2
    <3> QED
      BY <3>1
  <2> QED
    BY <1>2, <2>1, <2>2
<1>6. \A k \in DOMAIN queue' : /\ queue'[k].seq \in 1 .. changes + 1
                               /\ AllBefore(queue'[k].seq)
                               /\ w.seq < queue'[k].seq
  <2> SUFFICES ASSUME NEW k \in DOMAIN queue'
               PROVE  /\ queue'[k].seq \in 1 .. changes + 1
                      /\ AllBefore(queue'[k].seq)
                      /\ w.seq < queue'[k].seq
    OBVIOUS
  <2>1. CASE k \in DOMAIN queue
    BY <1>1, <1>5, <2>1 DEF OrderInv
  <2>2. CASE k \notin DOMAIN queue
    <3>1. queue'[k].seq = changes + 1 /\ w.seq <= changes /\ w.seq \in Nat
      BY <1>3, <1>5, <2>2, NumbersTyped DEF OrderInv
    <3> QED
      BY <1>1, <1>4, <3>1
  <2> QED
    BY <2>1, <2>2
<1>7. \A k, l \in DOMAIN queue' : k < l => queue'[k].seq < queue'[l].seq
  <2> SUFFICES ASSUME NEW k \in DOMAIN queue', NEW l \in DOMAIN queue', k < l
               PROVE  queue'[k].seq < queue'[l].seq
    OBVIOUS
  <2>0. k \in Int /\ l \in Int
    BY <1>1, <1>2, <1>3
  <2>1. CASE k \in DOMAIN queue /\ l \in DOMAIN queue
    BY <1>5, <2>1 DEF OrderInv
  <2>2. CASE k \in DOMAIN queue /\ l \notin DOMAIN queue
    <3>1. queue[k].seq \in 1 .. changes
      BY <2>2 DEF OrderInv
    <3> QED
      BY <1>1, <1>3, <1>5, <2>2, <3>1
  <2>3. CASE k \notin DOMAIN queue
    BY <1>5, <2>0, <2>3
  <2> QED
    BY <2>1, <2>2, <2>3
<1>8. w.seq <= changes + 1
  BY <1>1, NumbersTyped DEF OrderInv
<1> QED
  BY <1>1, <1>2, <1>4, <1>6, <1>7, <1>8 DEF OrderInv, AllBefore

\* What the worker pops.
LEMMA PoppedIs ==
    ASSUME TypeOK, popFromQueue
    PROVE  /\ 1 \in DOMAIN queue /\ queue[1] \in Items
           /\ w' = Working(queue[1]) /\ w' \in Workers
           /\ w'.pc = "recover" /\ w'.seq = queue[1].seq
           /\ w'.obj = queue[1].obj /\ w'.val = queue[1].val
           /\ w'.todo = queue[1].events /\ w'.recovered = {}
           /\ \A k \in DOMAIN queue' :
                 k + 1 \in DOMAIN queue /\ queue'[k] = queue[k + 1]
           /\ \A k \in DOMAIN queue :
                 k # 1 => k - 1 \in DOMAIN queue' /\ queue'[k - 1] = queue[k]
           /\ DOMAIN queue \subseteq Nat \ {0}
           /\ UNCHANGED <<signals, pool, logs, owed, excused>>
<1>1. /\ queue \in Seq(Items) /\ queue # <<>> /\ queue' = Tail(queue)
      /\ w' = Working(Head(queue))
      /\ UNCHANGED <<signals, pool, logs, owed, excused>>
  BY DEF TypeOK, popFromQueue, ghosts
<1>2. /\ 1 \in DOMAIN queue /\ queue[1] \in Items /\ Head(queue) = queue[1]
      /\ DOMAIN queue \subseteq Nat \ {0}
      /\ \A k \in DOMAIN queue' : k + 1 \in DOMAIN queue
                                  /\ queue'[k] = queue[k + 1]
      /\ \A k \in DOMAIN queue : k # 1 => k - 1 \in DOMAIN queue'
                                          /\ queue'[k - 1] = queue[k]
  BY <1>1
<1>3. /\ w' \in Workers /\ w'.pc = "recover" /\ w'.seq = queue[1].seq
      /\ w'.obj = queue[1].obj /\ w'.val = queue[1].val
      /\ w'.todo = queue[1].events /\ w'.recovered = {}
  <2>1. Sleeping \in Workers /\ Sleeping.recovered = {}
    BY PlaceholdersTyped DEF Sleeping
  <2> QED
    BY <1>1, <1>2, <2>1 DEF Working, Workers, WorkerPCs, Items
<1> QED
  BY <1>1, <1>2, <1>3

LEMMA PopOrder ==
    ASSUME TypeOK, OrderInv, popFromQueue
    PROVE  OrderInv'
<1>1. /\ 1 \in DOMAIN queue /\ w'.pc = "recover" /\ w'.seq = queue[1].seq
      /\ \A k \in DOMAIN queue' :
            k + 1 \in DOMAIN queue /\ queue'[k] = queue[k + 1]
      /\ DOMAIN queue \subseteq Nat \ {0}
      /\ UNCHANGED <<changes, thr, logs>>
  BY PoppedIs DEF signals, pool
<1>2. \A k \in DOMAIN queue' : k \in Int /\ 1 < k + 1
  <2>1. queue' \in Seq(Items)
    BY PopTyped DEF TypeOK
  <2> QED
    BY <2>1
<1>3. \A k \in DOMAIN queue' : /\ queue'[k].seq \in 1 .. changes
                               /\ AllBefore(queue'[k].seq)
                               /\ queue[1].seq < queue'[k].seq
  BY <1>1, <1>2 DEF OrderInv
<1>4. \A k, l \in DOMAIN queue' : k < l => queue'[k].seq < queue'[l].seq
  BY <1>1, <1>2 DEF OrderInv
<1>5. /\ AllBefore(queue[1].seq) /\ AllBefore(changes + 1)
      /\ queue[1].seq <= changes
  BY <1>1, NumbersTyped DEF OrderInv
<1> QED
  BY <1>1, <1>3, <1>4, <1>5 DEF OrderInv, AllBefore

LEMMA OrderPreserved ==
    ASSUME TypeOK, OrderInv, [Next]_vars
    PROVE  OrderInv'
<1>0. /\ thr \in [Guards -> Threads] /\ logs \in Seq(Entries)
      /\ \A g \in Guards : thr[g].seq \in Nat
      /\ \A i \in DOMAIN logs : logs[i] \in Entries
  BY NumbersTyped DEF TypeOK
<1>1. CASE UNCHANGED vars
  BY <1>1, OrderKept DEF vars, signals, pool, ghosts, AllBefore, OrderInv, Looking
<1>2. CASE Recovery
  <2>1. UNCHANGED <<queue, changes, thr>>
    BY <1>2 DEF Recovery, CheckRecovery, resolveDeviceLogs, GetAllFails,
                SkipRecovered, setLogEntryResolved, ResolveFails, ResolveEnds,
                RecoveriesEnd, signals, pool, ghosts
  <2>2. DOMAIN logs' = DOMAIN logs /\ \A i \in DOMAIN logs : logs'[i].seq = logs[i].seq
    <3>1. logs' = logs \/ \E i \in w.ids : setLogEntryResolved(i)
      BY <1>2 DEF Recovery, CheckRecovery, resolveDeviceLogs, GetAllFails,
                  SkipRecovered, ResolveFails, ResolveEnds, RecoveriesEnd, ghosts
    <3>2. \A i \in w.ids : setLogEntryResolved(i) => EntryResolved(i)
      BY ResolvedIs
    <3> QED
      BY <3>1, <3>2 DEF EntryResolved
  <2>3. \A s \in Nat : AllBefore(s) => AllBefore(s)'
    BY <2>1, <2>2 DEF AllBefore
  <2> QED
    BY <1>2, <2>1, <2>3, LookingIs, OrderKept
<1>3. CASE Detection
  <2>1. UNCHANGED <<queue, changes, thr, logs>>
    BY <1>3 DEF Detection, Detect, DetectionsEnd, signals, pool, ghosts
  <2> QED
    BY <1>3, <2>1, DetectionIs, OrderKept DEF AllBefore, Looking
<1>4. CASE Processing
  BY <1>4, ProcessingIs, OrderKept DEF AllBefore, signals, pool
<1>5. CASE NoSlot \/ NoThread \/ NoNumber \/ startWorkerThread
  <2>1. UNCHANGED thr
    BY <1>5 DEF NoSlot, NoThread, NoNumber, startWorkerThread, pool
  <2> QED
    BY <1>5, <2>1, SlotStepIs, OrderKept DEF AllBefore, signals
<1>6. ASSUME NEW g \in Guards, StartThread(g) PROVE OrderInv'
  <2>1. \A h \in Guards : thr'[h].seq \in {thr[h].seq, w.seq}
    BY <1>0, <1>6 DEF StartThread
  <2>2. /\ w'.pc \notin Looking /\ w'.seq \in {w.seq, 0}
        /\ UNCHANGED <<queue, changes, logs>>
    BY <1>6, SlotStepIs DEF signals
  <2>3. \A s \in Nat : AllBefore(s) /\ w.seq < s => AllBefore(s)'
    BY <2>1, <2>2 DEF AllBefore
  <2> QED
    BY <2>2, <2>3, OrderKept
<1>7. CASE NoBus
  <2>1. w'.seq = 0 /\ w'.pc = "dead" /\ UNCHANGED <<queue, changes, thr, logs>>
    BY <1>7 DEF NoBus, Dead, Sleeping, signals, pool
  <2> QED
    BY <2>1, OrderKept DEF AllBefore, Looking
<1>8. ASSUME NEW g \in Guards, EventThread(g) \/ BootThread(g) PROVE OrderInv'
  <2>1. UNCHANGED <<queue, changes, w>>
    BY <1>8 DEF EventThread, createLog, createLogFails, ThreadEnds, BootThread,
                signals, ghosts
  <2>2. \A h \in Guards : thr'[h].seq \in {thr[h].seq, 0}
    <3>1. CASE createLog(g) \/ createLogFails(g)
      <4>1. thr' = [thr EXCEPT ![g].pc = "logged"]
        BY <3>1 DEF createLog, createLogFails
      <4> QED
        BY <1>0, <4>1 DEF Threads
    <3>2. CASE BootThread(g) \/ ThreadEnds(g)
      BY <1>0, <3>2 DEF ThreadEnds, BootThread, Idle, Threads
    <3> QED
      BY <1>8, <3>1, <3>2 DEF EventThread
  <2>3. /\ DOMAIN logs \subseteq DOMAIN logs'
        /\ \A i \in DOMAIN logs : logs'[i] = logs[i]
        /\ \A i \in DOMAIN logs' \ DOMAIN logs : logs'[i].seq = thr[g].seq
    <3>1. CASE UNCHANGED logs
      BY <3>1
    <3>2. CASE createLog(g)
      <4> DEFINE e == [name |-> Profile[thr[g].event].name,
                       dev |-> thr[g].dev,
                       ns |-> getPhosphorLoggingNamespace(thr[g].event,
                                                          thr[g].dev),
                       seq |-> thr[g].seq, resolved |-> FALSE]
      <4>1. logs' = Append(logs, e) /\ e.seq = thr[g].seq
        BY <3>2 DEF createLog
      <4>2. e \in Entries
        BY <1>0, NamespaceTyped DEF Entries, Threads, Names
      <4> HIDE DEF e
      <4> QED
        BY <1>0, <4>1, <4>2
    <3> QED
      BY <1>8, <3>1, <3>2 DEF EventThread, createLogFails, ThreadEnds, BootThread
  <2>4. \A s \in Nat : AllBefore(s) => AllBefore(s)'
    BY <1>0, <2>2, <2>3 DEF AllBefore
  <2> QED
    BY <2>1, <2>4, OrderKept
<1> QED
  BY <1>1, <1>2, <1>3, <1>4, <1>5, <1>6, <1>7, <1>8, SignalOrder, PopOrder
     DEF Next, Worker

\* A recovery resolves only entries of conditions signalled before it.
THEOREM RecoveriesResolveTheEarlier == Spec => ResolvedByLaterRecovery
<1>1. Init => OrderInv
  BY PlaceholdersTyped DEF Init, OrderInv, AllBefore, Sleeping, Idle
<1>2. TypeOK /\ OrderInv /\ [Next]_vars => OrderInv'
  BY OrderPreserved
<1>3. TypeOK /\ OrderInv /\ [Next]_vars =>
        [\A i \in DOMAIN logs :
            logs'[i].resolved /\ ~logs[i].resolved => logs[i].seq < w.seq]_vars
  <2> SUFFICES ASSUME TypeOK, OrderInv, Next, NEW i \in DOMAIN logs,
                      logs'[i] # logs[i]
               PROVE  logs[i].seq < w.seq
    BY Zenon
  <2>1. /\ logs \in Seq(Entries) /\ thr \in [Guards -> Threads]
    BY DEF TypeOK
  <2>2. ASSUME NEW g \in Guards PROVE ~createLog(g)
    BY <2>1 DEF createLog
  <2>3. w.pc = "resolve"
    BY <2>2 DEF Next, Worker, dbusEventHandlerCallback, popFromQueue, Recovery,
                CheckRecovery, resolveDeviceLogs, GetAllFails, SkipRecovered,
                setLogEntryResolved, ResolveFails, ResolveEnds, RecoveriesEnd,
                Detection, Detect, DetectionsEnd, Processing, TraceRecovered,
                IsNoEvent, IsEvent, ItemEnds, NoBus, NoThread, NoNumber, NoSlot,
                StartThread, EventThread, createLogFails, ThreadEnds, BootThread,
                startWorkerThread
  <2> QED
    BY <2>3 DEF OrderInv, AllBefore
<1> QED
  BY <1>1, <1>2, <1>3, PipelineTyped, PTL DEF Spec, ResolvedByLaterRecovery

-----------------------------------------------------------------------------
(* No owed entry is forgotten                                              *)

\* A step that neither queues nor pops and leaves the entries in place: what
\* is left to show is about the entries the worker is still to reach.
LEMMA RecoveryKept ==
    ASSUME TypeOK, RecoveryInv, UNCHANGED <<queue, owed>>,
           excused \subseteq excused',
           \A i \in DOMAIN logs : /\ logs'[i].name = logs[i].name
                                  /\ logs'[i].dev = logs[i].dev
                                  /\ Settled(i) => Settled(i)',
           \A i \in owed : AheadOfWorker(i) => Settled(i) \/ Settled(i)'
                                               \/ AheadOfWorker(i)'
    PROVE  RecoveryInv'
<1>1. owed \subseteq DOMAIN logs
  BY DEF TypeOK
<1>2. \A i \in owed, k \in DOMAIN queue : AheadOfItem(k, i) => AheadOfItem(k, i)'
  BY <1>1 DEF AheadOfItem, Reaches
<1>3. \A k \in DOMAIN queue : queue'[k].events = eventDiscovery(queue'[k].obj)
  BY DEF RecoveryInv
<1>4. ASSUME NEW i \in owed
      PROVE  \/ Settled(i)'
             \/ \E k \in DOMAIN queue : AheadOfItem(k, i)'
             \/ AheadOfWorker(i)'
  <2>1. Settled(i) => Settled(i)'
    BY <1>1
  <2>2. \/ Settled(i)
        \/ \E k \in DOMAIN queue : AheadOfItem(k, i)
        \/ AheadOfWorker(i)
    BY DEF RecoveryInv
  <2> QED
    BY <1>2, <2>1, <2>2
<1> QED
  BY <1>3, <1>4 DEF RecoveryInv, eventDiscovery

\* A signal: what it is about is ahead of the new item.
LEMMA SignalOwes ==
    ASSUME TypeOK, RecoveryInv, NEW o \in Objects, NEW v \in Values,
           dbusEventHandlerCallback(o, v)
    PROVE  RecoveryInv'
<1> DEFINE item == [seq |-> changes + 1, obj |-> o, val |-> v,
                    events |-> eventDiscovery(o)]
<1>1. /\ UNCHANGED <<w, logs, excused>>
      /\ \/ UNCHANGED <<queue, owed>>
         \/ queue' = Append(queue, item) /\ owed' = owed \cup RecoveredBy(o, v)
  BY DEF dbusEventHandlerCallback, pushToQueue
<1>2. CASE UNCHANGED <<queue, owed>>
  BY <1>1, <1>2, RecoveryKept DEF Settled, FiledApart, AheadOfWorker, Reaches
<1>3. CASE queue' = Append(queue, item) /\ owed' = owed \cup RecoveredBy(o, v)
  <2>1. /\ item \in Items /\ item.obj = o /\ item.val = v
        /\ item.events = eventDiscovery(o) /\ queue \in Seq(Items)
    <3>1. changes \in Nat
      BY NumbersTyped
    <3> QED
      BY <3>1 DEF TypeOK, Items, eventDiscovery
  <2> HIDE DEF item
  <2>2. PICK n \in Nat :
          /\ DOMAIN queue' = DOMAIN queue \cup {n} /\ queue'[n] = item
          /\ \A k \in DOMAIN queue : queue'[k] = queue[k]
    <3>1. Len(queue) + 1 \in Nat
      BY <2>1
    <3> QED
      BY <1>3, <2>1, <3>1
  <2>3. \A k \in DOMAIN queue' : queue'[k].events = eventDiscovery(queue'[k].obj)
    BY <2>1, <2>2 DEF RecoveryInv
  <2>4. ASSUME NEW i \in RecoveredBy(o, v) PROVE AheadOfItem(n, i)'
    <3>1. \E e \in Events : Reaches(e, o, v, i)
      BY DEF RecoveredBy, Reaches
    <3> QED
      BY <1>1, <2>1, <2>2, <3>1 DEF AheadOfItem, Reaches
  <2>5. ASSUME NEW i \in owed
        PROVE  \/ Settled(i)'
               \/ \E k \in DOMAIN queue : AheadOfItem(k, i)'
               \/ AheadOfWorker(i)'
    <3>1. \/ Settled(i)
          \/ \E k \in DOMAIN queue : AheadOfItem(k, i)
          \/ AheadOfWorker(i)
      BY DEF RecoveryInv
    <3>2. Settled(i) => Settled(i)'
      BY <1>1 DEF Settled, FiledApart
    <3>3. AheadOfWorker(i) => AheadOfWorker(i)'
      BY <1>1 DEF AheadOfWorker, Reaches
    <3>4. \A k \in DOMAIN queue : AheadOfItem(k, i) => AheadOfItem(k, i)'
      BY <1>1, <2>2 DEF AheadOfItem, Reaches
    <3> QED
      BY <3>1, <3>2, <3>3, <3>4
  <2>6. ASSUME NEW i \in owed'
        PROVE  \/ Settled(i)'
               \/ \E k \in DOMAIN queue' : AheadOfItem(k, i)'
               \/ AheadOfWorker(i)'
    BY <1>3, <2>2, <2>4, <2>5
  <2> QED
    BY <2>3, <2>6 DEF RecoveryInv, eventDiscovery
<1> QED
  BY <1>1, <1>2, <1>3

\* The popped item: what was ahead of it is ahead of the worker.
LEMMA PopOwes ==
    ASSUME TypeOK, RecoveryInv, popFromQueue
    PROVE  RecoveryInv'
<1>1. /\ 1 \in DOMAIN queue
      /\ w'.pc = "recover" /\ w'.obj = queue[1].obj /\ w'.val = queue[1].val
      /\ w'.todo = queue[1].events /\ w'.recovered = {}
      /\ \A k \in DOMAIN queue' :
            k + 1 \in DOMAIN queue /\ queue'[k] = queue[k + 1]
      /\ \A k \in DOMAIN queue :
            k # 1 => k - 1 \in DOMAIN queue' /\ queue'[k - 1] = queue[k]
      /\ UNCHANGED <<logs, owed, excused>>
  BY PoppedIs
<1>2. \A k \in DOMAIN queue' : queue'[k].events = eventDiscovery(queue'[k].obj)
  BY <1>1 DEF RecoveryInv
<1>3. \A i \in owed : ~AheadOfWorker(i)
  BY DEF popFromQueue, AheadOfWorker
<1>4. \A i \in owed : AheadOfItem(1, i) => AheadOfWorker(i)'
  <2> SUFFICES ASSUME NEW i \in owed, NEW e \in Events,
                      Reaches(e, queue[1].obj, queue[1].val, i)
               PROVE  AheadOfWorker(i)'
    BY DEF AheadOfItem
  <2>1. e \in queue[1].events
    BY <1>1 DEF RecoveryInv, eventDiscovery, Reaches
  <2>2. Reaches(e, w.obj, w.val, i)'
    BY <1>1 DEF Reaches
  <2> QED
    BY <1>1, <2>1, <2>2 DEF AheadOfWorker
<1>5. \A i \in owed, k \in DOMAIN queue :
         k # 1 /\ AheadOfItem(k, i) => AheadOfItem(k - 1, i)'
  BY <1>1 DEF AheadOfItem, Reaches
<1>6. ASSUME NEW i \in owed
      PROVE  \/ Settled(i)'
             \/ \E k \in DOMAIN queue' : AheadOfItem(k, i)'
             \/ AheadOfWorker(i)'
  <2>1. Settled(i) => Settled(i)'
    BY <1>1 DEF Settled, FiledApart
  <2>2. Settled(i) \/ \E k \in DOMAIN queue : AheadOfItem(k, i)
    BY <1>3 DEF RecoveryInv
  <2> QED
    BY <1>1, <1>4, <1>5, <2>1, <2>2
<1> QED
  BY <1>1, <1>2, <1>6 DEF RecoveryInv, eventDiscovery

\* The recovery loop goes on to the next event, or to the detections.
LEMMA CheckOwes ==
    ASSUME TypeOK, RecoveryInv, NEW e \in w.todo, CheckRecovery(e)
    PROVE  RecoveryInv'
<1>1. /\ w \in Workers /\ w.pc = "recover" /\ w.devs = {}
      /\ UNCHANGED <<queue, logs, owed, excused>>
  BY DEF TypeOK, CheckRecovery, ghosts
<1>2. /\ w'.pc = "recover" /\ w'.obj = w.obj /\ w'.val = w.val
      /\ w'.recovered = w.recovered /\ w'.todo = w.todo \ {e}
      /\ Recovers(e, w.obj, w.val)
           => w'.event = e /\ w'.devs = Profile[e].recovery.check[w.obj][w.val]
  BY <1>1 DEF CheckRecovery, Workers
<1>3. ASSUME NEW i \in owed, AheadOfWorker(i) PROVE AheadOfWorker(i)'
  <2>1. <<logs[i].name, logs[i].dev>> \notin w.recovered
    BY <1>1, <1>3 DEF AheadOfWorker
  <2>2. PICK f \in w.todo : f \in Events /\ Reaches(f, w.obj, w.val, i)
    BY <1>1, <1>3 DEF AheadOfWorker
  <2>3. Reaches(f, w.obj, w.val, i)'
    BY <1>1, <1>2, <2>2 DEF Reaches
  <2>4. CASE f # e
    BY <1>1, <1>2, <2>1, <2>2, <2>3, <2>4 DEF AheadOfWorker
  <2>5. CASE f = e
    <3>1. /\ logs[i].dev \in Profile[e].recovery.check[w.obj][w.val]
          /\ Recovers(e, w.obj, w.val)
      BY <2>2, <2>5 DEF Reaches, Recovers
    <3> QED
      BY <1>1, <1>2, <2>1, <2>2, <2>3, <2>5, <3>1 DEF AheadOfWorker
  <2> QED
    BY <2>4, <2>5
<1> QED
  BY <1>1, <1>3, RecoveryKept DEF Settled, FiledApart

LEMMA RecoveriesEndOwes ==
    ASSUME TypeOK, RecoveryInv, RecoveriesEnd
    PROVE  RecoveryInv'
<1>1. \A i \in owed : ~AheadOfWorker(i)
  BY DEF RecoveriesEnd, AheadOfWorker
<1> QED
  BY <1>1, RecoveryKept DEF RecoveriesEnd, Settled, FiledApart, ghosts

\* The worker turns to the entries of its event on device d; whoever is ahead
\* of it on another device still is.
LEMMA OtherDevice ==
    ASSUME TypeOK, NEW d \in w.devs, NEW i \in owed, w.pc = "recover",
           RecoverKey(w.event, d) # <<logs[i].name, logs[i].dev>>,
           AheadOfWorker(i), UNCHANGED logs,
           w'.pc \in {"recover", "resolve"}, w'.obj = w.obj, w'.val = w.val,
           w'.todo = w.todo, w'.event = w.event, w'.devs = w.devs \ {d},
           w'.recovered \subseteq w.recovered \cup {RecoverKey(w.event, d)}
    PROVE  AheadOfWorker(i)'
<1>1. PICK e \in Events :
         /\ Reaches(e, w.obj, w.val, i)
         /\ e \in w.todo \/ (e = w.event /\ logs[i].dev \in w.devs)
  BY DEF AheadOfWorker
<1>2. <<logs[i].name, logs[i].dev>> \notin w.recovered
  BY DEF AheadOfWorker
<1>3. e = w.event => logs[i].dev # d
  BY <1>1 DEF Reaches, RecoverKey
<1>4. Reaches(e, w.obj, w.val, i)'
  BY <1>1 DEF Reaches
<1> QED
  BY <1>1, <1>2, <1>3, <1>4 DEF AheadOfWorker

LEMMA ResolveOwes ==
    ASSUME TypeOK, RecoveryInv, NEW d \in w.devs,
           resolveDeviceLogs(d) \/ GetAllFails(d)
    PROVE  RecoveryInv'
<1>1. /\ w \in Workers /\ w.pc = "recover" /\ w.event \in Events
      /\ UNCHANGED <<queue, logs, owed>> /\ excused \subseteq excused'
  BY DEF TypeOK, Workers, resolveDeviceLogs, GetAllFails, ghosts
<1> DEFINE key == RecoverKey(w.event, d)
           found == Unresolved(Profile[w.event].name, d)
           x == WithTracer(w.event)
<1>2. /\ w'.pc \in {"recover", "resolve"} /\ w'.obj = w.obj /\ w'.val = w.val
      /\ w'.todo = w.todo /\ w'.event = w.event /\ w'.devs = w.devs \ {d}
      /\ w'.recovered = w.recovered \cup {key}
      /\ \/ w'.pc = "resolve" /\ w'.ids = found
         \/ found \subseteq excused'
  <2>1. /\ x \in Workers
        /\ x.pc = w.pc /\ x.seq = w.seq /\ x.obj = w.obj /\ x.val = w.val
        /\ x.todo = w.todo /\ x.event = w.event /\ x.devs = w.devs
        /\ x.recovered = w.recovered /\ x.ids = w.ids
    BY <1>1, TracerKeeps
  <2>2. \/ w' = [x EXCEPT !.devs = @ \ {d}, !.recovered = @ \cup {key},
                          !.ids = found, !.pc = "resolve"]
        \/ /\ w' = [x EXCEPT !.devs = @ \ {d}, !.recovered = @ \cup {key}]
           /\ found \subseteq excused'
    BY DEF resolveDeviceLogs, GetAllFails
  <2> HIDE DEF x, key, found
  <2>3. CASE w' = [x EXCEPT !.devs = @ \ {d}, !.recovered = @ \cup {key},
                            !.ids = found, !.pc = "resolve"]
    <3>1. /\ w'.pc = "resolve" /\ w'.obj = x.obj /\ w'.val = x.val
          /\ w'.todo = x.todo /\ w'.event = x.event
      BY <2>1, <2>3 DEF Workers
    <3>2. /\ w'.devs = x.devs \ {d} /\ w'.ids = found
          /\ w'.recovered = x.recovered \cup {key}
      BY <2>1, <2>3 DEF Workers
    <3> QED
      BY <2>1, <3>1, <3>2
  <2>4. CASE /\ w' = [x EXCEPT !.devs = @ \ {d}, !.recovered = @ \cup {key}]
             /\ found \subseteq excused'
    <3>1. /\ w'.pc = x.pc /\ w'.obj = x.obj /\ w'.val = x.val
          /\ w'.todo = x.todo /\ w'.event = x.event
      BY <2>1, <2>4 DEF Workers
    <3>2. w'.devs = x.devs \ {d} /\ w'.recovered = x.recovered \cup {key}
      BY <2>1, <2>4 DEF Workers
    <3> QED
      BY <1>1, <2>1, <2>4, <3>1, <3>2
  <2> QED
    BY <2>2, <2>3, <2>4
<1>3. ASSUME NEW i \in owed, AheadOfWorker(i)
      PROVE  Settled(i) \/ Settled(i)' \/ AheadOfWorker(i)'
  <2>1. CASE key = <<logs[i].name, logs[i].dev>>
    <3>1. logs[i].resolved \/ i \in found \/ FiledApart(i)
      BY <2>1 DEF RecoverKey, Unresolved, FiledApart, TypeOK
    <3> QED
      BY <1>2, <3>1 DEF Settled, FiledApart, AheadOfWorker
  <2>2. CASE key # <<logs[i].name, logs[i].dev>>
    BY <1>1, <1>2, <1>3, <2>2, OtherDevice
  <2> QED
    BY <2>1, <2>2
<1> QED
  BY <1>1, <1>3, RecoveryKept DEF Settled, FiledApart

LEMMA SkipOwes ==
    ASSUME TypeOK, RecoveryInv, NEW d \in w.devs, SkipRecovered(d)
    PROVE  RecoveryInv'
<1>1. /\ w \in Workers /\ w.pc = "recover"
      /\ RecoverKey(w.event, d) \in w.recovered
      /\ w' = [w EXCEPT !.devs = @ \ {d}]
      /\ UNCHANGED <<queue, logs, owed, excused>>
  BY DEF TypeOK, SkipRecovered, ghosts
<1>2. /\ w'.pc = "recover" /\ w'.obj = w.obj /\ w'.val = w.val
      /\ w'.todo = w.todo /\ w'.event = w.event /\ w'.devs = w.devs \ {d}
      /\ w'.recovered = w.recovered
  BY <1>1 DEF Workers
<1>3. \A i \in owed : AheadOfWorker(i)
         => RecoverKey(w.event, d) # <<logs[i].name, logs[i].dev>>
  BY <1>1 DEF AheadOfWorker
<1>4. \A i \in owed : AheadOfWorker(i) => AheadOfWorker(i)'
  BY <1>1, <1>2, <1>3, OtherDevice
<1> QED
  BY <1>1, <1>4, RecoveryKept DEF Settled, FiledApart

\* The entries found are resolved one by one, up to the first call that fails.
LEMMA ResolvingOwes ==
    ASSUME TypeOK, RecoveryInv,
           \/ \E i \in w.ids : setLogEntryResolved(i)
           \/ ResolveFails \/ ResolveEnds
    PROVE  RecoveryInv'
<1>1. /\ w \in Workers /\ w.pc = "resolve" /\ UNCHANGED <<queue, owed>>
      /\ excused \subseteq excused' /\ owed \subseteq DOMAIN logs
  BY DEF TypeOK, setLogEntryResolved, ResolveFails, ResolveEnds, ghosts
<1>2. /\ w'.pc \in {"recover", "resolve"} /\ w'.obj = w.obj /\ w'.val = w.val
      /\ w'.todo = w.todo /\ w'.event = w.event /\ w'.devs = w.devs
      /\ w'.recovered = w.recovered
  BY <1>1 DEF setLogEntryResolved, ResolveFails, ResolveEnds, Workers
<1>3. \A i \in DOMAIN logs : /\ logs'[i].name = logs[i].name
                             /\ logs'[i].dev = logs[i].dev
                             /\ logs'[i].ns = logs[i].ns
                             /\ logs[i].resolved => logs'[i].resolved
  <2>1. CASE UNCHANGED logs
    BY <2>1
  <2>2. ASSUME NEW i \in w.ids, setLogEntryResolved(i)
        PROVE  \A j \in DOMAIN logs : /\ logs'[j].name = logs[j].name
                                      /\ logs'[j].dev = logs[j].dev
                                      /\ logs'[j].ns = logs[j].ns
                                      /\ logs[j].resolved => logs'[j].resolved
    <3>1. EntryResolved(i)
      BY <2>2, ResolvedIs
    <3>2. SUFFICES ASSUME NEW j \in DOMAIN logs
                   PROVE  /\ logs'[j].name = logs[j].name
                          /\ logs'[j].dev = logs[j].dev
                          /\ logs'[j].ns = logs[j].ns
                          /\ logs[j].resolved => logs'[j].resolved
      OBVIOUS
    <3>3. CASE j = i
      BY <3>1, <3>3 DEF EntryResolved
    <3>4. CASE j # i
      BY <3>1, <3>4 DEF EntryResolved
    <3> QED
      BY <3>3, <3>4
  <2> QED
    BY <2>1, <2>2 DEF ResolveFails, ResolveEnds, ghosts
<1>4. \A i \in DOMAIN logs : i \in w.ids =>
         \/ i \in excused' \/ logs'[i].resolved
         \/ w'.pc = "resolve" /\ i \in w'.ids
  <2> SUFFICES ASSUME NEW i \in w.ids
               PROVE  \/ i \in excused' \/ logs'[i].resolved
                      \/ w'.pc = "resolve" /\ i \in w'.ids
    OBVIOUS
  <2>1. ASSUME NEW j \in w.ids, setLogEntryResolved(j)
        PROVE  logs'[i].resolved \/ (w'.pc = "resolve" /\ i \in w'.ids)
    <3>1. EntryResolved(j)
      BY <2>1, ResolvedIs
    <3>2. w'.pc = "resolve" /\ w'.ids = w.ids \ {j}
      BY <1>1, <2>1 DEF setLogEntryResolved, Workers
    <3> QED
      BY <3>1, <3>2 DEF EntryResolved
  <2> QED
    BY <2>1 DEF ResolveFails, ResolveEnds
<1>5. ASSUME NEW i \in owed, AheadOfWorker(i)
      PROVE  Settled(i)' \/ AheadOfWorker(i)'
  <2>1. CASE i \in w.ids
    BY <1>1, <1>4, <2>1 DEF Settled, FiledApart, AheadOfWorker
  <2>2. CASE i \notin w.ids
    BY <1>1, <1>2, <1>3, <1>5, <2>2 DEF AheadOfWorker, Reaches
  <2> QED
    BY <2>1, <2>2
<1> QED
  BY <1>1, <1>3, <1>5, RecoveryKept DEF Settled, FiledApart

\* The exception without a bus ends the item; what it was about is excused.
LEMMA NoBusOwes ==
    ASSUME TypeOK, RecoveryInv, NoBus
    PROVE  RecoveryInv'
<1>1. /\ w.pc = "recover" /\ UNCHANGED <<queue, logs, owed>>
      /\ excused' = excused \cup RecoveredBy(w.obj, w.val)
      /\ owed \subseteq DOMAIN logs
  BY DEF TypeOK, NoBus
<1>2. \A i \in owed : AheadOfWorker(i) => Settled(i) \/ Settled(i)'
  <2> SUFFICES ASSUME NEW i \in owed, AheadOfWorker(i), ~logs[i].resolved
               PROVE  i \in RecoveredBy(w.obj, w.val)
    BY <1>1 DEF Settled, FiledApart
  <2> QED
    BY <1>1 DEF AheadOfWorker, Reaches, RecoveredBy
<1> QED
  BY <1>1, <1>2, RecoveryKept DEF Settled, FiledApart

\* Steps of the worker after its recoveries.
LEMMA LaterOwes ==
    ASSUME TypeOK, RecoveryInv, w.pc \notin {"recover", "resolve"},
           UNCHANGED <<queue, logs, owed, excused>>
    PROVE  RecoveryInv'
<1>1. \A i \in owed : ~AheadOfWorker(i)
  BY DEF AheadOfWorker
<1> QED
  BY <1>1, RecoveryKept DEF Settled, FiledApart

\* Steps of event threads: at most a new entry.
LEMMA ThreadOwes ==
    ASSUME TypeOK, RecoveryInv, NEW g \in Guards, EventThread(g) \/ BootThread(g)
    PROVE  RecoveryInv'
<1>1. UNCHANGED <<queue, w, owed, excused>>
  BY DEF EventThread, createLog, createLogFails, ThreadEnds, BootThread, ghosts
<1>2. \A i \in DOMAIN logs : logs'[i] = logs[i]
  <2>1. CASE UNCHANGED logs
    BY <2>1
  <2>2. CASE createLog(g)
    BY <2>2 DEF createLog, TypeOK
  <2> QED
    BY <2>1, <2>2 DEF EventThread, createLogFails, ThreadEnds, BootThread
<1>3. \A i \in owed : AheadOfWorker(i) => AheadOfWorker(i)'
  BY <1>1, <1>2 DEF AheadOfWorker, Reaches, TypeOK
<1> QED
  BY <1>1, <1>2, <1>3, RecoveryKept DEF Settled, FiledApart

LEMMA RecoveryPreserved ==
    ASSUME TypeOK, RecoveryInv, [Next]_vars
    PROVE  RecoveryInv'
<1>1. CASE UNCHANGED vars
  BY <1>1, RecoveryKept DEF vars, ghosts, Settled, FiledApart, AheadOfWorker, Reaches
<1>2. CASE Recovery
  BY <1>2, CheckOwes, RecoveriesEndOwes, ResolveOwes, SkipOwes, ResolvingOwes
     DEF Recovery
<1>3. CASE Detection
  <2>1. UNCHANGED <<queue, logs, owed, excused>>
    BY <1>3 DEF Detection, Detect, DetectionsEnd, ghosts
  <2> QED
    BY <1>3, <2>1, DetectionIs, LaterOwes
<1>4. CASE Processing
  BY <1>4, ProcessingIs, LaterOwes
<1>5. CASE NoSlot \/ NoThread \/ NoNumber \/ startWorkerThread
           \/ \E g \in Guards : StartThread(g)
  BY <1>5, SlotStepIs, LaterOwes DEF Looking
<1> QED
  BY <1>1, <1>2, <1>3, <1>4, <1>5, SignalOwes, PopOwes, NoBusOwes, ThreadOwes
     DEF Next, Worker

\* Once the queue is empty and the worker sleeps, each entry a queued recovery
\* was about is resolved, or excused by a call that failed, or filed under the
\* sub type of its event, where the code does not look.
THEOREM RecoveriesReachTheirLogs == Spec => []RecoveryReachesItsLogs
<1>1. Init => RecoveryInv
  BY DEF Init, RecoveryInv
<1>2. TypeOK /\ RecoveryInv /\ [Next]_vars => RecoveryInv'
  BY RecoveryPreserved
<1>3. TypeOK /\ RecoveryInv => RecoveryReachesItsLogs
  BY DEF RecoveryInv, RecoveryReachesItsLogs, AheadOfWorker, Settled
<1> QED
  BY <1>1, <1>2, <1>3, PipelineTyped, PTL DEF Spec

=============================================================================
