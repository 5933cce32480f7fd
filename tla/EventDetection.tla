--------------------------- MODULE EventDetection ---------------------------
(***************************************************************************)
(* The event pipeline (event_detection.cpp, event_detection.hpp).          *)
(*                                                                         *)
(*   main thread    a PropertiesChanged signal becomes an item of the      *)
(*                  bounded queue, with the events whose trigger or        *)
(*                  recovery accessor matches the property;                *)
(*   worker thread  pops one item at a time: first the recoveries (resolve *)
(*                  the log entries of the event and device), then the     *)
(*                  detections, the leaky bucket, and a thread for each    *)
(*                  report.  An exception ends it; the main loop starts it *)
(*                  again and the rest of the item is lost;                *)
(*   event threads  hold a slot of the pool, run the handlers (here: the   *)
(*                  one that creates the log entry) and end.               *)
(*                                                                         *)
(* Accessors, device ranges and check criteria are data of the profile:    *)
(* for each part of an event, the properties its accessor matches and the  *)
(* devices its check names for a value of a property.  Property values are *)
(* integers.  The pool is BoundedSlots, which ThreadPool implements.       *)
(***************************************************************************)
EXTENDS Integers, Sequences, FiniteSets

CONSTANTS
    Objects,     \* D-Bus properties (and other readable sources)
    Values,      \* their values
    Devices,     \* device names
    Events,      \* the EventNodes of the loaded profile
    Profile,     \* what event_info loaded for each of them
    InitProp,    \* the values at the start
    QueueSize,   \* PROPERTIESCHANGED_QUEUE_SIZE
    Guards,      \* thread pool guards, one for each thread alive
    MaxRunning,  \* option -t
    MaxChanges   \* bound: how many properties change

\* An accessor of an event.
Parts == [on : SUBSET Objects,
          check : [Objects -> [Values -> SUBSET Devices]]]

ASSUME ProfileAssumption ==
    /\ Values \subseteq Int
    /\ InitProp \in [Objects -> Values]
    /\ \A e \in Events :
          /\ Profile[e].trigger \in Parts
          /\ Profile[e].accessor \in Parts
          /\ Profile[e].recovery \in Parts
          /\ Profile[e].readFrom \in [Devices -> Objects]
          /\ Profile[e].valueAsCount \in BOOLEAN

\* -1 never reports; the bucket of a smaller limit would never be full.
ASSUME TriggerCountAssumption ==
    \A e \in Events : Profile[e].triggerCount \in Nat \cup {-1}

\* "" is no sub type: what is missing in the profile is loaded so.
ASSUME SubTypeAssumption == \A e \in Events : Profile[e].subType \in STRING

ASSUME BoundAssumption ==
    /\ Objects # {} /\ Events # {} /\ Devices # {}
    /\ IsFiniteSet(Guards)
    /\ QueueSize \in Nat \ {0}
    /\ MaxRunning \in Nat \ {0}
    /\ MaxChanges \in Nat

VARIABLES
    prop,    \* the value of each property
    changes, \* how many have changed; also numbers the signals
    queue,   \* items: signal number, property, value, events
    w,       \* the worker thread
    count,   \* EventNode::count
    thr,     \* what each guard's thread is doing
    booted,  \* the boot thread has taken a slot
    logs,    \* log entries: event name, device, namespace, signal number,
             \* resolved
    \* for the properties only
    seen,    \* how often an event has been counted on a device
    fired,   \* how often that has led to a report
    reports, \* how many reports IsEvent has led to
    lost,    \* reports that got no slot or no log entry
    owed,    \* entries that existed when a matching recovery was queued
    excused  \* entries a failing call kept from being resolved

ghosts == <<seen, fired, reports, lost, owed, excused>>
signals == <<prop, changes>>
pool == <<thr, booted>>
vars == <<prop, changes, queue, w, count, thr, booted, logs, ghosts>>

\* sleep: between two items; recover, resolve, detect, process: the loops;
\* slot: inside the ThreadpoolGuard constructor; dead: the thread has ended.
WorkerPCs == {"sleep", "recover", "resolve", "detect", "process", "slot",
              "dead"}

\* idle: no guard; boot: the selftest thread; trace, report: a thread that
\* runs one handler, all handlers; logged: past the one that makes the entry.
ThreadPCs == {"idle", "boot", "trace", "report", "logged"}

Names == {Profile[e].name : e \in Events}

Items == [seq : Nat, obj : Objects, val : Values, events : SUBSET Events]

\* A member of eventsCandidateList: event, asserted devices, recovery flag.
Candidates == [event : Events, recovery : BOOLEAN, devs : SUBSET Devices]

\* recovered, traced: recoveredEventDevices and rootCauseTracerDevice; only:
\* eventsOnlyPattern; ids: the entries still to be resolved; kind: what the
\* thread is for that waits for its slot.
Workers ==
    [pc : WorkerPCs, seq : Nat, obj : Objects, val : Values,
     todo : SUBSET Events, event : Events, devs : SUBSET Devices,
     recovered : SUBSET (Names \X Devices), traced : SUBSET {""},
     ids : SUBSET Nat, only : SUBSET Events, cands : Seq(Candidates),
     kind : {"none", "trace", "report"}]

Threads == [pc : ThreadPCs, event : Events, dev : Devices, seq : Nat]

\* Phosphor logging files entries by namespace: a device, or a device and a
\* sub type.
Namespaces == Devices \X STRING

Entries == [name : Names, dev : Devices, ns : Namespaces, seq : Nat,
            resolved : BOOLEAN]

\* Placeholders in fields that mean nothing.
AnyObject == CHOOSE o \in Objects : TRUE
AnyEvent == CHOOSE e \in Events : TRUE
AnyDevice == CHOOSE d \in Devices : TRUE

\* A worker without an item.
Sleeping == [pc |-> "sleep", seq |-> 0, obj |-> AnyObject,
             val |-> InitProp[AnyObject], todo |-> {}, event |-> AnyEvent,
             devs |-> {}, recovered |-> {}, traced |-> {}, ids |-> {},
             only |-> {}, cands |-> <<>>, kind |-> "none"]

Idle == [pc |-> "idle", event |-> AnyEvent, dev |-> AnyDevice, seq |-> 0]

Held == {g \in Guards : thr[g].pc # "idle"}

Slots == INSTANCE BoundedSlots WITH holders <- Held

TypeOK ==
    /\ prop \in [Objects -> Values]
    /\ changes \in 0 .. MaxChanges
    /\ queue \in Seq(Items) /\ Len(queue) <= QueueSize
    /\ w \in Workers
    /\ w.ids \subseteq DOMAIN logs
    /\ count \in [Events -> [Devices -> Nat]]
    /\ thr \in [Guards -> Threads]
    /\ booted \in BOOLEAN
    /\ logs \in Seq(Entries)
    /\ seen \in [Events -> [Devices -> Nat]]
    /\ fired \in [Events -> [Devices -> Nat]]
    /\ reports \in Nat /\ lost \in Nat
    /\ owed \subseteq DOMAIN logs /\ excused \subseteq DOMAIN logs

Init ==
    /\ prop = InitProp
    /\ changes = 0
    /\ queue = <<>>
    /\ w = Sleeping
    /\ count = [e \in Events |-> [d \in Devices |-> 0]]
    /\ thr = [g \in Guards |-> Idle]
    /\ booted = FALSE
    /\ logs = <<>>
    /\ seen = [e \in Events |-> [d \in Devices |-> 0]]
    /\ fired = [e \in Events |-> [d \in Devices |-> 0]]
    /\ reports = 0
    /\ lost = 0
    /\ owed = {}
    /\ excused = {}

-----------------------------------------------------------------------------
(* The main thread: dbusEventHandlerCallback                               *)

\* Does the recovery accessor match the property, does its check pass?
Recovers(e, o, v) ==
    o \in Profile[e].recovery.on /\ Profile[e].recovery.check[o][v] # {}

\* The hits of the trigger view and of the recovery view, each event once.
eventDiscovery(o) ==
    {e \in Events : o \in Profile[e].trigger.on \cup Profile[e].recovery.on}

\* GetAll: the unresolved entries of the device's own namespace; of these, the
\* entries of the event on the device.
Unresolved(name, d) ==
    {i \in DOMAIN logs : /\ ~logs[i].resolved
                         /\ logs[i].ns = <<d, "">>
                         /\ logs[i].name = name
                         /\ logs[i].dev = d}

\* The entries a recovery by this value is about, in whatever namespace.
RecoveredBy(o, v) ==
    {i \in DOMAIN logs :
        /\ ~logs[i].resolved
        /\ \E e \in Events : /\ o \in Profile[e].recovery.on
                             /\ Profile[e].name = logs[i].name
                             /\ logs[i].dev \in Profile[e].recovery.check[o][v]}

\* Mutant: the push does not notice that the queue is full.
pushToQueueUnbounded(o, v) ==
    /\ queue' = Append(queue, [seq |-> changes + 1, obj |-> o, val |-> v,
                               events |-> eventDiscovery(o)])
    /\ owed' = owed \cup RecoveredBy(o, v)

\* A full queue drops the signal.
pushToQueue(o, v) ==
    IF Len(queue) < QueueSize
    THEN /\ queue' = Append(queue, [seq |-> changes + 1, obj |-> o, val |-> v,
                                    events |-> eventDiscovery(o)])
         /\ owed' = owed \cup RecoveredBy(o, v)
    ELSE UNCHANGED <<queue, owed>>

\* A property changes, and the signal that says so is received.
dbusEventHandlerCallback(o, v) ==
    /\ changes < MaxChanges
    /\ v # prop[o]
    /\ prop' = [prop EXCEPT ![o] = v]
    /\ changes' = changes + 1
    /\ IF eventDiscovery(o) # {}
       THEN pushToQueue(o, v)
       ELSE UNCHANGED <<queue, owed>>
    /\ UNCHANGED <<w, count, pool, logs, seen, fired, reports, lost, excused>>

-----------------------------------------------------------------------------
(* The worker: popFromQueue and the recoveries of EventsDetection          *)

Working(item) ==
    [Sleeping EXCEPT !.pc = "recover", !.seq = item.seq, !.obj = item.obj,
                     !.val = item.val, !.todo = item.events]

\* Mutant: the newest item first.
popNewest ==
    /\ w.pc = "sleep"
    /\ queue # <<>>
    /\ w' = Working(queue[Len(queue)])
    /\ queue' = SubSeq(queue, 1, Len(queue) - 1)
    /\ UNCHANGED <<signals, count, pool, logs, ghosts>>

popFromQueue ==
    /\ w.pc = "sleep"
    /\ queue # <<>>
    /\ w' = Working(Head(queue))
    /\ queue' = Tail(queue)
    /\ UNCHANGED <<signals, count, pool, logs, ghosts>>

\* The next event of the recovery loop.  The events come in the order of a
\* hash map: any order.
CheckRecovery(e) ==
    /\ w.pc = "recover"
    /\ w.devs = {}
    /\ e \in w.todo
    /\ w' = IF Recovers(e, w.obj, w.val)
            THEN [w EXCEPT !.todo = @ \ {e}, !.event = e,
                           !.devs = Profile[e].recovery.check[w.obj][w.val]]
            ELSE [w EXCEPT !.todo = @ \ {e}, !.only = @ \cup {e}]
    /\ UNCHANGED <<signals, queue, count, pool, logs, ghosts>>

\* The RootCauseTracer candidate.  rootCauseTracerDevice holds the device of
\* the shared EventNode, and loadFrom has set that to "": the key is the same
\* for every event.
WithTracer(e) ==
    IF "" \in w.traced THEN w
    ELSE [w EXCEPT !.traced = {""},
                   !.cands = Append(@, [event |-> e, recovery |-> TRUE,
                     devs |-> Profile[e].recovery.check[w.obj][w.val]])]

\* Mutant: what has been recovered is told apart by the device alone.
RecoverKeyDevice(e, d) == <<"", d>>

\* eventFullKey
RecoverKey(e, d) == <<Profile[e].name, d>>

\* The entries resolveDeviceLogs finds for the worker's event and a device,
\* before it resolves the first of them.
resolveDeviceLogs(d) ==
    /\ w.pc = "recover"
    /\ d \in w.devs
    /\ RecoverKey(w.event, d) \notin w.recovered
    /\ w' = [WithTracer(w.event) EXCEPT
               !.devs = @ \ {d},
               !.recovered = @ \cup {RecoverKey(w.event, d)},
               !.ids = Unresolved(Profile[w.event].name, d),
               !.pc = "resolve"]
    /\ UNCHANGED <<signals, queue, count, pool, logs, ghosts>>

\* GetAll fails; the exception is caught in the loop.
GetAllFails(d) ==
    /\ w.pc = "recover"
    /\ d \in w.devs
    /\ RecoverKey(w.event, d) \notin w.recovered
    /\ w' = [WithTracer(w.event) EXCEPT
               !.devs = @ \ {d},
               !.recovered = @ \cup {RecoverKey(w.event, d)}]
    /\ excused' = excused \cup Unresolved(Profile[w.event].name, d)
    /\ UNCHANGED <<signals, queue, count, pool, logs, seen, fired, reports,
                   lost, owed>>

\* Another event of the same name has been recovered on the device.
SkipRecovered(d) ==
    /\ w.pc = "recover"
    /\ d \in w.devs
    /\ RecoverKey(w.event, d) \in w.recovered
    /\ w' = [w EXCEPT !.devs = @ \ {d}]
    /\ UNCHANGED <<signals, queue, count, pool, logs, ghosts>>

setLogEntryResolved(i) ==
    /\ w.pc = "resolve"
    /\ i \in w.ids
    /\ logs' = [logs EXCEPT ![i].resolved = TRUE]
    /\ w' = [w EXCEPT !.ids = @ \ {i}]
    /\ UNCHANGED <<signals, queue, count, pool, ghosts>>

\* Set fails: the rest of the entries is skipped.
ResolveFails ==
    /\ w.pc = "resolve"
    /\ w.ids # {}
    /\ w' = [w EXCEPT !.ids = {}, !.pc = "recover"]
    /\ excused' = excused \cup w.ids
    /\ UNCHANGED <<signals, queue, count, pool, logs, seen, fired, reports,
                   lost, owed>>

ResolveEnds ==
    /\ w.pc = "resolve"
    /\ w.ids = {}
    /\ w' = [w EXCEPT !.pc = "recover"]
    /\ UNCHANGED <<signals, queue, count, pool, logs, ghosts>>

RecoveriesEnd ==
    /\ w.pc = "recover"
    /\ w.todo = {}
    /\ w.devs = {}
    /\ w' = [w EXCEPT !.pc = "detect", !.event = AnyEvent]
    /\ UNCHANGED <<signals, queue, count, pool, logs, ghosts>>

-----------------------------------------------------------------------------
(* The worker: the detections of EventsDetection                           *)

\* The devices the event may be asserted on.  The trigger's check looks at
\* the value, not at the property it is of.  Of the devices it names the
\* accessor is read for the first (here: any), now; the read may fail.
AssertedDevices(e) ==
    LET p == Profile[e]
        triggered == p.trigger.check[w.obj][w.val]
    IN IF w.obj \in p.accessor.on THEN {p.accessor.check[w.obj][w.val]}
       ELSE IF p.accessor.on = {} \/ triggered = {} THEN {triggered}
       ELSE {{}} \cup {p.accessor.check[p.readFrom[d]][prop[p.readFrom[d]]] :
                         d \in triggered}

Detect(e) ==
    /\ w.pc = "detect"
    /\ e \in w.only
    /\ \E devs \in AssertedDevices(e) :
          w' = [w EXCEPT
                  !.only = @ \ {e},
                  !.cands = IF devs = {} THEN @
                            ELSE Append(@, [event |-> e, recovery |-> FALSE,
                                            devs |-> devs])]
    /\ UNCHANGED <<signals, queue, count, pool, logs, ghosts>>

DetectionsEnd ==
    /\ w.pc = "detect"
    /\ w.only = {}
    /\ w' = [w EXCEPT !.pc = "process", !.recovered = {}, !.traced = {}]
    /\ UNCHANGED <<signals, queue, count, pool, logs, ghosts>>

-----------------------------------------------------------------------------
(* The worker: processEventList                                            *)

\* The candidate whose devices the loop is visiting.
Candidate == Head(w.cands)

\* The loops go on after device d.
Advance(d) ==
    IF Candidate.devs = {d} THEN Tail(w.cands)
    ELSE <<[Candidate EXCEPT !.devs = @ \ {d}]>> \o Tail(w.cands)

\* A recovered device: RunEventHandler for the RootCauseTracer.
TraceRecovered(d) ==
    /\ w.pc = "process"
    /\ w.cands # <<>>
    /\ Candidate.recovery
    /\ d \in Candidate.devs
    /\ w' = [w EXCEPT !.pc = "slot", !.event = Candidate.event,
                      !.devs = {d}, !.kind = "trace", !.cands = Advance(d)]
    /\ UNCHANGED <<signals, queue, count, pool, logs, ghosts>>

\* The counts IsEvent may compare with the limit: one more than so far, or
\* with valueAsCount the value of the signal; -1 stands for "no value", and
\* the event's accessor is read again.
Counts(e, d) ==
    IF ~Profile[e].valueAsCount THEN {count[e][d] + 1}
    ELSE IF w.val # -1 THEN {w.val}
    ELSE {prop[o] : o \in Profile[e].accessor.on}

\* Mutant: the bucket is emptied when it reports.
BucketEmptied(e, c) == IF c >= Profile[e].triggerCount THEN 0 ELSE c

\* What the bucket holds after a count: it stays at the limit.
Bucket(e, c) ==
    IF c >= Profile[e].triggerCount THEN Profile[e].triggerCount ELSE c

\* IsEvent says no.
IsNoEvent(d) ==
    /\ w.pc = "process"
    /\ w.cands # <<>>
    /\ ~Candidate.recovery
    /\ d \in Candidate.devs
    /\ LET e == Candidate.event
       IN /\ \E c \in Counts(e, d) :
                \/ Profile[e].triggerCount = -1 /\ UNCHANGED count
                \/ /\ Profile[e].triggerCount # -1
                   /\ c < Profile[e].triggerCount
                   /\ count' = IF Profile[e].valueAsCount THEN count
                               ELSE [count EXCEPT ![e][d] = Bucket(e, c)]
          /\ seen' = [seen EXCEPT ![e][d] = @ + 1]
    /\ w' = [w EXCEPT !.cands = Advance(d)]
    /\ UNCHANGED <<signals, queue, pool, logs, fired, reports, lost, owed,
                   excused>>

\* IsEvent says yes: RunEventHandlers.
IsEvent(d) ==
    /\ w.pc = "process"
    /\ w.cands # <<>>
    /\ ~Candidate.recovery
    /\ d \in Candidate.devs
    /\ LET e == Candidate.event
       IN /\ Profile[e].triggerCount # -1
          /\ \E c \in Counts(e, d) :
                /\ c >= Profile[e].triggerCount
                /\ count' = IF Profile[e].valueAsCount THEN count
                            ELSE [count EXCEPT ![e][d] = Bucket(e, c)]
          /\ seen' = [seen EXCEPT ![e][d] = @ + 1]
          /\ fired' = [fired EXCEPT ![e][d] = @ + 1]
    /\ reports' = reports + 1
    /\ w' = [w EXCEPT !.pc = "slot", !.event = Candidate.event,
                      !.devs = {d}, !.kind = "report",
                      !.cands = Advance(d)]
    /\ UNCHANGED <<signals, queue, pool, logs, lost, owed, excused>>

ItemEnds ==
    /\ w.pc = "process"
    /\ w.cands = <<>>
    /\ w' = Sleeping
    /\ UNCHANGED <<signals, queue, count, pool, logs, ghosts>>

-----------------------------------------------------------------------------
(* Slots and event threads                                                 *)

\* Back from RunEventHandler(s).
Returned == [w EXCEPT !.pc = "process", !.event = AnyEvent, !.devs = {},
                      !.kind = "none"]

\* Mutant: every thread runs the RootCauseTracer only.
StartThreadTracing(g) ==
    /\ w.pc = "slot"
    /\ \E d \in w.devs :
          thr' = [thr EXCEPT ![g] = [pc |-> "trace", event |-> w.event,
                                     dev |-> d, seq |-> w.seq]]
    /\ Slots!Acquire(g)
    /\ w' = Returned
    /\ UNCHANGED <<signals, queue, count, booted, logs, ghosts>>

StartThread(g) ==
    /\ w.pc = "slot"
    /\ \E d \in w.devs :
          thr' = [thr EXCEPT ![g] = [pc |-> w.kind, event |-> w.event,
                                     dev |-> d, seq |-> w.seq]]
    /\ Slots!Acquire(g)
    /\ w' = Returned
    /\ UNCHANGED <<signals, queue, count, booted, logs, ghosts>>

\* 60 s without a slot: the guard failed, the report is given up.
NoSlot ==
    /\ w.pc = "slot"
    /\ Cardinality(Held) >= MaxRunning
    /\ w' = Returned
    /\ lost' = IF w.kind = "report" THEN lost + 1 ELSE lost
    /\ UNCHANGED <<signals, queue, count, pool, logs, seen, fired, reports,
                   owed, excused>>

\* The thread main starts for the selftest takes a slot too.
BootThread(g) ==
    /\ ~booted
    /\ booted' = TRUE
    /\ thr' = [thr EXCEPT ![g].pc = "boot"]
    /\ Slots!Acquire(g)
    /\ UNCHANGED <<signals, queue, w, count, logs, ghosts>>

\* The device, or device_subType if the event has a sub type.
getPhosphorLoggingNamespace(e, d) == <<d, Profile[e].subType>>

\* The message composer creates the entry.
createLog(g) ==
    /\ thr[g].pc = "report"
    /\ logs' = Append(logs,
                 [name |-> Profile[thr[g].event].name, dev |-> thr[g].dev,
                  ns |-> getPhosphorLoggingNamespace(thr[g].event, thr[g].dev),
                  seq |-> thr[g].seq, resolved |-> FALSE])
    /\ thr' = [thr EXCEPT ![g].pc = "logged"]
    /\ UNCHANGED <<signals, queue, w, count, booted, ghosts>>

createLogFails(g) ==
    /\ thr[g].pc = "report"
    /\ thr' = [thr EXCEPT ![g].pc = "logged"]
    /\ lost' = lost + 1
    /\ UNCHANGED <<signals, queue, w, count, booted, logs, seen, fired,
                   reports, owed, excused>>

\* The handlers are done, the closure with the guard goes: the slot is free.
ThreadEnds(g) ==
    /\ thr[g].pc \in {"boot", "trace", "logged"}
    /\ thr' = [thr EXCEPT ![g] = Idle]
    /\ Slots!Release(g)
    /\ UNCHANGED <<signals, queue, w, count, booted, logs, ghosts>>

-----------------------------------------------------------------------------
(* Exceptions that leave popFromQueue                                      *)

\* What the worker's thread knew of its item is gone.
Dead == [Sleeping EXCEPT !.pc = "dead"]

\* resolveDeviceLogs cannot connect to the bus: that exception is no
\* runtime_error, so the loop does not catch it.
NoBus ==
    /\ w.pc = "recover"
    /\ w.devs # {}
    /\ w' = Dead
    /\ excused' = excused \cup RecoveredBy(w.obj, w.val)
    /\ UNCHANGED <<signals, queue, count, pool, logs, seen, fired, reports,
                   lost, owed>>

\* The slot is there but the thread cannot be made: std::thread throws, the
\* guard goes with the frame, and the report with it.
NoThread ==
    /\ w.pc = "slot"
    /\ Cardinality(Held) < MaxRunning
    /\ w' = Dead
    /\ lost' = IF w.kind = "report" THEN lost + 1 ELSE lost
    /\ UNCHANGED <<signals, queue, count, pool, logs, seen, fired, reports,
                   owed, excused>>

\* std::stoi throws on what the accessor returned.
NoNumber ==
    /\ w.pc = "process"
    /\ w.cands # <<>>
    /\ ~Candidate.recovery
    /\ Profile[Candidate.event].valueAsCount
    /\ w.val = -1
    /\ w' = Dead
    /\ UNCHANGED <<signals, queue, count, pool, logs, ghosts>>

\* Mutant: the end of the worker is logged and nothing more.
startWorkerThreadLogged ==
    /\ w.pc = "dead"
    /\ UNCHANGED vars

\* The ended thread has posted its replacement to the main loop.
startWorkerThread ==
    /\ w.pc = "dead"
    /\ w' = Sleeping
    /\ UNCHANGED <<signals, queue, count, pool, logs, ghosts>>

-----------------------------------------------------------------------------
Recovery ==
    \/ \E e \in w.todo : CheckRecovery(e)
    \/ \E d \in w.devs :
          resolveDeviceLogs(d) \/ GetAllFails(d) \/ SkipRecovered(d)
    \/ \E i \in w.ids : setLogEntryResolved(i)
    \/ ResolveFails \/ ResolveEnds \/ RecoveriesEnd

Detection == DetectionsEnd \/ \E e \in w.only : Detect(e)

Processing ==
    \/ \E d \in Devices : TraceRecovered(d) \/ IsNoEvent(d) \/ IsEvent(d)
    \/ ItemEnds

Worker ==
    \/ popFromQueue \/ Recovery \/ Detection \/ Processing
    \/ NoBus \/ NoThread \/ NoNumber
    \/ NoSlot \/ \E g \in Guards : StartThread(g)

EventThread(g) == createLog(g) \/ createLogFails(g) \/ ThreadEnds(g)

Next ==
    \/ \E o \in Objects, v \in Values : dbusEventHandlerCallback(o, v)
    \/ Worker
    \/ \E g \in Guards : EventThread(g) \/ BootThread(g)
    \/ startWorkerThread

Spec == Init /\ [][Next]_vars

\* Threads run; the main loop serves what is posted to it.
Fairness ==
    /\ WF_vars(Worker)
    /\ WF_vars(startWorkerThread)
    /\ \A g \in Guards : WF_vars(EventThread(g))

FairSpec == Spec /\ Fairness

-----------------------------------------------------------------------------
(* Properties                                                              *)

\* IsEvent reports exactly the counts from the trigger count on: the first
\* trigger count - 1 occurrences on a device are swallowed, every later one is
\* reported, nothing on one device counts for another, and no recovery, lost
\* report or restart of the worker changes that.
LeakyBucketExact ==
    \A e \in Events : ~Profile[e].valueAsCount =>
        \A d \in Devices :
            LET limit == Profile[e].triggerCount
                swallowed == IF limit <= 1 THEN 0 ELSE limit - 1
            IN fired[e][d] =
                 IF limit = -1 \/ seen[e][d] <= swallowed THEN 0
                 ELSE seen[e][d] - swallowed

\* A report is never lost without a trace: it has a log entry, its thread is
\* still at work, the worker waits for its slot, or it was given up because
\* there was no slot, no thread or no entry could be made.
ReportsAccounted ==
    reports =
        Len(logs) + lost + Cardinality({g \in Guards : thr[g].pc = "report"})
          + IF w.pc = "slot" /\ w.kind = "report" THEN 1 ELSE 0

\* The entry is filed where no recovery looks: under the sub type of the event.
FiledApart(i) == logs[i].ns # <<logs[i].dev, "">>

\* When the queue is empty and the worker sleeps, every log entry that existed
\* when a matching recovery signal was queued is resolved, or a D-Bus call
\* that failed kept it from being resolved.  Entries of several events, names
\* shared by events, failures halfway and worker restarts are covered.
\* Entries of events with a sub type are not: no recovery resolves them, see
\* RecoveryResolvesAll.
RecoveryReachesItsLogs ==
    queue = <<>> /\ w.pc = "sleep" =>
        \A i \in owed : logs[i].resolved \/ i \in excused \/ FiledApart(i)

\* "devices.at(0) =  Phosphor logging namespace" (event_detection.hpp:474) is
\* what a recovery looks its entries up with, to update the "log's Resolved
\* DBus property" (:268): the same promise for every event, whatever its sub
\* type.  The code does not keep it, as createLog files the entries of an
\* event with a sub type under another namespace.
RecoveryResolvesAll ==
    queue = <<>> /\ w.pc = "sleep" =>
        \A i \in owed : logs[i].resolved \/ i \in excused

\* No entry is resolved by a recovery that was signalled before the condition
\* the entry reports.
ResolvedByLaterRecovery ==
    [][\A i \in DOMAIN logs :
         logs'[i].resolved /\ ~logs[i].resolved => logs[i].seq < w.seq]_vars

\* Every queued signal leaves the queue, whatever the items before it do to
\* the worker.
Queued(k) == \E i \in DOMAIN queue : queue[i].seq = k

SignalsAreServed == \A k \in 1 .. MaxChanges : Queued(k) ~> ~Queued(k)

=============================================================================
