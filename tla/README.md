# nvidia-monitor-eventing: TLA+ models and proofs

The repository builds two daemons for a BMC.

- **`nvidia-mon-evt`** (`src/`, `include/`) watches D-Bus properties. A change is
  matched against the events of a profile; an event that is due is handed to a
  thread that finds the root cause, creates a log entry and updates the status of
  the device. A change that matches the recovery of an event resolves its entries.
- **the device health service** (`device-health-service/`) watches the log entries,
  remembers the asserted errors of every device in a mapped file, and publishes
  the health they imply on the device's object paths.

Paths below are relative to the repository.

## Inventory

| Component | State it keeps | Operations | Talks to | Hard part | Correct when |
|---|---|---|---|---|---|
| Thread pool (`include/threadpool_manager.hpp`) | semaphore `_sem`, counter `_waiting`, guards | `try_acquire`, `release`, guard constructor and destructor | worker, boot thread, event threads | several callers inside `try_acquire`; two owners of a guard | no slot lost or returned twice; counter exact |
| Event detection (`event_detection.*`, `pc_event.hpp`) | queue, event views, `EventNode::count`, `eventDetectionPtr` | signal callback, discovery, push, pop, `EventsDetection`, `processEventList`, `IsEvent` | D-Bus, logging service, pool, handlers | three kinds of threads; bounded queue; exceptions that end the worker | recoveries resolve their entries and no later ones; reports follow the trigger count; none vanishes |
| Handler manager and handlers (`event_handler.*`, `message_composer.*`, `selftest.*`) | list of handlers | `RunAllHandlers`, `RunHandler` | event threads, logging service | one handler fails, the next must run | the entry is created whatever the others do |
| Device status handler (`device_status_handler.hpp`) | vector of cached devices, mutex, files | `getDevice`, `process` | file system | test outside the lock; references into a vector | the file shows the highest severity |
| Device health service (`device-health-service/`) | mapped file of error ids, deferred set, timer | `interfacesAddedCallback`, `updateDeviceHealth`, `retryDeferredDevices`, boot | logging service, object mapper, hosting services | crash between store and publish; one of several paths fails | what is published follows from the file, or a retry is due |
| D-Bus access (`dbus_accessor.*`) | delayer state, cached object tree | `DelayedMethod::call`, `refresh`, lookups | all threads | one delayer shared by threads; cache never refreshed | calls are spaced; lookups see the services |
| Selftest, root cause tracer (`selftest.*`) | reports by device | `perform`, `performEntireTree`, `evaluateDevice`, root cause search | DAT, D-Bus | recursion over associations; `at` on missing reports | a device is tested once and its cause is found |
| DAT traversal (`dat_traverse.*`) | device tree | child, parent, association traversal | selftest | cycles | every reachable device is visited |
| Device ids (`device_id.*`, `device_util.*`) | patterns, index tuples | expand, match, evaluate | profile loading | ranges, products, partial maps | each device is named once |
| Accessors and checks (`data_accessor.*`, `check_accessor.*`, `property_accessor.*`) | read values | `read`, `check`, `contains` | D-Bus, commands | widths, bitmaps, conversions | a check names exactly the devices concerned |
| Event information (`event_info.*`) | `eventMap`, trigger, accessor and recovery views | `loadFromFile`, views, message arguments | start-up | patterns as hash keys | every signal finds its events |
| Start-up (`eventing_main.cpp`) | configuration | options, boot thread, worker restarts | all | order of worker, subscription, boot thread | the worker never runs unprepared |
| JSON, schema, command line, log, diagnostics | none that lasts | parsing, printing | start-up | none | sequential; left to unit tests |

`PROJECT.json` lists the same components with their files, and under `hazards`
each place in the code where an order of steps, a failure or a boundary could go
wrong in a way a unit test would hardly reach.

## Plan

Built, in this order:

1. `BoundedSlots`, `ThreadPool`: what every other part runs on.
2. `EventDetection`: the pipeline, composed with `BoundedSlots`.
3. `DeviceHealthService`, the other daemon.
4. `DeviceStatus`, the handler with shared state.
5. `ThreadPoolProofs`, `EventDetectionProofs`.
6. `DbusAccess`, `ObjectMapper`: the delayer shared by all threads; the mirror of the bus.
7. `Dat`, `Selftest`, `DatTraverse`: the device tree, its tests and its walks, cycles included.
8. `DeviceId`, `PropertyValue`, `Accessor`, `CheckAccessor`, `EventMatching`: from the
   profile to the list of candidates `EventDetection` starts from.

9. `DbusAccessProofs`, `DeviceHealthProofs`, `DeviceStatusProofs`, `SelftestProofs`,
   `DatTraverseProofs`, `EventMatchingProofs`, and the recoveries in `EventDetectionProofs`: the
   safety properties of all modules, for every value of the constants, but two of
   `EventMatching`.

Next:

- Proofs: `AssertedIsWitnessed` and `CompleteWhenStable` of `EventMatching`, after stating which
  combinations of trigger and accessor they hold for (see "Only model-checked").
- `BootUp`: the boot-time detection of the `EVENTING_FEATURE_ONLY` build, which shares
  the leaky bucket between two threads.
- Message arguments (`event_info.cpp`) on top of `DeviceId` and `Accessor`.

How the modules build on each other:

```
BoundedSlots <- ThreadPool (implements)      BoundedSlots <- EventDetection (uses)
ObjectMapper <- DatTraverse (INSTANCE)       Dat <- Selftest, DatTraverse
DeviceId, PropertyValue <- Accessor <- CheckAccessor <- EventMatching
```

## The modules

### BoundedSlots and ThreadPool

`BoundedSlots` is the promise: a set of holders of at most `MaxRunning`, taken and
given back one at a time. `ThreadPool` is the code: each operation on the atomic
counter or the semaphore is one step, so callers interleave inside `try_acquire`.
`FetchAdd` reads and increments `_waiting` and decides by the old value; `Reject`,
`TimeoutDecrement` and `SuccessDecrement` are the three decrements; `DropRef` is the
destructor, run when the last of the guard's owners (`refs`) lets go: the function
that made the guard and the closure of the detached thread. The boot thread's guard
is the case where only one owner ever exists. A timed wait ends without a slot only
while there is none (`SemTimeout`); the 60 seconds themselves are not modelled.

### EventDetection

Main thread, worker, and one thread for each guard. `prop` holds the current value of
each property; a change appends an item with the value and the events
`eventDiscovery` found, or drops it when the queue is full. The worker's record `w`
carries the local variables of `popFromQueue` and `EventsDetection`: `CheckRecovery`,
`resolveDeviceLogs`, `setLogEntryResolved` are the recovery loop (one D-Bus call a
step), `Detect` the detection loop, `IsEvent`, `IsNoEvent`, `TraceRecovered` the loops of
`processEventList`, `StartThread` and `NoSlot` the two outcomes of the guard.
`createLog` is the handler that makes the entry, filed under the namespace
`getPhosphorLoggingNamespace` gives: the device, with the event's sub type if it has one.
A recovery asks for the namespace of the device alone (`Unresolved`). Exceptions that leave the loop are
actions of their own: `NoBus` (an `SdBusError` is not the `runtime_error` the loop
catches), `NoThread` (`std::thread` throws), `NoNumber` (`std::stoi` throws); after them
`startWorkerThread` starts a worker with empty hands.

Which accessor matches which property, and which devices a check names for which
value, is data: the constant `Profile`. The accessor of an event found by its trigger
is read when the item is processed, not when it was queued. The hash-map order of
events is any order.

The variables `seen`, `fired`, `reports`, `lost`, `owed`, `excused` are there for the
properties and influence nothing.

### DeviceHealthService

A single thread: every action is a step of `interfacesAddedCallback`, of
`setDeviceHealth`, of the retry timer or of `main`. The mapped file (`known`, `crit`,
`warn`) survives `Crash`; `deferred`, `timerOn` and the job in progress do not. A
publication looks its paths up (`LookupPaths`) and sets them one by one; between two
calls, paths come and go (`HostUp`, `HostDown`), the bus fails or recovers (`BusTurns`),
and the daemon may die. `SetPathFails` is the failure the code notices,
`SetPathThrows` the one it reports as success. `StoreAborts` is the file that cannot
grow.

### DeviceStatus

`process` split where other threads can come between: the unlocked scan and the locked
append of `getDevice`, the unlocked comparison, the lock, the write, the update of the
cache. An append that makes the vector grow (`Grows`) leaves the references of other
threads dangling; what is read through one is any value and what is written is lost.
`Restart` empties the cache and keeps the files.

`writeJson2File` may fail before it touches the contents (`WriteFails`: the file lock is not to
be had, the file cannot be opened). Then it truncates the file (`Truncate`), and only then is
the JSON composed and written: `dump` throws on strings that are not UTF-8, and the arguments of
a message come over D-Bus (`DumpFails`); the stream is not asked whether it could write
(`WriteLost`). A file is `Cut` from the truncation until it is written in full (`WriteFile`). A
`fileLock.unlock` that throws after that is left out: `fcntl` does not refuse to unlock.

### DbusAccess and ObjectMapper

A thread calls one of the functions of `dbus_accessor.cpp` (`Begin`), which is a sequence of
D-Bus calls; each goes through `DelayedMethod::call`: `Lock`, `callStartAttempt`, the sleep,
`callStartActual`, the call, and `callFinished`, by itself or in the destructor of
`DbusDelayerStateGuard`, followed by the release of the `lock_guard`. A call returns
(`CallReturns`), with a `reply` the function then takes apart with the mutex free again (`Read`):
what was hoped for, no service or a code other than 0, or something that cannot be read; or it
throws (`CallThrows`). `ret` is the function's result variable, set where the code sets it:
`setDbusProperty` before it calls, the others when they have read. Other places that make a
`DelayedMethod` of their own (the mapper, the logging calls of `event_detection.hpp` and
`selftest.cpp`) do as `getObjectImpl`.
Time is the number of units since the last call, up to the bound that matters; `Tick` is a
unit. `createLog` calls the bus itself, undelayed.

`ObjectMapper` holds pure operators: the paths of a device, its manager, scoping by
interfaces. The code requires every interface asked for where its comment speaks of any;
the model does what the code does. `DatTraverse` gives them a mirror read once.

### Dat, Selftest, DatTraverse

`Dat` is the tree: a device has associations and a list of test points, each of which reads
a value or refers to another device. `Selftest` is `perform` with its recursion as a stack of
frames: a test point of a layer the selftest leaves out (`IgnoreLayer`), a read
(`ReadTestPoint`), a reference to a device that is tested now (`EnterNested`), has been
(`NestedKnown`), or does not exist (`NestedUnknown`). The `job` decides what runs: a
root cause trace in an event thread, `Selftest::process`, the selftest after boot with its
resolution of logs, or `resolveLogEntry` over a log. A reference is judged from the report as
it stands at that moment, and the judgement enters an empty report for a device that was
skipped: `EvaluateNested` does both.

`DatTraverse` has one action for each turn of a walk's loop, and `datToDbusAssociation`: the
walk from each device, the paths by the mirror, then `Get` and `Set` for each path as two
steps. Between any two steps services come and go, and the owner of a path may add an entry.
In this repository only `getTestLayerSubAssociations` (in `Dat`) and the two callbacks are
called by the daemon; the other walks and `datToDbusAssociation` are called by tests and by
products that link the class.

### DeviceId, PropertyValue, Accessor, CheckAccessor, EventMatching

The first four are the pure part, translated operator by operator. A pattern is a sequence
of texts with brackets between them; a text is a sequence of words, so that joining and
comparing names needs no characters. A bracket has a range, the range it maps to, and an
explicit or implicit input position. `nth` is `CartesianProductRange`'s number-to-tuple
computation; in `EventMatching` the iterator runs step by step (`SetDigit`, `PushValue`).
`calcInputDomain` intersects the brackets of an input position; as each bracket is a range, the
intersection runs from the greatest left end to the least right one.
A value is its bits, an integer validity and words; `passes` is `PropertyValue::check` with
every criterion (`bitmask`, `not_bitmask`, `bitset`, `not_bitset`, `equal`, `not_equal`,
`lookup`). `read` gives what the place of an accessor holds, or the empty value.

A check is a record with the `CheckAccessor`'s members and the devices still to be read
(`loopDevices`): `readNext` is one read, so that values change between the reads of one check.

`EventMatching` loads a profile (an incomplete entry or a range that runs backwards ends it),
builds filter and views, subscribes, and then queues signals (`Change`) and selftest results
(`Selftested`) with the events `eventDiscovery` finds. The worker pops an item, checks the
recoveries first and then the detections. `EventDetection` has the rest of the item's life
with the outcome of the checks as data; the two modules share `EventsDetection`.
`overlap` and `equalRanges` say where the result of `equal_range` is fixed by the standard: for
keys that match the same accessor without matching each other it is not, and `discoveries`
allows each possible answer.

## The runs

Each run asks its own question; every property of a passing run has a mutant of the
code in `PROJECT.json` that breaks it.

| Run | Instance | What it shows |
|---|---|---|
| `ThreadPool` | 5 guards, 2 slots, cap 2 | `IInv` (types, `SlotsConserved`, `WaitingExact`), `RejectOnlyAtCap`; the pool implements `BoundedSlots`; every guard's life ends: `SlotsComeBack` |
| `EventDetection` | 5 events on 3 properties of a device, queue of 2, 1 slot | `TypeOK`; `RecoveryReachesItsLogs` (entries of events without a sub type), `ResolvedByLaterRecovery`; `SignalsAreServed`: every queued signal is served |
| `EventDetectionSubType` | an event with a sub type | violation of `RecoveryResolvesAll` |
| `EventDetectionBitmap` | 2 devices in one bitmap, trigger counts 1 and 2, queue of 1 | `LeakyBucketExact`, `ReportsAccounted` |
| `DeviceHealth` | 1 device, 2 paths, 2 ids, limit 1 | `StoreOK`, `PublishedOrDeferred`, `TimerArmed` |
| `DeviceHealthRetry` | 2 devices, 1 path each | `DeferredIsRetried`, `NeverImproves` in the build without deassertion |
| `DeviceHealthSet` | as `DeviceHealth` | violation of `SetReportsTruth` |
| `DeviceStatusRaces` | 2 events at a time, a restart, 2 events | `CacheOK`, `CompletedIsReported`; `FileKeepsHighest`: a file that shows a severity is touched for a lower one only by a thread that had company when it tested, for a duplicate entry, after a dangling reference or after a restart; `HandlerEnds`: every thread gets through the handler |
| `DbusAccess` | 2 threads, bound of 2 units, all functions | `DelayerOK`: the undelayed fallback is never taken; `CallsSpaced`; `DelayerIsReleased` |
| `Selftest` | all reference graphs of 3 devices in 4 variants, 8 jobs; all logs of 2 entries | `TestsOK` (each device tested once), `ReferencesAgree`, `TraceOK` (most nested failure, health covers failures), `TracerDoesNotThrow`, `ResolvedIsTestedAgain`, `EntriesResolved`, `JobEnds` |
| `DatTraverse` | trees with a join, a cycle, a missing name; 3 buses | `WalksOK` (walks against reachability), `RollupOK`, `LostOnlyInRace`, `WalksEnd` |
| `EventMatching` | 7 profiles of up to 3 events, 11 places | `LoadedOK` (filter and subscriptions exact), `ProductInOrder`, `DiscoveredAll`, `AssertedIsWitnessed`, `CompleteWhenStable`, `DeathIsMismatch` |

Two runs end in a violation: each checks one promise that is written in the repository, and
the counterexample is what the code does.

- `DeviceHealthSet`: `device-health-service/dbus.hpp:67` promises to return true "if could set
  this the value". `setDbusProperty` sets its result to true before the call, and an exception
  leaves it so: the device is not deferred.
- `EventDetectionSubType`: a recovery is to update the "log's Resolved DBus property"
  (`event_detection.hpp:268`), with the device as the "Phosphor logging namespace" (`:474`).
  `createLog` files the entry of an event with a sub type under `device_subType`
  (`message_composer.hpp:154-164`), and the schema admits a sub type together with a recovery.
  `RecoveryReachesItsLogs` leaves such entries out (`FiledApart`).

Other places where the code and what is written about it differ, met while modelling and
visible in the models:

- `util.cpp:557` promises "0 - succ; otherwise - fail" of `writeJson2File`. The write is not
  checked, so 0 is returned over a file that was truncated and not written in full, and the cache
  takes the severity over (`DeviceStatus!WriteLost`). This is why the invariants of `DeviceStatus`
  allow for `Cut`.
- `include/dbus_accessor.hpp:118` promises the truth about a Set, as the health service's header
  does; `dbus_accessor.cpp:308` sets `ret` before the call (`DbusAccess!BeforeCall`), so a Set
  that throws answers true.
- `eventing_main.cpp:233` says `-T` limits running and queued threads together; `_waiting`
  counts callers inside `try_acquire` only (`ThreadPool!WaitingExact`).
- `event_detection.hpp:56-58` lists a trigger whose fields do not match as a reason not to
  assert; an event found by its recovery is checked against that value all the same.
- `device_status_handler.hpp:117` says the highest severity is kept; it is compared before the
  lock is taken. `FileKeepsHighest` states when a lower one may replace it. A write that breaks off
  loses it whatever the severities are.
- `eventing_main.cpp:223-226` speaks of a minimal time between D-Bus calls; `createLog` and
  other calls made without `DelayedMethod` do not keep it. `CallsSpaced` is about delayed calls.
- `dbus_accessor.cpp:382-385` explains that a path needs any of the interfaces; the loop asks for
  all.
- `dat_traverse.hpp:291` and `:310` say the start is excluded from the result; `childTraverse`
  includes it, and `datToDbusAssociation` only leaves out the path itself, not the other paths
  of the device. `RollupOK` follows the code.
- In a circle of references a device is judged before its own test has ended, and passes; a
  dangling reference makes the tracer throw in its detached thread. `ReferencesAgree` and
  `TracerDoesNotThrow` name the trees for which neither happens.
- An API read for each device against a bitmap walks the mask once per read
  (`check_accessor.cpp:201`); the profiles of `EventMatching` use `device_id` `single` there.

### Bounds

- Five guards on two slots with cap two fill the slots and the places inside
  `try_acquire` and leave one to be refused; a further guard adds nothing that is not
  symmetric.
- `MaxChanges = 3` lets a fault, its recovery and the fault again be queued, in a queue
  of two that is full before the worker pops; with a queue of one, signals are dropped.
  Counts up to two and a bucket of two reach the limit and stay there. One slot for two guards
  is the pool at its limit; that several threads run at once changes the order of entries only,
  and the proofs are for every pool.
- `MaxErrors = 1` with two ids reaches the limit of asserted ids (50 in the code).
  Two paths make a partial failure; two devices share the timer.
- Two events at a time, one of which has two rollup names, make the vector grow while a
  reference is held, create duplicate entries, and let a write fail or break off before a lower
  event comes; two more follow a restart. Two threads are enough for one to wait for the lock
  while the other fails with it.
  `MaxRestarts = 1`: a second restart starts from a state of the same kind.

- `DbusAccess`: with two threads one holds the delayer while the other waits, sleeps or fails;
  a third would wait too. A bound of two units tells early, just in time and late apart.
- `Selftest`: three devices make chains, joins and circles of two and three references; the
  variants add a device without test points, a reference in the ignored layer and a dangling one.
  `ResolvedIsTestedAgain` ends where an item is pushed: the queue may still drop it when it is
  full (`event_detection.cpp:240`), which `EventDetection` covers.
- `DatTraverse`: walks without a visited set run in the cycle too, up to `MaxQueue` and
  `MaxResult`, which no walk of an acyclic tree of the instance reaches (otherwise `WalksEnd`
  would fail). A behaviour has walks or association passes; they share the tree only.
- `EventMatching`: two and three devices, patterns of one and two axes, masks of four bits
  (64 in the code), three changes: the signal, a change while it waits, one while the accessor
  is read. The queue of one makes the third signal drop. `DeathIsMismatch` is about exceptions
  from the evaluation of names; `NoBus`, `NoThread` and `NoNumber` of `EventDetection` end the
  worker too.

Runs whose bounds or whose one-shot threads let the system come to rest set
`CHECK_DEADLOCK FALSE` (`EventDetection*`, `DeviceStatus*`, `Selftest`, `DatTraverse`,
`EventMatching`).

### Fairness

- Pool: weak fairness of each guard's steps. Threads are scheduled; the wait in
  `try_acquire_for` ends by a slot or by its timeout; handlers run commands and D-Bus
  calls that have timeouts.
- Pipeline: weak fairness of the worker and of each event thread, and of
  `startWorkerThread`, which the dying worker posts to the main loop. Nothing is assumed
  of signals.
- Health service: weak fairness of the thread's own steps and of `Start` (the service
  manager restarts the daemon), strong fairness of the timer, which sd-event serves
  between messages. Bus, paths and crashes have none; `DeferredIsRetried` states what it
  needs of them.
- Device status: weak fairness of each thread that has begun.
- D-Bus access: weak fairness of a thread inside a call and of time; nothing is assumed of who
  gets the mutex, so no thread is promised its turn.
- Selftest and walks: weak fairness of the only thread there is; a read ends by an answer or
  a timeout. Nothing is assumed of other services.
- Event matching: none, its properties are safety.

## The proofs

`tlapm` checks every step. Each proof module EXTENDS the module it is about; a theorem about
an invariant combines `Init => Inv`, `Inv /\ [Next]_vars => Inv'` (one lemma per action) and
`Inv => Property`.

The assumptions are the named ones on the constants, which TLC evaluates in the runs:

| Assumption | Says |
|---|---|
| `LimitsAssumption`, `GuardsAssumption` (ThreadPool) | limits the constructor accepts; finitely many guards |
| `ProfileAssumption`, `TriggerCountAssumption`, `BoundAssumption` (EventDetection) | the profile is one the loader can build; counts and sizes are numbers |
| `SubTypeAssumption` (EventDetection) | a sub type is a string |
| `HealthAssumption` (DeviceHealthService) | a path belongs to one device; finitely many ids; the limit is positive |
| `BoundNat` (DbusAccess) | the bound is a number |
| `StatusAssumption` (DeviceStatus) | a device is associated with a list of names; there are three severities |
| `ProfilesAssumption`, `WorldAssumption`, `BoundAssumption` (EventMatching) | entries have accessors the schema admits and parsed patterns; a place that is signalled has a plain path and takes one of its variants; a selftest result names its device |
| `NoneIsNoName`, `TasksAssumption`, `WalksAssumption` (Dat, Selftest, DatTraverse) | finitely many names, listed in the order of the map; trees and buses are of their types. Circles, joins and missing names are all allowed |

**ThreadPoolProofs**, for every set of guards and every limits the constructor accepts.
The invariant `IInv` joins `TypeOK`, `SlotsConserved` and `WaitingExact`. They are needed
together: that the counter does not go below zero follows from its being the number of
callers inside, and the range of the semaphore from the slots that are out. From `IInv`
follow `RejectOnlyAtCap` (the value `fetch_add` returns is the number of the others
inside) and, step by step, the refinement of `BoundedSlots`.

**EventDetectionProofs**, for every profile, queue size, pool and number of signals.

- `PipelineTyped`: `TypeOK` is not inductive. A worker waiting for a slot must know what
  the thread is for (`KindOK`), or a thread of no kind would start.
- `LeakyBucket`: `LeakyBucketExact` speaks of reports; whether the next occurrence is
  reported depends on the bucket. `BucketInv` adds that the bucket holds the number of
  occurrences up to the trigger count. `BucketArithmetic` is the step, for limits from 0.
- `NoReportVanishes`: `ReportsAccounted` is inductive given types and `KindOK`; the proof
  follows a report from `IsEvent` to the waiting worker, to a thread, to an entry or to
  `lost`, with `ReportingCounts` for the size of the set of threads.
- `RecoveriesResolveTheEarlier`: `ResolvedByLaterRecovery` holds because the queue is in the
  order of the signals and neither a thread nor an entry knows of a signal that is still
  queued (`OrderInv`). This is what one worker for all detections buys.
- `RecoveriesReachTheirLogs`: `RecoveryReachesItsLogs` speaks of an idle pipeline. `RecoveryInv`
  says where an owed entry is before that: an item of the queue will find it, or the worker has
  it before it, or a D-Bus call that failed has kept it from being resolved (`excused`), or it is
  filed under a sub type, where no recovery looks.

**DbusAccessProofs**, for every set of threads and every bound. `DelayerInv` adds to `DelayerOK`
that exactly the threads between lock and end of call hold the mutex (`LockHeld`), that the
state of the delayer is the holder's (`StateOfHolder`), that the sleep makes up for what is
missing of the bound (`SleepSuffices`), and that a function has calls left while it is inside
(`CallsKept`). Without the first two a thread could find the delayer busy and take the undelayed
fallback. `CallsSpaced` follows.

**DeviceHealthProofs**, for every set of devices, paths and ids, every limit, both builds.
`StoreOK`, `TimerArmed` and `NeverImproves` rest on types and the limit alone.
`PublishedOrDeferred` speaks of the event loop; `PublishInv` adds what holds of a publication
half done (`JobKept`), of the devices it is not about (`OthersSettled`, `UnknownIsOK`), and of
the loops of `main` and `retryDeferredDevices` (`LoopsKept`), across crashes.

**DeviceStatusProofs**, for any number of threads, events and restarts. `CacheOK` and
`CompletedIsReported` speak of moments when nobody is in the middle of `process`. `StatusInv`
adds what a thread in the middle knows: which entry its reference is about (`RefersToName`),
that while it holds the lock the file stays as it left it, `Cut` or written (`WrittenStays`), what it owes
to the first device of its list (`FirstIsKept`). `HighestInv` adds, for `FileKeepsHighest`, what
the comparison before the lock still guarantees a thread that was alone with the file.

**SelftestProofs** and **DatTraverseProofs** begin with facts about the tree's operators: what
`FlattenSeq`, the test points, the parents and the order of the map contain, and how `Within`
unfolds. Recursive functions are used through the equation that defines them, once a solution is
shown to exist; induction is the least element of a set of numbers (`SmallestOf`) or of sets of
names. `SearchFinds` is the correctness of the search for the root cause: `SearchInv` says of it
after n turns that it has found each device once and in the order of their distance, and that
what the first n refer to is found; `Cardinality(Names)` turns are enough because each turn that
is needed finds one more.

**SelftestProofs**, for every tree and job. `TestsInv` ties the stack of calls, the reports and
the list of tested devices together: what is tested or being tested is in the report
(`TestedReported`), and a nested call waits at the test point that names it (`CallsNested`);
from it follows `NothingIsTestedTwice`. `EntriesInv` says of which entries `resolveLogEntry` has
decided, `BootInv` what the test of the whole tree still owes, for `EntriesResolved` and
`ResolvedIsTestedAgain`. `ReferencesAgreeWithDevices` needs `AgreeInv`: the calls are a path of
references (`StackIsPath`), so a result read before its device was done leads back to a device
of the path, which is the circle that `ReferencesAgree` excludes.

`TracerFindsEveryResult` joins two inductions. `RefsInv`: what a device of the report refers to
is in the report, except what a call under way has still to come to; so when no call is left
the report is closed under references. `SearchFinds`: what the search comes to is reached. For
`OriginAndHealthAreRight` the other half of `SearchFinds` is needed too, that the search finds
all that is reached, the nearest first: `findRootCauseGeneral` takes the last failed device it
is given, and that one is the most nested only because of this order.

**DatTraverseProofs**, for every tree, bus, and whatever happens on the bus meanwhile.
`ClosureIsLeast` shows that the reference definition is the least set that holds the start and
whatever follows its members, by induction on the names outside it.

- `WalksTyped`: types, and that a walk over the parents stays in the tree.
- `WalksDoTheirWork`: `WalksOK` speaks of a walk that is over. `ChildInv`, `SubInv` and `ParentInv`
  say of one under way that what follows a visited device is visited or waits to be, and that
  nothing else is; `ChildInv` also that a walk that threw has met a name the tree lacks.
  `OriginIsBelow` is inductive with them (`OriginInv`: origins are in the tree).
- `RollupIsRight`: `RollupComplete` speaks of the end of a pass. `PassInv` says which devices,
  and which paths of the current one, are done, by the mirror of that pass; it needs
  `ChildInv` at the moment the walk of a device ends.
- `OwnersEntriesStay`: what was read of a path misses only what its owner has added since, and
  the path is then in `raced` (`RaceInv`).

**EventMatchingProofs**, for every profile, world, and any number of changes and results. The
recursive functions of the model have bounded domains: `Recursion` shows that their equations have
a solution, and each is then known by its equation. `MatchingInvariant` is the conjunction of what
one part of the daemon leaves to the next.

- `EveryEventDiscovered`: `LoadInv` says of every prefix of the profile that the views have each of
  its events once. With `SameHash` (accessors that are equal have one hash) the multimaps find
  all that `==` finds; `joined` keeps them distinct. `QueueInv` carries this from `push` to `Pop`,
  and says where the data of an item can come from (`speaks`), which the worker needs.
- `TuplesInOrder`: `IteratorInv` is that the positions behind the current one have the digits of
  the master index in the mixed radix of the domain sizes (`digit`), and that what is left of it is
  the quotient. `NthReaches` and `NthInOrder` make the numbering a bijection onto the reference
  `domainOf` that keeps the order; `NthCounts` counts what is below.
- `LoadingIsRight`: the filter has what the accessors visited feed (`FilterInv`), the handlers have
  what the events visited ask for, each once (`HandlersInv`). `ListensIs` joins the two ways to say
  that an accessor covers a place: `==` on patterns and membership of the expanded path.
- `WorkerDiesOfMismatch`: `WorkerInv` says of a check that its indexes are tuples of its device type
  or of the path of its accessor or trigger (`isCheckOf`). A tuple of one pattern that is outside
  another of as many dimensions tells their domains apart (`OutsideIsMisfit`). The proof showed that
  the paths of the accessor and of the trigger must be compared too: the trigger's index is used to
  read the accessor, whatever the device type is.

Only model-checked:

- all liveness properties: fairness and ENABLED are out of the prover's reach;
- `AssertedIsWitnessed` and `CompleteWhenStable`: both compare a whole check, read by read, with the
  reference `Holds`. They hold of the run's profiles and not of every profile the constants
  admit, so neither is a theorem as it stands. `AssertedIsWitnessed` fails, for example, of a
  device type without a range whose event has a ranged trigger or accessor or reads a
  `DeviceCoreAPI` result, and, for a ranged device type, of a bitmap trigger followed by another
  accessor (the trigger's empty index goes with it to the first device asserted) and of a bitmap
  accessor after a ranged trigger. `CompleteWhenStable` fails of these and of more combinations,
  such as an alert trigger with an accessor that has no check key. A theorem would have to name
  the combinations as a hypothesis.

## Not modelled

- Real time: timeouts are choices, the 500 ms between two items are left out; the D-Bus delay
  is counted in units.
- The contents of log entries, messages, status files, reports and diagnostics beyond what a
  property tells apart.
- `bootUpEventsDetection` and `resetDeviceHealth` of the pipeline; the window before
  `startEventDetection` in which a result of the boot selftest would meet a null pointer.
- The grammar of device id patterns and of object paths (a pattern is modelled as parsed, a bracket
  as one range that is mapped to another), `isInjective`, `JsonPattern`.
- Message arguments and the accessor types only they use; `readUsingMainAccessor`.
- `DataAccessor` of types DEVICE, TEST, DIRECT and CONSTANT, except the reference of a test
  point to a device.
- `updateHealthBasedOnResults`, which nothing calls, `printBranch`, and all printing.
- The answers of `DirectObjectMapper` and the registration of D-Bus matches, which are the bus.
- JSON and schema processing, command line, logging and diagnostics mode are
  sequential code without lasting state. `message_dispatcher` is empty. `tools/` and
  `examples/` are run by hand or are data.
- Insertion in `DeviceStatus` stops at eight reallocations (`Grows`), more than any
  instance reaches.
