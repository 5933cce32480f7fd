------------------------ MODULE DeviceHealthService ------------------------
(***************************************************************************)
(* The device health service (device-health-service/): a single-threaded   *)
(* D-Bus daemon that keeps, in a memory-mapped file, the asserted error    *)
(* ids of every device, and publishes the health they imply on the object  *)
(* paths of the device.  A publication that fails is deferred and retried  *)
(* by a timer.  After a crash the file is all that is left.                *)
(*                                                                         *)
(* Publishing makes one D-Bus call per object path.  Between two calls the *)
(* services that host the paths come and go, and the daemon may crash.     *)
(***************************************************************************)
EXTENDS Naturals, FiniteSets

CONSTANTS
    Devices,     \* device names
    ErrorIds,    \* event ids of acceptable length
    Paths,       \* D-Bus object paths with the Health interface
    PathsOf,     \* the object paths of each device
    MaxErrors,   \* MAX_ASSERTED_ERROR_IDS_PER_DEV_SEV
    DeassertLog  \* built with both deassertion options

ASSUME HealthAssumption ==
    /\ PathsOf \in [Devices -> SUBSET Paths]
    /\ \A d, e \in Devices : d # e => PathsOf[d] \cap PathsOf[e] = {}
    /\ MaxErrors \in Nat \ {0}
    /\ DeassertLog \in BOOLEAN
    /\ IsFiniteSet(ErrorIds)

VARIABLES
    \* in the mapped file
    known,    \* the devices assertedEventsMap has an entry for
    crit,     \* criticalErrors of each device
    warn,     \* warningErrors of each device
    \* in the process
    proc,     \* what the process is doing
    why,      \* which caller of setDeviceHealth is publishing
    job,      \* the publication in progress: device, health, paths left, allSuccess
    pending,  \* devices the caller's loop has still to visit
    deferred, \* deferredDeviceSet
    timerOn,  \* deferredDeviceUpdateTimer is enabled
    \* on the bus
    present,  \* the object paths that exist now
    pub,      \* the Health property of each of them
    busOk,    \* mapper and property calls succeed
    \* for the properties only
    fresh,    \* paths created since the service last set them
    swallowed \* paths whose last Set call failed and was reported as done

fileVars == <<known, crit, warn>>
procVars == <<proc, why, job, pending, deferred, timerOn>>
busVars == <<present, pub, busOk>>
ghosts == <<fresh, swallowed>>
vars == <<fileVars, procVars, busVars, ghosts>>

Healths == {"OK", "Warning", "Critical"}

\* The InterfacesAdded messages of the logging service: a field may be
\* missing, and an event id may be longer than MAX_ERROR_ID_LENGTH.
Messages ==
    [sev : {"Critical", "Warning", "Informational", "none"},
     id : ErrorIds \cup {"long", "none"},
     resolved : {"true", "false", "none"},
     dev : Devices \cup {"none"}]

\* lookup: about to ask the mapper for the device's paths; set: calling Set.
Procs == {"down", "boot", "idle", "retry", "lookup", "set"}

Jobs == [dev : Devices, health : Healths, todo : SUBSET Paths, ok : BOOLEAN]

NoJob == [todo |-> {}, ok |-> TRUE]

TypeOK ==
    /\ known \subseteq Devices
    /\ crit \in [Devices -> SUBSET ErrorIds]
    /\ warn \in [Devices -> SUBSET ErrorIds]
    /\ proc \in Procs
    /\ why \in {"boot", "event", "retry"}
    /\ proc \in {"lookup", "set"} => job \in Jobs
    /\ pending \subseteq Devices
    /\ deferred \subseteq Devices
    /\ timerOn \in BOOLEAN
    /\ present \subseteq Paths
    /\ pub \in [Paths -> Healths]
    /\ busOk \in BOOLEAN
    /\ fresh \subseteq Paths
    /\ swallowed \subseteq Paths

\* The file does not exist yet; no hosting service has started.
Init ==
    /\ known = {}
    /\ crit = [d \in Devices |-> {}]
    /\ warn = [d \in Devices |-> {}]
    /\ proc = "down"
    /\ why = "boot"
    /\ job = NoJob
    /\ pending = {}
    /\ deferred = {}
    /\ timerOn = FALSE
    /\ present = {}
    /\ pub = [p \in Paths |-> "OK"]
    /\ busOk = TRUE
    /\ fresh = {}
    /\ swallowed = {}

-----------------------------------------------------------------------------
(* computeHealthForDevice and the file                                     *)

\* A device without an entry has no errors, so it computes as OK.
HealthOf(c, w) ==
    IF c # {} THEN "Critical" ELSE IF w # {} THEN "Warning" ELSE "OK"

computeHealthForDevice(d) == HealthOf(crit[d], warn[d])

\* Mutant: the limit lets one more id in.
AtLimitOffByOne(errors) == Cardinality(errors) > MaxErrors

AtLimit(errors) == Cardinality(errors) >= MaxErrors

\* Begin updateDeviceHealth: the health is computed before any D-Bus call.
\* c and w are the error sets after the change that leads to it.
StartPublish(d, c, w, caller) ==
    /\ proc' = "lookup"
    /\ why' = caller
    /\ job' = [dev |-> d, health |-> HealthOf(c, w), todo |-> {}, ok |-> TRUE]

-----------------------------------------------------------------------------
(* interfacesAddedCallback                                                 *)

\* The checks before the "core logic" comment.
Accepted(m) ==
    /\ m.sev # "none"
    /\ m.id \in ErrorIds
    /\ m.resolved # "none"
    /\ m.dev \in Devices

\* Mutant: the removal is compiled in whatever the build options say.
RemoveErrorAlways(m) ==
    /\ proc = "idle"
    /\ Accepted(m)
    /\ m.resolved = "true"
    /\ crit' = [crit EXCEPT ![m.dev] = @ \ {m.id}]
    /\ warn' = [warn EXCEPT ![m.dev] = @ \ {m.id}]
    /\ StartPublish(m.dev, crit[m.dev] \ {m.id}, warn[m.dev] \ {m.id}, "event")
    /\ UNCHANGED <<known, pending, deferred, timerOn, busVars, ghosts>>

\* A log entry that says Resolved: the id leaves both sets of the device.
RemoveError(m) ==
    /\ proc = "idle"
    /\ Accepted(m)
    /\ m.resolved = "true"
    /\ DeassertLog
    /\ crit' = [crit EXCEPT ![m.dev] = @ \ {m.id}]
    /\ warn' = [warn EXCEPT ![m.dev] = @ \ {m.id}]
    /\ StartPublish(m.dev, crit[m.dev] \ {m.id}, warn[m.dev] \ {m.id}, "event")
    /\ UNCHANGED <<known, pending, deferred, timerOn, busVars, ghosts>>

AddCriticalError(m) ==
    /\ proc = "idle"
    /\ Accepted(m)
    /\ m.resolved = "false"
    /\ m.sev = "Critical"
    /\ known' = known \cup {m.dev}
    /\ IF AtLimit(crit[m.dev])
       THEN UNCHANGED <<crit, procVars>>
       ELSE /\ crit' = [crit EXCEPT ![m.dev] = @ \cup {m.id}]
            /\ StartPublish(m.dev, crit[m.dev] \cup {m.id}, warn[m.dev],
                            "event")
            /\ UNCHANGED <<pending, deferred, timerOn>>
    /\ UNCHANGED <<warn, busVars, ghosts>>

AddWarningError(m) ==
    /\ proc = "idle"
    /\ Accepted(m)
    /\ m.resolved = "false"
    /\ m.sev = "Warning"
    /\ known' = known \cup {m.dev}
    /\ IF AtLimit(warn[m.dev])
       THEN UNCHANGED <<warn, procVars>>
       ELSE /\ warn' = [warn EXCEPT ![m.dev] = @ \cup {m.id}]
            /\ StartPublish(m.dev, crit[m.dev], warn[m.dev] \cup {m.id},
                            "event")
            /\ UNCHANGED <<pending, deferred, timerOn>>
    /\ UNCHANGED <<crit, busVars, ghosts>>

\* Every early return: a field is missing or too long, a Resolved entry in a
\* build that does not deassert, a severity that is not counted.
IgnoreMessage(m) ==
    /\ proc = "idle"
    /\ \/ ~Accepted(m)
       \/ m.resolved = "true" /\ ~DeassertLog
       \/ m.resolved = "false" /\ m.sev = "Informational"
    /\ UNCHANGED vars

\* The process ends and forgets all but the file.
Die ==
    /\ proc' = "down"
    /\ why' = "boot"
    /\ job' = NoJob
    /\ pending' = {}
    /\ deferred' = {}
    /\ timerOn' = FALSE

\* The mapped file is full: growRegion fails, or the one retry does not fit
\* either.  The exception ends the process; of the two insertions only the
\* device's empty entry may be in the file.
StoreAborts(m) ==
    /\ proc = "idle"
    /\ Accepted(m)
    /\ m.resolved = "false"
    /\ m.sev \in {"Critical", "Warning"}
    /\ known' \in {known, known \cup {m.dev}}
    /\ Die
    /\ UNCHANGED <<crit, warn, busVars, ghosts>>

-----------------------------------------------------------------------------
(* dbus::setDeviceHealth                                                   *)

\* The caller's loop goes on: main visits the remaining devices and enters
\* the event loop, retryDeferredDevices visits the rest of its set.
Resume == CASE why = "boot"  -> "boot"
            [] why = "retry" -> "retry"
            [] OTHER         -> "idle"

\* Mutant: the device is deferred but the timer is not enabled again.
PublishFailedTimerOff ==
    /\ proc' = Resume
    /\ deferred' = IF why = "retry" THEN deferred ELSE deferred \cup {job.dev}
    /\ job' = NoJob
    /\ UNCHANGED <<why, pending, timerOn>>

\* setDeviceHealth returned false.  A retried device stays in the set;
\* otherwise addDeferredDevice inserts it and makes sure the timer runs.
PublishFailed ==
    /\ proc' = Resume
    /\ IF why = "retry"
       THEN UNCHANGED <<deferred, timerOn>>
       ELSE /\ deferred' = deferred \cup {job.dev}
            /\ timerOn' = TRUE
    /\ job' = NoJob
    /\ UNCHANGED <<why, pending>>

\* setDeviceHealth returned true: a retried device leaves the set.
PublishDone ==
    /\ proc' = Resume
    /\ deferred' = IF why = "retry" THEN deferred \ {job.dev} ELSE deferred
    /\ job' = NoJob
    /\ UNCHANGED <<why, pending, timerOn>>

\* getAllDevIdObjPaths fails or finds nothing.
LookupFails ==
    /\ proc = "lookup"
    /\ ~busOk \/ PathsOf[job.dev] \cap present = {}
    /\ PublishFailed
    /\ UNCHANGED <<fileVars, busVars, ghosts>>

LookupPaths ==
    /\ proc = "lookup"
    /\ PathsOf[job.dev] \cap present # {}
    /\ proc' = "set"
    /\ job' = [job EXCEPT !.todo = PathsOf[job.dev] \cap present]
    /\ UNCHANGED <<fileVars, why, pending, deferred, timerOn, busVars, ghosts>>

SetPath(p) ==
    /\ proc = "set"
    /\ p \in job.todo
    /\ p \in present
    /\ pub' = [pub EXCEPT ![p] = job.health]
    /\ job' = [job EXCEPT !.todo = @ \ {p}]
    /\ fresh' = fresh \ {p}
    /\ swallowed' = swallowed \ {p}
    /\ UNCHANGED <<fileVars, proc, why, pending, deferred, timerOn, present,
                   busOk>>

\* Mutant: a failed path does not make the whole publication fail.
SetPathFailsUnnoticed(p) ==
    /\ proc = "set"
    /\ p \in job.todo
    /\ ~busOk \/ p \notin present
    /\ job' = [job EXCEPT !.todo = @ \ {p}]
    /\ UNCHANGED <<fileVars, proc, why, pending, deferred, timerOn, busVars,
                   ghosts>>

\* getService found no owner, so the method call cannot be made: false.
SetPathFails(p) ==
    /\ proc = "set"
    /\ p \in job.todo
    /\ ~busOk \/ p \notin present
    /\ job' = [job EXCEPT !.todo = @ \ {p}, !.ok = FALSE]
    /\ UNCHANGED <<fileVars, proc, why, pending, deferred, timerOn, busVars,
                   ghosts>>

\* The Set call itself throws.  setDbusProperty has already put true in ret,
\* and its handler only logs, so the caller sees success.
SetPathThrows(p) ==
    /\ proc = "set"
    /\ p \in job.todo
    /\ ~busOk
    /\ job' = [job EXCEPT !.todo = @ \ {p}]
    /\ swallowed' = swallowed \cup {p}
    /\ UNCHANGED <<fileVars, proc, why, pending, deferred, timerOn, busVars,
                   fresh>>

FinishPublish ==
    /\ proc = "set"
    /\ job.todo = {}
    /\ IF job.ok THEN PublishDone ELSE PublishFailed
    /\ UNCHANGED <<fileVars, busVars, ghosts>>

-----------------------------------------------------------------------------
(* retryDeferredDevices                                                    *)

\* The timer expires in the event loop; the loop visits the whole set.
TimerFires ==
    /\ proc = "idle"
    /\ timerOn
    /\ proc' = "retry"
    /\ pending' = deferred
    /\ UNCHANGED <<fileVars, why, job, deferred, timerOn, busVars, ghosts>>

RetryDevice(d) ==
    /\ proc = "retry"
    /\ d \in pending
    /\ pending' = pending \ {d}
    /\ StartPublish(d, crit[d], warn[d], "retry")
    /\ UNCHANGED <<fileVars, deferred, timerOn, busVars, ghosts>>

\* Mutant: the timer is disabled after every retry.
RetryEndsTimerOff ==
    /\ proc = "retry"
    /\ pending = {}
    /\ proc' = "idle"
    /\ timerOn' = FALSE
    /\ UNCHANGED <<fileVars, why, job, pending, deferred, busVars, ghosts>>

RetryEnds ==
    /\ proc = "retry"
    /\ pending = {}
    /\ proc' = "idle"
    /\ timerOn' = (timerOn /\ deferred # {})
    /\ UNCHANGED <<fileVars, why, job, pending, deferred, busVars, ghosts>>

-----------------------------------------------------------------------------
(* main, crashes, and the services that host the paths                     *)

\* The timer is made with an interval, which enables it.
Start ==
    /\ proc = "down"
    /\ proc' = "boot"
    /\ pending' = known
    /\ timerOn' = TRUE
    /\ UNCHANGED <<fileVars, why, job, deferred, busVars, ghosts>>

BootDevice(d) ==
    /\ proc = "boot"
    /\ d \in pending
    /\ pending' = pending \ {d}
    /\ StartPublish(d, crit[d], warn[d], "boot")
    /\ UNCHANGED <<fileVars, deferred, timerOn, busVars, ghosts>>

\* Subscribe to InterfacesAdded and enter the event loop.
BootEnds ==
    /\ proc = "boot"
    /\ pending = {}
    /\ proc' = "idle"
    /\ UNCHANGED <<fileVars, why, job, pending, deferred, timerOn, busVars,
                   ghosts>>

Crash ==
    /\ proc # "down"
    /\ Die
    /\ UNCHANGED <<fileVars, busVars, ghosts>>

\* A hosting service creates a path; its Health starts as OK.
HostUp(p) ==
    /\ p \notin present
    /\ present' = present \cup {p}
    /\ pub' = [pub EXCEPT ![p] = "OK"]
    /\ fresh' = fresh \cup {p}
    /\ swallowed' = swallowed \ {p}
    /\ UNCHANGED <<fileVars, procVars, busOk>>

HostDown(p) ==
    /\ p \in present
    /\ present' = present \ {p}
    /\ pub' = [pub EXCEPT ![p] = "OK"]
    /\ fresh' = fresh \ {p}
    /\ swallowed' = swallowed \ {p}
    /\ UNCHANGED <<fileVars, procVars, busOk>>

\* Calls start to fail, or succeed again.
BusTurns ==
    /\ busOk' = ~busOk
    /\ UNCHANGED <<fileVars, procVars, present, pub, ghosts>>

-----------------------------------------------------------------------------
HandleMessage(m) ==
    \/ RemoveError(m) \/ AddCriticalError(m) \/ AddWarningError(m)
    \/ IgnoreMessage(m) \/ StoreAborts(m)

Publish ==
    \/ LookupFails \/ LookupPaths \/ FinishPublish
    \/ \E p \in Paths : SetPath(p) \/ SetPathFails(p) \/ SetPathThrows(p)

Loop == RetryEnds \/ BootEnds \/ \E d \in Devices : RetryDevice(d) \/ BootDevice(d)

Environment == Crash \/ BusTurns \/ \E p \in Paths : HostUp(p) \/ HostDown(p)

Next ==
    \/ \E m \in Messages : HandleMessage(m)
    \/ Publish
    \/ Loop
    \/ TimerFires
    \/ Start
    \/ Environment

Spec == Init /\ [][Next]_vars

\* The daemon's one thread runs; sd-event serves a pending timer even while
\* messages keep arriving, hence strong fairness; the service manager
\* restarts a daemon that died.
Fairness ==
    /\ WF_vars(Publish)
    /\ WF_vars(Loop)
    /\ WF_vars(Start)
    /\ SF_vars(TimerFires)

FairSpec == Spec /\ Fairness

-----------------------------------------------------------------------------
(* Properties                                                              *)

\* When the daemon waits in its event loop, every path of a device shows the
\* health its errors imply, unless the device is deferred, the path was
\* created after the last publication, or its Set call was reported as done
\* though it threw.  Crashes between storing and publishing, paths that
\* vanish between the lookup and the Set, and partial failures are covered.
PublishedOrDeferred ==
    proc = "idle" =>
        \A d \in Devices \ deferred :
            \A p \in (PathsOf[d] \cap present) \ (fresh \cup swallowed) :
                pub[p] = computeHealthForDevice(d)

\* A deferred device is never forgotten: as long as one is in the set the
\* timer that retries it is enabled, in the middle of a retry too.
TimerArmed == deferred # {} => timerOn

\* No device collects more ids of one severity than the limit.
ErrorsBounded ==
    \A d \in Devices : /\ Cardinality(crit[d]) <= MaxErrors
                       /\ Cardinality(warn[d]) <= MaxErrors

\* The mapped file, the job and the deferred set are as the code keeps them,
\* on every path through a callback that is cut short.
StoreOK == TypeOK /\ ErrorsBounded

Rank == [h \in Healths |-> CASE h = "OK" -> 0 [] h = "Warning" -> 1
                             [] OTHER -> 2]

\* Without deassertion the health a device computes to never improves, over
\* crashes, restarts and full files too.
NeverImproves ==
    [][DeassertLog \/ \A d \in Devices :
         Rank[computeHealthForDevice(d)'] >= Rank[computeHealthForDevice(d)]]_vars

\* A deferred device is published once the daemon stays up, calls succeed and
\* the device has a path that stays.
DeferredIsRetried ==
    \A d \in Devices :
        (/\ <>[](proc # "down")
         /\ <>[]busOk
         /\ \E p \in PathsOf[d] : <>[](p \in present)
         /\ \A p \in PathsOf[d] : <>[](p \in present) \/ <>[](p \notin present))
        => (d \in deferred ~> d \notin deferred)

\* setDbusProperty: "@return true if could set this the value from 'val',
\* false otherwise".  Then a path that exists since the last publication
\* shows the right health unless its device is deferred.
SetReportsTruth ==
    proc = "idle" =>
        \A d \in Devices \ deferred :
            \A p \in (PathsOf[d] \cap present) \ fresh :
                pub[p] = computeHealthForDevice(d)

=============================================================================
