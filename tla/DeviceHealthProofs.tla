------------------------- MODULE DeviceHealthProofs -------------------------
(***************************************************************************)
(* Proofs about DeviceHealthService for every set of devices, paths and    *)
(* ids, every limit, and both builds.                                      *)
(*                                                                         *)
(* The types, the limit and the timer are inductive as they stand.         *)
(* PublishedOrDeferred speaks of the event loop only; PublishInv says what *)
(* is true of a publication half done, of the loops of main and of         *)
(* retryDeferredDevices, and of what a crash leaves behind.                *)
(***************************************************************************)
EXTENDS DeviceHealthService, FiniteSetTheorems, TLAPS

Publishing == proc \in {"lookup", "set"}

\* Every path of the device shows its health, but for those the property
\* leaves out.
Settled(d) ==
    \A p \in (PathsOf[d] \cap present) \ (fresh \cup swallowed) :
        pub[p] = computeHealthForDevice(d)

\* The devices that may show something else: they are deferred, or the loop
\* has still to visit them, or they are being published.
Unsettled == deferred \cup pending \cup {d \in Devices : Publishing /\ d = job.dev}

\* What the process knows: once it is up every other device is settled.
OthersSettled == proc # "down" => \A d \in Devices \ Unsettled : Settled(d)

\* The loops: outside of them nothing is left to visit; a retry visits
\* deferred devices, which stay in the set until they are published.
LoopsKept ==
    /\ proc \in {"down", "idle"} => pending = {}
    /\ Publishing /\ why = "event" => pending = {}
    /\ proc = "retry" => pending \subseteq deferred
    /\ Publishing /\ why = "retry" => pending \cup {job.dev} \subseteq deferred
    /\ Publishing => job.dev \notin pending

\* The publication in progress: its health is what the file implies, and if
\* no call has failed so far the paths already set show it.
JobKept ==
    /\ Publishing => job.health = computeHealthForDevice(job.dev)
    /\ proc = "set" => job.todo \subseteq PathsOf[job.dev]
    /\ proc = "set" /\ job.ok =>
          \A p \in (PathsOf[job.dev] \cap present)
                       \ (fresh \cup swallowed \cup job.todo) :
              pub[p] = job.health

\* What main relies on after a crash: a device the file does not know has no
\* errors and was never shown as anything but OK.
UnknownIsOK ==
    \A d \in Devices \ known :
        /\ crit[d] = {} /\ warn[d] = {}
        /\ \A p \in PathsOf[d] : pub[p] = "OK"

PublishInv == OthersSettled /\ LoopsKept /\ JobKept /\ UnknownIsOK

-----------------------------------------------------------------------------
(* Types                                                                   *)

LEMMA InitTyped == Init => TypeOK
  BY DEF Init, TypeOK, Procs, Healths, NoJob

\* The health of a device is one of the three, and a publication that starts
\* has a job of the right shape.
LEMMA HealthTyped ==
    ASSUME NEW c, NEW w
    PROVE  HealthOf(c, w) \in Healths
  BY DEF HealthOf, Healths

LEMMA StartTyped ==
    ASSUME NEW d \in Devices, NEW c, NEW w, NEW caller,
           StartPublish(d, c, w, caller)
    PROVE  job' \in Jobs /\ proc' \in Procs
  BY HealthTyped DEF StartPublish, Jobs, Procs

LEMMA ResumeTyped == Resume \in {"boot", "retry", "idle"}
  BY DEF Resume

LEMMA MessageTyped ==
    ASSUME TypeOK, NEW m \in Messages, HandleMessage(m)
    PROVE  TypeOK'
<1>1. CASE RemoveError(m)
  BY <1>1, StartTyped
     DEF RemoveError, Accepted, StartPublish, TypeOK, busVars, ghosts
<1>2. CASE AddCriticalError(m)
  BY <1>2, StartTyped
     DEF AddCriticalError, Accepted, StartPublish, TypeOK, procVars, busVars,
         ghosts
<1>3. CASE AddWarningError(m)
  BY <1>3, StartTyped
     DEF AddWarningError, Accepted, StartPublish, TypeOK, procVars, busVars,
         ghosts
<1>4. CASE IgnoreMessage(m)
  BY <1>4 DEF IgnoreMessage, TypeOK, vars, fileVars, procVars, busVars, ghosts
<1>5. CASE StoreAborts(m)
  BY <1>5 DEF StoreAborts, Accepted, Die, TypeOK, Procs, busVars, ghosts
<1> QED
  BY <1>1, <1>2, <1>3, <1>4, <1>5 DEF HandleMessage

LEMMA PublishTyped ==
    ASSUME TypeOK, Publish
    PROVE  TypeOK'
<1>1. CASE LookupFails
  BY <1>1, ResumeTyped
     DEF LookupFails, PublishFailed, TypeOK, Procs, Jobs, fileVars, busVars,
         ghosts
<1>2. CASE LookupPaths
  BY <1>2 DEF LookupPaths, TypeOK, Procs, Jobs, fileVars, busVars, ghosts
<1>3. CASE FinishPublish
  BY <1>3, ResumeTyped
     DEF FinishPublish, PublishDone, PublishFailed, TypeOK, Procs, Jobs,
         fileVars, busVars, ghosts
<1>4. ASSUME NEW p \in Paths, SetPath(p) \/ SetPathFails(p) \/ SetPathThrows(p)
      PROVE  TypeOK'
  BY <1>4 DEF SetPath, SetPathFails, SetPathThrows, TypeOK, Procs, Jobs,
              fileVars, busVars, ghosts
<1> QED
  BY <1>1, <1>2, <1>3, <1>4 DEF Publish

LEMMA LoopTyped ==
    ASSUME TypeOK, Loop \/ TimerFires \/ Start
    PROVE  TypeOK'
<1>1. CASE RetryEnds \/ BootEnds \/ TimerFires \/ Start
  BY <1>1 DEF RetryEnds, BootEnds, TimerFires, Start, TypeOK, Procs, fileVars,
              busVars, ghosts
<1>2. ASSUME NEW d \in Devices, RetryDevice(d) \/ BootDevice(d)
      PROVE  TypeOK'
  BY <1>2, StartTyped
     DEF RetryDevice, BootDevice, StartPublish, TypeOK, fileVars, busVars,
         ghosts
<1> QED
  BY <1>1, <1>2 DEF Loop

LEMMA EnvironmentTyped ==
    ASSUME TypeOK, Environment
    PROVE  TypeOK'
<1>1. CASE Crash
  BY <1>1 DEF Crash, Die, TypeOK, Procs, fileVars, busVars, ghosts
<1>2. CASE BusTurns
  BY <1>2 DEF BusTurns, TypeOK, fileVars, procVars, ghosts
<1>3. ASSUME NEW p \in Paths, HostUp(p) \/ HostDown(p)
      PROVE  TypeOK'
  BY <1>3 DEF HostUp, HostDown, TypeOK, Healths, fileVars, procVars
<1> QED
  BY <1>1, <1>2, <1>3 DEF Environment

LEMMA NextTyped == TypeOK /\ [Next]_vars => TypeOK'
<1> SUFFICES ASSUME TypeOK, [Next]_vars PROVE TypeOK'
  OBVIOUS
<1>1. CASE UNCHANGED vars
  BY <1>1 DEF TypeOK, vars, fileVars, procVars, busVars, ghosts
<1> QED
  BY <1>1, MessageTyped, PublishTyped, LoopTyped, EnvironmentTyped DEF Next

\* The file, the deferred set, the job in progress and the published healths
\* are of the kinds the code keeps, whatever fails and whenever it dies.
THEOREM HealthTypes == Spec => []TypeOK
  BY InitTyped, NextTyped, PTL DEF Spec

-----------------------------------------------------------------------------
(* The limit of asserted ids                                               *)

\* One more id in a set below the limit.
LEMMA OneMoreFits ==
    ASSUME NEW errors \in SUBSET ErrorIds, NEW id, ~AtLimit(errors)
    PROVE  Cardinality(errors \cup {id}) <= MaxErrors
<1>1. IsFiniteSet(errors) /\ Cardinality(errors) \in Nat
  BY HealthAssumption, FS_Subset, FS_CardinalityType
<1>2. Cardinality(errors) + 1 <= MaxErrors
  BY <1>1, HealthAssumption DEF AtLimit
<1>3. \/ Cardinality(errors \cup {id}) = Cardinality(errors)
      \/ Cardinality(errors \cup {id}) = Cardinality(errors) + 1
  BY <1>1, FS_AddElement
<1> QED
  BY <1>1, <1>2, <1>3, HealthAssumption

LEMMA OneLessFits ==
    ASSUME NEW errors \in SUBSET ErrorIds, NEW id,
           Cardinality(errors) <= MaxErrors
    PROVE  Cardinality(errors \ {id}) <= MaxErrors
<1>1. IsFiniteSet(errors) /\ errors \ {id} \subseteq errors
  BY HealthAssumption, FS_Subset
<1>2. /\ Cardinality(errors \ {id}) <= Cardinality(errors)
      /\ Cardinality(errors) \in Nat /\ Cardinality(errors \ {id}) \in Nat
  BY <1>1, FS_Subset, FS_CardinalityType
<1> QED
  BY <1>2, HealthAssumption

\* The steps that change the sets are those of the callback.
LEMMA OnlyMessagesStore ==
    [Next]_vars => \/ \E m \in Messages :
                         \/ RemoveError(m) \/ AddCriticalError(m)
                         \/ AddWarningError(m)
                   \/ UNCHANGED <<crit, warn>>
<1> SUFFICES ASSUME Next, ~(\E m \in Messages :
                              \/ RemoveError(m) \/ AddCriticalError(m)
                              \/ AddWarningError(m))
             PROVE  UNCHANGED <<crit, warn>>
  BY DEF vars, fileVars
<1>1. ASSUME NEW m \in Messages, HandleMessage(m)
      PROVE  UNCHANGED <<crit, warn>>
  BY <1>1 DEF HandleMessage, IgnoreMessage, StoreAborts, vars, fileVars
<1>2. CASE Publish
  BY <1>2 DEF Publish, LookupFails, LookupPaths, FinishPublish, SetPath,
              SetPathFails, SetPathThrows, fileVars
<1>3. CASE Loop \/ TimerFires \/ Start
  BY <1>3 DEF Loop, RetryEnds, BootEnds, RetryDevice, BootDevice, TimerFires,
              Start, fileVars
<1>4. CASE Environment
  BY <1>4 DEF Environment, Crash, BusTurns, HostUp, HostDown, fileVars
<1> QED
  BY <1>1, <1>2, <1>3, <1>4 DEF Next

\* What a step does to the sets of a device.
LEMMA StoreEffects ==
    ASSUME TypeOK, [Next]_vars, NEW d \in Devices
    PROVE  \/ crit'[d] = crit[d] /\ warn'[d] = warn[d]
           \/ \E id \in ErrorIds :
                /\ DeassertLog
                /\ crit'[d] = crit[d] \ {id} /\ warn'[d] = warn[d] \ {id}
           \/ \E id \in ErrorIds :
                /\ ~AtLimit(crit[d])
                /\ crit'[d] = crit[d] \cup {id} /\ warn'[d] = warn[d]
           \/ \E id \in ErrorIds :
                /\ ~AtLimit(warn[d])
                /\ warn'[d] = warn[d] \cup {id} /\ crit'[d] = crit[d]
<1>1. ASSUME NEW m \in Messages, RemoveError(m)
      PROVE  /\ m.id \in ErrorIds /\ DeassertLog
             /\ \/ crit'[d] = crit[d] /\ warn'[d] = warn[d]
                \/ crit'[d] = crit[d] \ {m.id} /\ warn'[d] = warn[d] \ {m.id}
  BY <1>1 DEF RemoveError, Accepted, TypeOK
<1>2. ASSUME NEW m \in Messages, AddCriticalError(m)
      PROVE  /\ m.id \in ErrorIds
             /\ warn'[d] = warn[d]
             /\ \/ crit'[d] = crit[d]
                \/ crit'[d] = crit[d] \cup {m.id} /\ ~AtLimit(crit[d])
  BY <1>2 DEF AddCriticalError, Accepted, TypeOK
<1>3. ASSUME NEW m \in Messages, AddWarningError(m)
      PROVE  /\ m.id \in ErrorIds
             /\ crit'[d] = crit[d]
             /\ \/ warn'[d] = warn[d]
                \/ warn'[d] = warn[d] \cup {m.id} /\ ~AtLimit(warn[d])
  BY <1>3 DEF AddWarningError, Accepted, TypeOK
<1> QED
  BY <1>1, <1>2, <1>3, OnlyMessagesStore

LEMMA NextBounded ==
    TypeOK /\ ErrorsBounded /\ [Next]_vars => ErrorsBounded'
<1> SUFFICES ASSUME TypeOK, ErrorsBounded, [Next]_vars, NEW d \in Devices
             PROVE  /\ Cardinality(crit'[d]) <= MaxErrors
                    /\ Cardinality(warn'[d]) <= MaxErrors
  BY DEF ErrorsBounded
<1>1. /\ crit[d] \in SUBSET ErrorIds /\ Cardinality(crit[d]) <= MaxErrors
      /\ warn[d] \in SUBSET ErrorIds /\ Cardinality(warn[d]) <= MaxErrors
  BY DEF TypeOK, ErrorsBounded
<1> QED
  BY <1>1, StoreEffects, OneMoreFits, OneLessFits

(* The mapped file, the job and the deferred set are well formed in every  *)
(* state, and no device collects more ids of a severity than the limit,    *)
(* over crashes and aborted insertions too.                                *)
THEOREM StoreIsBounded == Spec => []StoreOK
<1>1. Init => ErrorsBounded
  BY FS_EmptySet, HealthAssumption DEF Init, ErrorsBounded
<1> QED
  BY <1>1, InitTyped, NextTyped, NextBounded, PTL DEF Spec, StoreOK

-----------------------------------------------------------------------------
(* The retry timer                                                         *)

LEMMA NextArmed == TypeOK /\ TimerArmed /\ [Next]_vars => TimerArmed'
<1> SUFFICES ASSUME TypeOK, TimerArmed, [Next]_vars PROVE TimerArmed'
  OBVIOUS
<1> USE DEF TimerArmed, TypeOK
<1>1. CASE UNCHANGED vars
  BY <1>1 DEF vars, procVars
<1>2. ASSUME NEW m \in Messages, HandleMessage(m) PROVE TimerArmed'
  BY <1>2 DEF HandleMessage, RemoveError, AddCriticalError, AddWarningError,
              IgnoreMessage, StoreAborts, Die, vars, procVars
<1>3. CASE Publish
  BY <1>3 DEF Publish, LookupFails, LookupPaths, FinishPublish, SetPath,
              SetPathFails, SetPathThrows, PublishDone, PublishFailed
<1>4. CASE Loop \/ TimerFires \/ Start
  BY <1>4 DEF Loop, RetryEnds, BootEnds, RetryDevice, BootDevice, TimerFires,
              Start
<1>5. CASE Environment
  BY <1>5 DEF Environment, Crash, Die, BusTurns, HostUp, HostDown, procVars
<1> QED
  BY <1>1, <1>2, <1>3, <1>4, <1>5 DEF Next

(* As long as a device is deferred the timer that retries it is enabled.   *)
THEOREM TimerStaysArmed == Spec => []TimerArmed
<1>1. Init => TimerArmed
  BY DEF Init, TimerArmed
<1> QED
  BY <1>1, NextArmed, HealthTypes, PTL DEF Spec

-----------------------------------------------------------------------------
(* The build without deassertion                                           *)

\* More errors never make a device healthier.
LEMMA HealthMonotone ==
    ASSUME NEW c1, NEW c2, NEW w1, NEW w2, c1 \subseteq c2, w1 \subseteq w2
    PROVE  Rank[HealthOf(c2, w2)] >= Rank[HealthOf(c1, w1)]
<1>1. Rank["OK"] = 0 /\ Rank["Warning"] = 1 /\ Rank["Critical"] = 2
  BY DEF Rank, Healths
<1> QED
  BY <1>1 DEF HealthOf

(* Without deassertion the health a device computes to never improves.     *)
THEOREM HealthNeverImproves == Spec => NeverImproves
<1>1. TypeOK /\ [Next]_vars =>
        [DeassertLog \/ \A d \in Devices :
           Rank[computeHealthForDevice(d)'] >= Rank[computeHealthForDevice(d)]]_vars
  <2> SUFFICES ASSUME TypeOK, [Next]_vars, ~DeassertLog, NEW d \in Devices
               PROVE  Rank[computeHealthForDevice(d)']
                        >= Rank[computeHealthForDevice(d)]
    OBVIOUS
  <2>1. crit[d] \subseteq crit'[d] /\ warn[d] \subseteq warn'[d]
    BY StoreEffects
  <2> QED
    BY <2>1, HealthMonotone DEF computeHealthForDevice
<1> QED
  BY <1>1, HealthTypes, PTL DEF Spec, NeverImproves

-----------------------------------------------------------------------------
(* What is published                                                       *)

LEMMA InitPublish == Init => PublishInv
  BY HealthAssumption DEF Init, PublishInv, OthersSettled, LoopsKept, JobKept, UnknownIsOK,
         Publishing

\* A callback that changes the errors of one device, which the file then
\* knows or which had none, and starts to publish it.
LEMMA StorePublish ==
    ASSUME TypeOK, PublishInv, TypeOK', NEW e \in Devices, proc = "idle",
           \A d \in Devices \ {e} : crit'[d] = crit[d] /\ warn'[d] = warn[d],
           known \subseteq known',
           e \in known' \/ (crit'[e] = {} /\ warn'[e] = {}),
           StartPublish(e, crit'[e], warn'[e], "event"),
           UNCHANGED <<pending, deferred, busVars, ghosts>>
    PROVE  PublishInv'
<1>1. proc' = "lookup" /\ why' = "event" /\ job'.dev = e
      /\ job'.health = HealthOf(crit'[e], warn'[e])
  BY DEF StartPublish
<1>2. OthersSettled'
  BY <1>1 DEF PublishInv, OthersSettled, Unsettled, Publishing, Settled,
              computeHealthForDevice, busVars, ghosts
<1>3. LoopsKept'
  BY <1>1 DEF PublishInv, LoopsKept, Publishing
<1>4. JobKept'
  BY <1>1 DEF JobKept, Publishing, computeHealthForDevice
<1>5. UnknownIsOK'
  BY <1>1 DEF PublishInv, UnknownIsOK, busVars
<1> QED
  BY <1>2, <1>3, <1>4, <1>5 DEF PublishInv

\* A process that is down promises nothing but what is in the file.
LEMMA DeathPublish ==
    ASSUME TypeOK, PublishInv, Die, known \subseteq known',
           UNCHANGED <<crit, warn, pub>>
    PROVE  PublishInv'
  BY DEF Die, PublishInv, OthersSettled, LoopsKept, JobKept, UnknownIsOK,
         Publishing

LEMMA MessagePublish ==
    ASSUME TypeOK, PublishInv, TypeOK', NEW m \in Messages, HandleMessage(m)
    PROVE  PublishInv'
<1>1. CASE RemoveError(m)
  <2>1. m.dev \in Devices /\ proc = "idle"
    BY <1>1 DEF RemoveError, Accepted
  <2>2. /\ crit'[m.dev] = crit[m.dev] \ {m.id}
        /\ warn'[m.dev] = warn[m.dev] \ {m.id}
        /\ \A d \in Devices \ {m.dev} : crit'[d] = crit[d] /\ warn'[d] = warn[d]
    BY <1>1, <2>1 DEF RemoveError, TypeOK
  <2>3. m.dev \in known \/ (crit[m.dev] = {} /\ warn[m.dev] = {})
    BY <2>1 DEF PublishInv, UnknownIsOK
  <2>4. StartPublish(m.dev, crit'[m.dev], warn'[m.dev], "event")
    BY <1>1, <2>2 DEF RemoveError, StartPublish
  <2>5. UNCHANGED <<known, pending, deferred, busVars, ghosts>>
    BY <1>1 DEF RemoveError
  <2> QED
    BY <2>1, <2>2, <2>3, <2>4, <2>5, StorePublish
<1>2. CASE AddCriticalError(m) /\ ~AtLimit(crit[m.dev])
  <2>1. m.dev \in Devices /\ proc = "idle"
    BY <1>2 DEF AddCriticalError, Accepted
  <2>2. /\ crit'[m.dev] = crit[m.dev] \cup {m.id}
        /\ \A d \in Devices \ {m.dev} : crit'[d] = crit[d]
        /\ warn' = warn
    BY <1>2, <2>1 DEF AddCriticalError, TypeOK
  <2>3. StartPublish(m.dev, crit'[m.dev], warn'[m.dev], "event")
    BY <1>2, <2>2 DEF AddCriticalError, StartPublish
  <2>4. known' = known \cup {m.dev}
        /\ UNCHANGED <<pending, deferred, busVars, ghosts>>
    BY <1>2 DEF AddCriticalError
  <2> QED
    BY <2>1, <2>2, <2>3, <2>4, StorePublish
<1>3. CASE AddWarningError(m) /\ ~AtLimit(warn[m.dev])
  <2>1. m.dev \in Devices /\ proc = "idle"
    BY <1>3 DEF AddWarningError, Accepted
  <2>2. /\ warn'[m.dev] = warn[m.dev] \cup {m.id}
        /\ \A d \in Devices \ {m.dev} : warn'[d] = warn[d]
        /\ crit' = crit
    BY <1>3, <2>1 DEF AddWarningError, TypeOK
  <2>3. StartPublish(m.dev, crit'[m.dev], warn'[m.dev], "event")
    BY <1>3, <2>2 DEF AddWarningError, StartPublish
  <2>4. known' = known \cup {m.dev}
        /\ UNCHANGED <<pending, deferred, busVars, ghosts>>
    BY <1>3 DEF AddWarningError
  <2> QED
    BY <2>1, <2>2, <2>3, <2>4, StorePublish
<1>4. CASE \/ AddCriticalError(m) /\ AtLimit(crit[m.dev])
           \/ AddWarningError(m) /\ AtLimit(warn[m.dev])
           \/ IgnoreMessage(m)
  <2>1. known \subseteq known'
        /\ UNCHANGED <<crit, warn, procVars, busVars, ghosts>>
    BY <1>4 DEF AddCriticalError, AddWarningError, IgnoreMessage, vars, fileVars
  <2> QED
    BY <2>1 DEF PublishInv, OthersSettled, Unsettled, Settled, LoopsKept,
                JobKept, UnknownIsOK, Publishing, computeHealthForDevice,
                procVars, busVars, ghosts
<1>5. CASE StoreAborts(m)
  BY <1>5, DeathPublish DEF StoreAborts, busVars
<1> QED
  BY <1>1, <1>2, <1>3, <1>4, <1>5 DEF HandleMessage

\* Where a publication returns to.
LEMMA ResumeIs ==
    /\ why = "boot" => Resume = "boot"
    /\ why = "retry" => Resume = "retry"
    /\ why \notin {"boot", "retry"} => Resume = "idle"
  BY DEF Resume

\* A failed publication leaves its device deferred, a publication without a
\* failure leaves it settled.
LEMMA FailedPublish ==
    ASSUME TypeOK, PublishInv, Publishing, PublishFailed,
           UNCHANGED <<fileVars, busVars, ghosts>>
    PROVE  PublishInv'
<1>1. proc' \in {"idle", "boot", "retry"}
      /\ (proc' = "retry" <=> why = "retry") /\ (proc' = "idle" <=> why = "event")
  BY ResumeIs DEF PublishFailed, TypeOK
<1>2. pending' = pending /\ deferred' = deferred \cup {job.dev}
  BY DEF PublishFailed, PublishInv, LoopsKept
<1>3. OthersSettled'
  BY <1>1, <1>2 DEF PublishInv, OthersSettled, Unsettled, Publishing, Settled,
                    computeHealthForDevice, fileVars, busVars, ghosts
<1>4. LoopsKept' /\ JobKept'
  BY <1>1, <1>2 DEF PublishInv, LoopsKept, JobKept, Publishing
<1>5. UnknownIsOK'
  BY DEF PublishInv, UnknownIsOK, fileVars, busVars
<1> QED
  BY <1>3, <1>4, <1>5 DEF PublishInv

LEMMA DonePublish ==
    ASSUME TypeOK, PublishInv, proc = "set", job.todo = {}, job.ok, PublishDone,
           UNCHANGED <<fileVars, busVars, ghosts>>
    PROVE  PublishInv'
<1>1. proc' \in {"idle", "boot", "retry"}
      /\ (proc' = "retry" <=> why = "retry") /\ (proc' = "idle" <=> why = "event")
  BY ResumeIs DEF PublishDone, TypeOK
<1>2. pending' = pending /\ deferred \ {job.dev} \subseteq deferred'
      /\ job.dev \in Devices
  BY DEF PublishDone, TypeOK, Jobs
<1>3. Settled(job.dev)
  BY DEF PublishInv, JobKept, Settled, Publishing
<1>4. OthersSettled'
  BY <1>1, <1>2, <1>3
     DEF PublishInv, OthersSettled, Unsettled, Publishing, Settled,
         computeHealthForDevice, fileVars, busVars, ghosts
<1>5. LoopsKept' /\ JobKept'
  BY <1>1, <1>2 DEF PublishInv, LoopsKept, JobKept, Publishing
<1>6. UnknownIsOK'
  BY DEF PublishInv, UnknownIsOK, fileVars, busVars
<1> QED
  BY <1>4, <1>5, <1>6 DEF PublishInv

LEMMA LookupPublish ==
    ASSUME TypeOK, PublishInv, LookupPaths
    PROVE  PublishInv'
<1>1. /\ proc' = "set" /\ proc = "lookup" /\ job'.dev = job.dev
      /\ job'.health = job.health
      /\ job'.todo = PathsOf[job.dev] \cap present
  BY DEF LookupPaths, TypeOK, Jobs
<1>2. OthersSettled' /\ UnknownIsOK'
  BY <1>1 DEF LookupPaths, PublishInv, OthersSettled, Unsettled, Publishing,
              Settled, UnknownIsOK, computeHealthForDevice, fileVars, busVars,
              ghosts
<1>3. LoopsKept'
  BY <1>1 DEF LookupPaths, PublishInv, LoopsKept, Publishing
<1>4. JobKept'
  BY <1>1 DEF LookupPaths, PublishInv, JobKept, Publishing,
              computeHealthForDevice, fileVars, busVars
<1> QED
  BY <1>2, <1>3, <1>4 DEF PublishInv

\* One path: it is set, or the publication has failed, or the failure is
\* swallowed.  Paths of other devices are not touched.
LEMMA PathPublish ==
    ASSUME TypeOK, PublishInv, NEW p \in Paths,
           SetPath(p) \/ SetPathFails(p) \/ SetPathThrows(p)
    PROVE  PublishInv'
<1>1. /\ proc = "set" /\ proc' = "set" /\ job.dev \in Devices
      /\ job'.dev = job.dev /\ job'.health = job.health
      /\ job'.todo = job.todo \ {p} /\ p \in PathsOf[job.dev]
      /\ (job'.ok => job.ok)
      /\ UNCHANGED <<fileVars, why, pending, deferred, present>>
  BY DEF SetPath, SetPathFails, SetPathThrows, TypeOK, Jobs, PublishInv,
         JobKept, busVars
<1>2. \A d \in Devices \ {job.dev} : p \notin PathsOf[d]
  BY <1>1, HealthAssumption
<1>3. /\ \A q \in Paths \ {p} : /\ pub'[q] = pub[q]
                                /\ q \in fresh' <=> q \in fresh
                                /\ q \in swallowed' <=> q \in swallowed
      /\ \A d \in Devices : PathsOf[d] \subseteq Paths
  BY HealthAssumption DEF SetPath, SetPathFails, SetPathThrows, TypeOK, busVars,
                          ghosts
<1>4. OthersSettled'
  BY <1>1, <1>2, <1>3 DEF PublishInv, OthersSettled, Unsettled, Publishing,
                          Settled, computeHealthForDevice, fileVars
<1>5. LoopsKept'
  BY <1>1 DEF PublishInv, LoopsKept, Publishing
<1>6. \/ pub'[p] = job.health
      \/ ~job'.ok
      \/ p \in swallowed'
  BY DEF SetPath, SetPathFails, SetPathThrows, TypeOK, Jobs
<1>7. JobKept'
  BY <1>1, <1>3, <1>6 DEF PublishInv, JobKept, Publishing,
                          computeHealthForDevice, fileVars
<1>8. pub'[p] \in {pub[p], job.health}
  BY DEF SetPath, SetPathFails, SetPathThrows, TypeOK, busVars
<1>9. job.dev \notin known => job.health = "OK"
  BY <1>1 DEF PublishInv, JobKept, UnknownIsOK, Publishing,
              computeHealthForDevice, HealthOf
<1>10. UnknownIsOK'
  BY <1>1, <1>2, <1>3, <1>8, <1>9 DEF PublishInv, UnknownIsOK, fileVars
<1> QED
  BY <1>4, <1>5, <1>7, <1>10 DEF PublishInv

LEMMA PublishPublish ==
    ASSUME TypeOK, PublishInv, Publish
    PROVE  PublishInv'
<1>1. CASE LookupFails
  BY <1>1, FailedPublish DEF LookupFails, Publishing
<1>2. CASE FinishPublish
  BY <1>2, FailedPublish, DonePublish DEF FinishPublish, Publishing
<1> QED
  BY <1>1, <1>2, LookupPublish, PathPublish DEF Publish

LEMMA LoopPublish ==
    ASSUME TypeOK, PublishInv, Loop \/ TimerFires \/ Start
    PROVE  PublishInv'
<1>1. UnknownIsOK'
  BY DEF Loop, RetryEnds, BootEnds, RetryDevice, BootDevice, TimerFires, Start,
         PublishInv, UnknownIsOK, fileVars, busVars
<1>2. CASE RetryEnds \/ BootEnds \/ TimerFires
  BY <1>1, <1>2 DEF RetryEnds, BootEnds, TimerFires, PublishInv, OthersSettled,
                    Unsettled, Settled, LoopsKept, JobKept, Publishing,
                    computeHealthForDevice, fileVars, busVars, ghosts
<1>3. CASE Start
  <2>1. \A d \in Devices \ known : Settled(d)
    BY DEF PublishInv, UnknownIsOK, Settled, computeHealthForDevice, HealthOf
  <2> QED
    BY <1>1, <1>3, <2>1
       DEF Start, PublishInv, OthersSettled, Unsettled, Settled, LoopsKept,
           JobKept, Publishing, computeHealthForDevice, fileVars, busVars, ghosts
<1>4. ASSUME NEW d \in Devices, RetryDevice(d) \/ BootDevice(d)
      PROVE  PublishInv'
  <2>1. /\ proc' = "lookup" /\ job'.dev = d
        /\ job'.health = HealthOf(crit[d], warn[d])
        /\ proc \in {"boot", "retry"} /\ why' = proc
        /\ d \in pending /\ pending' = pending \ {d}
        /\ UNCHANGED <<fileVars, deferred, busVars, ghosts>>
    BY <1>4 DEF RetryDevice, BootDevice, StartPublish
  <2>2. OthersSettled'
    BY <2>1 DEF PublishInv, OthersSettled, Unsettled, Publishing, Settled,
                computeHealthForDevice, fileVars, busVars, ghosts
  <2>3. LoopsKept'
    BY <2>1 DEF PublishInv, LoopsKept, Publishing
  <2>4. JobKept'
    BY <2>1 DEF JobKept, Publishing, computeHealthForDevice, fileVars
  <2> QED
    BY <1>1, <2>2, <2>3, <2>4 DEF PublishInv
<1> QED
  BY <1>2, <1>3, <1>4 DEF Loop

\* A path that comes is fresh, a path that goes is not there to be judged.
LEMMA EnvironmentPublish ==
    ASSUME TypeOK, PublishInv, Environment
    PROVE  PublishInv'
<1>1. CASE Crash
  BY <1>1, DeathPublish DEF Crash, fileVars, busVars
<1>2. CASE BusTurns
  BY <1>2 DEF BusTurns, PublishInv, OthersSettled, Unsettled, Settled,
              LoopsKept, JobKept, UnknownIsOK, Publishing,
              computeHealthForDevice, fileVars, procVars, ghosts
<1>3. ASSUME NEW p \in Paths, HostUp(p) \/ HostDown(p)
      PROVE  PublishInv'
  <2>1. UNCHANGED <<fileVars, procVars>>
    BY <1>3 DEF HostUp, HostDown
  <2>2. /\ \A q \in Paths \ {p} : /\ pub'[q] = pub[q]
                                  /\ q \in present' <=> q \in present
                                  /\ q \in fresh' <=> q \in fresh
                                  /\ q \in swallowed' <=> q \in swallowed
        /\ pub'[p] = "OK" /\ (p \notin present' \/ p \in fresh')
        /\ \A d \in Devices : PathsOf[d] \subseteq Paths
    BY <1>3, HealthAssumption DEF HostUp, HostDown, TypeOK
  <2>3. OthersSettled'
    BY <2>1, <2>2 DEF PublishInv, OthersSettled, Unsettled, Publishing, Settled,
                      computeHealthForDevice, fileVars, procVars
  <2>4. LoopsKept'
    BY <2>1 DEF PublishInv, LoopsKept, Publishing, procVars
  <2>5. JobKept'
    BY <2>1, <2>2 DEF PublishInv, JobKept, Publishing, computeHealthForDevice,
                      fileVars, procVars, TypeOK, Jobs
  <2>6. UnknownIsOK'
    BY <2>1, <2>2 DEF PublishInv, UnknownIsOK, fileVars
  <2> QED
    BY <2>3, <2>4, <2>5, <2>6 DEF PublishInv
<1> QED
  BY <1>1, <1>2, <1>3 DEF Environment

LEMMA NextPublish == TypeOK /\ TypeOK' /\ PublishInv /\ [Next]_vars => PublishInv'
<1> SUFFICES ASSUME TypeOK, TypeOK', PublishInv, [Next]_vars PROVE PublishInv'
  OBVIOUS
<1>1. CASE UNCHANGED vars
  BY <1>1 DEF vars, fileVars, procVars, busVars, ghosts, PublishInv,
              OthersSettled, Unsettled, Settled, LoopsKept, JobKept,
              UnknownIsOK, Publishing, computeHealthForDevice
<1> QED
  BY <1>1, MessagePublish, PublishPublish, LoopPublish, EnvironmentPublish
     DEF Next

(* What the invariant says of the event loop.                              *)
LEMMA PublishedFollows == PublishInv => PublishedOrDeferred
<1> SUFFICES ASSUME PublishInv, proc = "idle",
                    NEW d \in Devices \ deferred
             PROVE  Settled(d)
  BY DEF PublishedOrDeferred, Settled
<1>1. d \notin Unsettled
  BY DEF PublishInv, LoopsKept, Unsettled, Publishing
<1> QED
  BY <1>1 DEF PublishInv, OthersSettled

(* In the event loop every path of a device that is not deferred shows the *)
(* health the stored errors imply, but for new paths and swallowed         *)
(* failures: whatever crashes, partial failures, restarts came before.     *)
THEOREM PublishedUnlessDeferred == Spec => []PublishedOrDeferred
  BY InitPublish, NextPublish, PublishedFollows, HealthTypes, PTL DEF Spec
=============================================================================
