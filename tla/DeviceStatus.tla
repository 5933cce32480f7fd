---------------------------- MODULE DeviceStatus ----------------------------
(***************************************************************************)
(* DeviceStatusHandler::process and the cache it shares                    *)
(* (include/device_status_handler.hpp), in the default build.  An event    *)
(* thread runs the handler once; the next event gets a thread in its place.*)
(*                                                                         *)
(* The cache is a vector.  getDevice scans it without the lock, appends    *)
(* under it, and returns a reference; an append by another thread that     *)
(* grows the vector leaves that reference dangling.  Reading through it is *)
(* undefined: here the name may read as empty, the health as anything, and *)
(* a write is lost.                                                        *)
(*                                                                         *)
(* writeJson2File truncates the file before it has composed and written    *)
(* what goes in, and does not look whether the writing worked.             *)
(***************************************************************************)
EXTENDS Integers, Sequences, FiniteSets

CONSTANTS
    Threads,            \* places for event threads: option -t
    SourceDevices,      \* devices events are about
    EventSeverities,    \* bound: severities that events come with
    Names,              \* rollup device names
    DeviceAssociation,  \* lists of names by source device, or "[Other]"
    MaxEvents,          \* bound: how many events the daemon handles
    MaxRestarts         \* bound: how often the daemon is restarted

ASSUME StatusAssumption ==
    /\ DOMAIN DeviceAssociation \subseteq SourceDevices \cup {"[Other]"}
    /\ \A d \in DOMAIN DeviceAssociation : DeviceAssociation[d] \in Seq(Names)
    /\ EventSeverities \subseteq 0 .. 2
    /\ MaxEvents \in Nat /\ MaxRestarts \in Nat

VARIABLES
    cache,    \* _device: records of name and Health
    moved,    \* how often the vector has been reallocated
    file,     \* the severity in each device's file, Cut, Empty or NoFile
    lock,     \* the set of threads that hold the handler's _mutex
    thr,      \* the event threads
    begun,    \* how many events have been handled or are, in this run of it
    restarts, \* how often the daemon has been restarted
    undefined \* a dangling reference has been used (for the properties)

vars == <<cache, moved, file, lock, thr, begun, restarts, undefined>>

\* util::Severity: OK, Warning, Critical
Severities == 0 .. 2

\* Empty: created, but never opened for writing.  Cut: truncated, and not
\* written in full since: empty or broken off.
Empty  == -1
NoFile == -2
Cut    == -3

\* What a file may show once it has been opened for writing.
Opened == Severities \cup {Cut}

\* scan, insert: getDevice; compare: the severity test; lock, write, dump,
\* update: the rest of the loop's body, write and dump inside writeJson2File;
\* done with the code process returned.
PCs == {"new", "scan", "insert", "compare", "lock", "write", "dump", "update",
        "succ", "error"}

NoRef == [at |-> 0, moved |-> 0]

\* alone, for the properties: no other thread has been active since it began.
NewThread == [pc |-> "new", sev |-> 0, names |-> <<>>, all |-> <<>>,
              ref |-> NoRef, alone |-> TRUE]

CachedDevices == [name : Names, health : Severities]

ThreadStates ==
    [pc : PCs, sev : Severities, names : Seq(Names), all : Seq(Names),
     ref : [at : Nat, moved : Nat], alone : BOOLEAN]

TypeOK ==
    /\ cache \in Seq(CachedDevices)
    /\ moved \in Nat
    /\ file \in [Names -> Severities \cup {Cut, Empty, NoFile}]
    /\ thr \in [Threads -> ThreadStates]
    /\ \A t \in Threads : /\ thr[t].ref.at <= Len(cache)
                          /\ thr[t].ref.moved <= moved
    /\ lock = {t \in Threads : thr[t].pc \in {"write", "dump", "update"}}
    /\ \A s, t \in lock : s = t
    /\ begun \in 0 .. MaxEvents
    /\ restarts \in 0 .. MaxRestarts
    /\ undefined \in BOOLEAN

Init ==
    /\ cache = <<>>
    /\ moved = 0
    /\ file = [n \in Names |-> NoFile]
    /\ lock = {}
    /\ thr = [t \in Threads |-> NewThread]
    /\ begun = 0
    /\ restarts = 0
    /\ undefined = FALSE

-----------------------------------------------------------------------------
Active == {t \in Threads : thr[t].pc \notin {"new", "succ", "error"}}

\* The list of the device, or of "[Other]", or nothing.
lookupRollupDeviceId(dev) ==
    IF dev \in DOMAIN DeviceAssociation THEN DeviceAssociation[dev]
    ELSE IF "[Other]" \in DOMAIN DeviceAssociation
         THEN DeviceAssociation["[Other]"]
         ELSE <<>>

\* process returns the code.
Return(t, code) ==
    [NewThread EXCEPT !.pc = code, !.all = IF code = "succ" THEN thr[t].all ELSE <<>>]

\* The loop's next iteration, or the end of the loop.
Continue(t, names) ==
    IF names = <<>> THEN Return(t, "succ")
    ELSE [thr[t] EXCEPT !.pc = "scan", !.names = names, !.ref = NoRef]

Dangling(t) == thr[t].ref.moved # moved

Entry(t) == cache[thr[t].ref.at]

\* process begins with an event that is "managed".
Begin(t, dev, sev) ==
    /\ t \notin Active /\ begun < MaxEvents
    /\ begun' = begun + 1
    /\ LET names == lookupRollupDeviceId(dev)
       IN thr' = [u \in Threads |->
                    IF u = t
                    THEN [Continue(t, names) EXCEPT !.sev = sev, !.all = names,
                                                    !.alone = (Active = {})]
                    ELSE [thr[u] EXCEPT !.alone = u \notin Active]]
    /\ UNCHANGED <<cache, moved, file, lock, restarts, undefined>>

\* Any other event is none of the handler's.
IgnoreUnmanaged(t) ==
    /\ t \notin Active /\ begun < MaxEvents
    /\ begun' = begun + 1
    /\ thr' = [thr EXCEPT ![t] = [Return(t, "succ") EXCEPT !.all = <<>>]]
    /\ UNCHANGED <<cache, moved, file, lock, restarts, undefined>>

\* getDevice: the first entry with the name, found without the lock.
Scan(t) ==
    /\ thr[t].pc = "scan"
    /\ LET found == {i \in DOMAIN cache : cache[i].name = Head(thr[t].names)}
       IN IF found = {}
          THEN thr' = [thr EXCEPT ![t].pc = "insert"]
          ELSE \E i \in found :
                 /\ \A j \in found : i <= j
                 /\ thr' = [thr EXCEPT ![t].pc = "compare",
                                       ![t].ref = [at |-> i, moved |-> moved]]
    /\ UNCHANGED <<cache, moved, file, lock, begun, restarts, undefined>>

\* The vector doubles its capacity (1, 2, 4, ...) and moves its elements.
Grows == Len(cache) \in {1, 2, 4, 8}

\* getDevice under the lock: append without looking again.
Insert(t) ==
    /\ thr[t].pc = "insert"
    /\ cache' = Append(cache, [name |-> Head(thr[t].names), health |-> 0])
    /\ moved' = IF Grows THEN moved + 1 ELSE moved
    /\ thr' = [thr EXCEPT ![t].pc = "compare",
                          ![t].ref = [at |-> Len(cache) + 1, moved |-> moved']]
    /\ UNCHANGED <<file, lock, begun, restarts, undefined>>

\* Mutant of CompareUpdate: the severities are not compared.
CompareUpdateAlways(t) ==
    /\ thr[t].pc = "compare"
    /\ thr' = [thr EXCEPT ![t].pc = "lock"]
    /\ undefined' = (undefined \/ Dangling(t))
    /\ UNCHANGED <<cache, moved, file, lock, begun, restarts>>

\* A device cached with a higher severity ends the whole handler.
CompareLower(t) ==
    /\ thr[t].pc = "compare"
    /\ Dangling(t) \/ Entry(t).health > thr[t].sev
    /\ thr' = [thr EXCEPT ![t] = Return(t, "succ")]
    /\ undefined' = (undefined \/ Dangling(t))
    /\ UNCHANGED <<cache, moved, file, lock, begun, restarts>>

CompareUpdate(t) ==
    /\ thr[t].pc = "compare"
    /\ Dangling(t) \/ Entry(t).health <= thr[t].sev
    /\ thr' = [thr EXCEPT ![t].pc = "lock"]
    /\ undefined' = (undefined \/ Dangling(t))
    /\ UNCHANGED <<cache, moved, file, lock, begun, restarts>>

\* Mutant of Lock: nobody waits for the mutex.
LockUnguarded(t) ==
    /\ thr[t].pc = "lock"
    /\ lock' = lock \cup {t}
    /\ thr' = [thr EXCEPT ![t].pc = "write"]
    /\ UNCHANGED <<cache, moved, file, begun, restarts, undefined>>

\* dev.name.empty(), which a dangling reference may say.
SkipNameless(t) ==
    /\ thr[t].pc = "compare"
    /\ Dangling(t)
    /\ thr' = [thr EXCEPT ![t] = Continue(t, Tail(thr[t].names))]
    /\ undefined' = TRUE
    /\ UNCHANGED <<cache, moved, file, lock, begun, restarts>>

Lock(t) ==
    /\ thr[t].pc = "lock"
    /\ lock = {}
    /\ lock' = {t}
    /\ thr' = [thr EXCEPT ![t].pc = "write"]
    /\ UNCHANGED <<cache, moved, file, begun, restarts, undefined>>

\* Mutants of WriteFails: the lock is not released; the failure is not
\* returned.
WriteFailsKeepsLock(t) ==
    /\ thr[t].pc = "write"
    /\ thr' = [thr EXCEPT ![t] = Return(t, "error")]
    /\ UNCHANGED <<cache, moved, file, lock, begun, restarts, undefined>>

WriteFailsUnnoticed(t) ==
    /\ thr[t].pc = "write"
    /\ lock' = lock \ {t}
    /\ thr' = [thr EXCEPT ![t] = Return(t, "succ")]
    /\ UNCHANGED <<cache, moved, file, begun, restarts, undefined>>

\* writeJson2File fails before it has touched the contents, perhaps after it
\* has created the file (no lock on it in time, it cannot be opened): _mutex
\* goes with the scope, the handler ends.
WriteFails(t) ==
    /\ thr[t].pc = "write"
    /\ \/ file' = file
       \/ LET n == Head(thr[t].names)
          IN file[n] = NoFile /\ file' = [file EXCEPT ![n] = Empty]
    /\ lock' = lock \ {t}
    /\ thr' = [thr EXCEPT ![t] = Return(t, "error")]
    /\ UNCHANGED <<cache, moved, begun, restarts, undefined>>

\* The file is opened for writing, which truncates it.
Truncate(t) ==
    /\ thr[t].pc = "write"
    /\ file' = [file EXCEPT ![Head(thr[t].names)] = Cut]
    /\ thr' = [thr EXCEPT ![t].pc = "dump"]
    /\ UNCHANGED <<cache, moved, lock, begun, restarts, undefined>>

\* dump throws, as for a string that is not UTF-8: the file stays truncated.
DumpFails(t) ==
    /\ thr[t].pc = "dump"
    /\ lock' = lock \ {t}
    /\ thr' = [thr EXCEPT ![t] = Return(t, "error")]
    /\ UNCHANGED <<cache, moved, file, begun, restarts, undefined>>

WriteFile(t) ==
    /\ thr[t].pc = "dump"
    /\ file' = [file EXCEPT ![Head(thr[t].names)] = thr[t].sev]
    /\ thr' = [thr EXCEPT ![t].pc = "update"]
    /\ UNCHANGED <<cache, moved, lock, begun, restarts, undefined>>

\* The stream cannot write, or not all of it, as on a full file system; nobody
\* asks it, and 0 is returned.
WriteLost(t) ==
    /\ thr[t].pc = "dump"
    /\ thr' = [thr EXCEPT ![t].pc = "update"]
    /\ UNCHANGED <<cache, moved, file, lock, begun, restarts, undefined>>

\* The cache follows what should be in the file; the lock is released at the
\* end of the body.
UpdateCache(t) ==
    /\ thr[t].pc = "update"
    /\ cache' = IF Dangling(t) THEN cache
                ELSE [cache EXCEPT ![thr[t].ref.at].health = thr[t].sev]
    /\ undefined' = (undefined \/ Dangling(t))
    /\ lock' = lock \ {t}
    /\ thr' = [thr EXCEPT ![t] = Continue(t, Tail(thr[t].names))]
    /\ UNCHANGED <<moved, file, begun, restarts>>

\* The daemon dies and starts again: /tmp/devices keeps the files.
Restart ==
    /\ restarts < MaxRestarts
    /\ restarts' = restarts + 1
    /\ begun' = 0
    /\ cache' = <<>>
    /\ moved' = 0
    /\ lock' = {}
    /\ thr' = [t \in Threads |-> NewThread]
    /\ undefined' = FALSE
    /\ UNCHANGED file

Step(t) ==
    \/ Scan(t) \/ Insert(t) \/ CompareLower(t) \/ CompareUpdate(t)
    \/ SkipNameless(t) \/ Lock(t) \/ WriteFails(t) \/ Truncate(t)
    \/ DumpFails(t) \/ WriteFile(t) \/ WriteLost(t) \/ UpdateCache(t)

Next ==
    \/ \E t \in Threads :
          \/ Step(t)
          \/ \E d \in SourceDevices, s \in EventSeverities : Begin(t, d, s)
          \/ IgnoreUnmanaged(t)
    \/ Restart

Spec == Init /\ [][Next]_vars

\* Each started thread runs.
Fairness == \A t \in Threads : WF_vars(Step(t))

FairSpec == Spec /\ Fairness

-----------------------------------------------------------------------------
(* Properties                                                              *)

\* A severity in the cache stands for a file some event has written, or at
\* least truncated in order to: the "lower severity" test never discards an
\* event because of a status nobody has tried to report.  Failed writes,
\* duplicate entries, lost writes through a dangling reference and restarts
\* are covered.  That the file may be Cut is the code's weak point: it then
\* shows nothing, and lower events do not repair it, although writeJson2File
\* may have returned "0 - succ" (util.cpp:557, WriteLost).
CacheBacked ==
    \A i \in DOMAIN cache :
        cache[i].health > 0 => file[cache[i].name] \in Opened

\* Nobody holds _mutex: a device cached once shows what its file shows, even
\* when events of different severities passed the test at the same time (the
\* write and the update of the cache are one critical section); or the last
\* write of the file broke off.
CacheMatchesFile ==
    lock = {} /\ ~undefined =>
        \A i \in DOMAIN cache :
            \/ cache[i].health \in {0, file[cache[i].name]}
            \/ file[cache[i].name] = Cut
            \/ \E j \in DOMAIN cache \ {i} : cache[j].name = cache[i].name

\* What holds of cache, files and mutex in every state.
CacheOK == TypeOK /\ CacheBacked /\ CacheMatchesFile

\* An event that completed without an error has its first rollup device
\* reported, by itself or by a more severe event, unless a dangling reference
\* was used or the last write of the file broke off.
CompletedIsReported ==
    \A t \in Threads :
        thr[t].pc = "succ" /\ thr[t].all # <<>> /\ ~undefined
            => file[Head(thr[t].all)] \in Opened

\* Every event thread gets through the handler, whatever the threads that
\* hold the lock before it run into.
HandlerEnds == \A t \in Threads : t \in Active ~> t \notin Active

\* "Based on first & highest-severity event" (device_status_handler.hpp:117):
\* a file that shows a severity is only touched for an event at least as
\* severe, except by a thread that had company while it tested and wrote, or
\* after an older race that left the device in the cache twice or a write
\* lost; a restart forgets the cache.  Nothing is said of whether the new
\* severity then gets into the file.
FileKeepsHighest ==
    [][\A n \in Names : file[n] \in Severities /\ file'[n] # file[n] =>
          \/ restarts > 0 \/ undefined
          \/ Cardinality({i \in DOMAIN cache : cache[i].name = n}) > 1
          \/ \E t \in lock : /\ Head(thr[t].names) = n
                             /\ thr[t].sev >= file[n] \/ ~thr[t].alone]_vars

=============================================================================
