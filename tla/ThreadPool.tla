----------------------------- MODULE ThreadPool -----------------------------
(***************************************************************************)
(* ThreadpoolManager and ThreadpoolGuard (include/threadpool_manager.hpp)  *)
(* with the two ways the daemon uses a guard:                              *)
(*                                                                         *)
(*   - RunEventHandler(s) (include/event_detection.hpp) makes a            *)
(*     shared_ptr to a guard, starts a detached thread whose closure keeps *)
(*     a second reference, and returns; the slot is given back when the    *)
(*     last of the two references goes;                                    *)
(*   - the boot thread (src/eventing_main.cpp) puts a guard on its stack:  *)
(*     a single reference.                                                 *)
(*                                                                         *)
(* A step is one operation on _waiting or _sem, so callers interleave      *)
(* inside try_acquire.                                                     *)
(***************************************************************************)
EXTENDS Integers, FiniteSets

CONSTANTS
    Guards,      \* the guards callers may construct at the same time
    MaxRunning,  \* maxRunning, option -t
    MaxTotal     \* maxTotal, option -T

\* The constructor throws unless maxRunning is at most the semaphore's
\* capability (32) and maxTotal at least maxRunning; the options refuse
\* values below 1.
ASSUME LimitsAssumption ==
    /\ MaxRunning \in 1 .. 32
    /\ MaxTotal \in Nat
    /\ MaxTotal >= MaxRunning

ASSUME GuardsAssumption == IsFiniteSet(Guards)

VARIABLES
    sem,      \* _sem, the counting semaphore
    waiting,  \* _waiting, the atomic counter
    pc,       \* where each guard's owner is
    refs      \* which of the two owners still refer to the guard

vars == <<sem, waiting, pc, refs>>

\* Who may refer to a guard: the function that made it, the event thread.
Owners == {"trigger", "thread"}

\* idle      no guard
\* rejecting counted itself and found the cap reached
\* waiting   counted itself, inside try_acquire_for
\* timedout  try_acquire_for returned false
\* acquired  try_acquire_for returned true, _waiting not yet decremented
\* holding   constructed, _acquired is true
\* failed    constructed, _acquired is false
PCs == {"idle", "rejecting", "waiting", "timedout", "acquired", "holding",
        "failed"}

TypeOK ==
    /\ sem \in 0 .. MaxRunning
    /\ waiting \in Nat
    /\ pc \in [Guards -> PCs]
    /\ refs \in [Guards -> SUBSET Owners]

Init ==
    /\ sem = MaxRunning
    /\ waiting = 0
    /\ pc = [g \in Guards |-> "idle"]
    /\ refs = [g \in Guards |-> {}]

-----------------------------------------------------------------------------
(* try_acquire                                                             *)

\* Mutant: the cap is compared with the incremented value.
FetchAddThenCompare(g) ==
    /\ pc[g] = "idle"
    /\ waiting' = waiting + 1
    /\ pc' = [pc EXCEPT ![g] = IF waiting + 1 >= MaxTotal THEN "rejecting"
                                                          ELSE "waiting"]
    /\ UNCHANGED <<sem, refs>>

\* The old value of _waiting decides: at the cap the caller will give up.
FetchAdd(g) ==
    /\ pc[g] = "idle"
    /\ waiting' = waiting + 1
    /\ pc' = [pc EXCEPT ![g] = IF waiting >= MaxTotal THEN "rejecting"
                                                      ELSE "waiting"]
    /\ UNCHANGED <<sem, refs>>

\* _waiting-- on the cap path; the guard is built without a slot.
Reject(g) ==
    /\ pc[g] = "rejecting"
    /\ waiting' = waiting - 1
    /\ pc' = [pc EXCEPT ![g] = "failed"]
    /\ UNCHANGED <<sem, refs>>

SemAcquire(g) ==
    /\ pc[g] = "waiting"
    /\ sem > 0
    /\ sem' = sem - 1
    /\ pc' = [pc EXCEPT ![g] = "acquired"]
    /\ UNCHANGED <<waiting, refs>>

\* 60 s passed with no slot to take.
SemTimeout(g) ==
    /\ pc[g] = "waiting"
    /\ sem = 0
    /\ pc' = [pc EXCEPT ![g] = "timedout"]
    /\ UNCHANGED <<sem, waiting, refs>>

TimeoutDecrement(g) ==
    /\ pc[g] = "timedout"
    /\ waiting' = waiting - 1
    /\ pc' = [pc EXCEPT ![g] = "failed"]
    /\ UNCHANGED <<sem, refs>>

\* The success path; the function that made the guard now refers to it.
SuccessDecrement(g) ==
    /\ pc[g] = "acquired"
    /\ waiting' = waiting - 1
    /\ pc' = [pc EXCEPT ![g] = "holding"]
    /\ refs' = [refs EXCEPT ![g] = {"trigger"}]
    /\ UNCHANGED sem

-----------------------------------------------------------------------------
(* the life of the guard                                                   *)

\* Mutant: every owner releases, as if the guard were copied, not shared.
DropRefReleasesAlways(g, o) ==
    /\ pc[g] = "holding"
    /\ o \in refs[g]
    /\ refs' = [refs EXCEPT ![g] = @ \ {o}]
    /\ sem' = sem + 1
    /\ pc' = [pc EXCEPT ![g] = IF refs[g] = {o} THEN "idle" ELSE @]
    /\ UNCHANGED waiting

\* Mutant: the slot is given back by the trigger function only, so a guard
\* whose thread finishes last keeps it.
DropRefThreadNeverReleases(g, o) ==
    /\ pc[g] = "holding"
    /\ o \in refs[g]
    /\ refs' = [refs EXCEPT ![g] = @ \ {o}]
    /\ IF refs[g] = {"trigger"}
       THEN /\ sem' = sem + 1
            /\ pc' = [pc EXCEPT ![g] = "idle"]
       ELSE UNCHANGED <<sem, pc>>
    /\ UNCHANGED waiting

\* The destructor of a guard that holds a slot, when the last reference goes.
DropRef(g, o) ==
    /\ pc[g] = "holding"
    /\ o \in refs[g]
    /\ refs' = [refs EXCEPT ![g] = @ \ {o}]
    /\ IF refs[g] = {o}
       THEN /\ sem' = sem + 1
            /\ pc' = [pc EXCEPT ![g] = "idle"]
       ELSE UNCHANGED <<sem, pc>>
    /\ UNCHANGED waiting

\* std::thread starts: its closure copies the shared_ptr.
StartThread(g) ==
    /\ pc[g] = "holding"
    /\ refs[g] = {"trigger"}
    /\ refs' = [refs EXCEPT ![g] = Owners]
    /\ UNCHANGED <<sem, waiting, pc>>

\* RunEventHandler(s) returns, or the boot thread's body ends, or
\* std::thread could not be created and the exception unwinds the frame.
TriggerReturns(g) == DropRef(g, "trigger")

\* The detached thread's handlers have run and its closure is destroyed.
ThreadEnds(g) == DropRef(g, "thread")

\* Mutant: the destructor releases without looking at _acquired.
DiscardFailedReleases(g) ==
    /\ pc[g] = "failed"
    /\ sem' = sem + 1
    /\ pc' = [pc EXCEPT ![g] = "idle"]
    /\ UNCHANGED <<waiting, refs>>

\* The destructor of a guard without a slot: nothing to release.
DiscardFailed(g) ==
    /\ pc[g] = "failed"
    /\ pc' = [pc EXCEPT ![g] = "idle"]
    /\ UNCHANGED <<sem, waiting, refs>>

-----------------------------------------------------------------------------
Acquiring(g) ==
    \/ Reject(g) \/ SemAcquire(g) \/ SemTimeout(g)
    \/ TimeoutDecrement(g) \/ SuccessDecrement(g)

Finishing(g) == TriggerReturns(g) \/ ThreadEnds(g) \/ DiscardFailed(g)

Next ==
    \E g \in Guards :
        FetchAdd(g) \/ Acquiring(g) \/ StartThread(g) \/ Finishing(g)

Spec == Init /\ [][Next]_vars

\* Threads are scheduled, semaphore waits end (by a slot or by the timeout),
\* and the handlers of an event thread finish: each runs command lines with a
\* timeout and D-Bus calls that have one.
Fairness ==
    \A g \in Guards :
        /\ WF_vars(Acquiring(g))
        /\ WF_vars(TriggerReturns(g))
        /\ WF_vars(ThreadEnds(g))
        /\ WF_vars(DiscardFailed(g))

FairSpec == Spec /\ Fairness

-----------------------------------------------------------------------------
(* Properties                                                              *)

\* The guards between fetch_add and the matching decrement.
Counted == {g \in Guards : pc[g] \in {"rejecting", "waiting", "timedout",
                                      "acquired"}}

\* The guards that took a slot and have not given it back.
SlotHolders == {g \in Guards : pc[g] \in {"acquired", "holding"}}

\* Event threads and boot threads at work never exceed maxRunning, and no slot
\* is lost or given back twice, whatever path try_acquire took and whichever
\* of the two owners of a guard finished last.
SlotsConserved ==
    /\ sem + Cardinality(SlotHolders) = MaxRunning
    /\ \A g \in Guards : refs[g] # {} <=> pc[g] = "holding"

\* Every exit of try_acquire undoes its own increment of _waiting: the counter
\* is exactly the number of callers inside, so the cap never drifts.
WaitingExact == waiting = Cardinality(Counted)

\* The inductive invariant: the types of the two counters, what they count.
IInv == TypeOK /\ SlotsConserved /\ WaitingExact

\* A caller gives up at the cap only while maxTotal other callers are inside
\* try_acquire at that moment.
RejectOnlyAtCap ==
    [][\A g \in Guards :
         pc[g] = "idle" /\ pc'[g] = "rejecting"
            => Cardinality(Counted \ {g}) >= MaxTotal]_vars

\* What the pool promises, without its counters.
Slots == INSTANCE BoundedSlots WITH holders <- SlotHolders

ImplementsSlots == Slots!Spec

\* Every call of the guard's constructor returns, and a slot that is taken
\* comes back, so no caller can block the worker for ever.
SlotsComeBack == \A g \in Guards : pc[g] # "idle" ~> pc[g] = "idle"

=============================================================================
