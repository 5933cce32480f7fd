---------------------------- MODULE BoundedSlots ----------------------------
(***************************************************************************)
(* What the thread pool promises its callers: a set of holders that never  *)
(* outgrows the number of slots.  A guard takes a slot, keeps it, and      *)
(* gives it back once.  Nothing is said about counters, waiting or time:   *)
(* ThreadPool adds those and is shown to implement this.                   *)
(***************************************************************************)
EXTENDS Naturals, FiniteSets

CONSTANTS
    Guards,      \* the ThreadpoolGuard objects
    MaxRunning   \* number of slots

VARIABLE holders \* the guards that hold a slot

Init == holders = {}

Acquire(g) ==
    /\ g \notin holders
    /\ Cardinality(holders) < MaxRunning
    /\ holders' = holders \cup {g}

Release(g) ==
    /\ g \in holders
    /\ holders' = holders \ {g}

Next == \E g \in Guards : Acquire(g) \/ Release(g)

Spec == Init /\ [][Next]_holders

=============================================================================
