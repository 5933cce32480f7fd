-------------------------- MODULE ThreadPoolProofs --------------------------
(***************************************************************************)
(* Proofs about ThreadPool for every finite set of guards and all limits   *)
(* the constructor accepts.                                                *)
(*                                                                         *)
(* The type invariant is not inductive by itself: _waiting stays a natural *)
(* number because every decrement belongs to a caller that is counted, and *)
(* the semaphore stays within its slots because every release belongs to a *)
(* holder.  IInv therefore joins the type invariant with the two counting  *)
(* facts.                                                                  *)
(***************************************************************************)
EXTENDS ThreadPool, FiniteSetTheorems, TLAPS

-----------------------------------------------------------------------------
(* Both counted sets are finite, whatever the guards' owners do.           *)
LEMMA CountsAreNumbers ==
    /\ IsFiniteSet(SlotHolders) /\ Cardinality(SlotHolders) \in Nat
    /\ IsFiniteSet(Counted) /\ Cardinality(Counted) \in Nat
<1>1. SlotHolders \in SUBSET Guards /\ Counted \in SUBSET Guards
  BY DEF SlotHolders, Counted
<1>2. IsFiniteSet(SlotHolders) /\ IsFiniteSet(Counted)
  BY <1>1, GuardsAssumption, FS_Subset
<1> QED
  BY <1>2, FS_CardinalityType

(* Cardinalities after one element joins or leaves a finite set.           *)
LEMMA JoinCardinality ==
    ASSUME NEW S, NEW x, IsFiniteSet(S), x \notin S
    PROVE  Cardinality(S \cup {x}) = Cardinality(S) + 1
BY FS_AddElement

LEMMA LeaveCardinality ==
    ASSUME NEW S, NEW x, IsFiniteSet(S), x \in S
    PROVE  Cardinality(S \ {x}) = Cardinality(S) - 1
BY FS_RemoveElement

-----------------------------------------------------------------------------
(* Initially all slots are free and nobody is counted.                     *)
LEMMA InitEstablishes == Init => IInv
<1> SUFFICES ASSUME Init PROVE IInv
  OBVIOUS
<1>1. TypeOK
  BY LimitsAssumption DEF Init, TypeOK, PCs, Owners
<1>2. SlotHolders = {} /\ Counted = {}
  BY DEF Init, SlotHolders, Counted
<1>3. SlotsConserved
  BY <1>2, FS_EmptySet, LimitsAssumption DEF Init, SlotsConserved
<1>4. WaitingExact
  BY <1>2, FS_EmptySet DEF Init, WaitingExact
<1> QED
  BY <1>1, <1>3, <1>4 DEF IInv

(* Entering try_acquire: one more caller is counted.                       *)
LEMMA FetchAddPreserves ==
    ASSUME IInv, NEW g \in Guards, FetchAdd(g)
    PROVE  IInv'
<1> USE CountsAreNumbers DEF IInv
<1>1. SlotHolders' = SlotHolders /\ Counted' = Counted \cup {g}
      /\ g \notin Counted
  BY DEF FetchAdd, SlotHolders, Counted, TypeOK, PCs
<1>2. TypeOK'
  BY DEF FetchAdd, TypeOK, PCs
<1>3. SlotsConserved'
  BY <1>1 DEF FetchAdd, SlotsConserved, TypeOK
<1>4. WaitingExact'
  BY <1>1, JoinCardinality DEF FetchAdd, WaitingExact, TypeOK
<1> QED
  BY <1>2, <1>3, <1>4

(* Leaving try_acquire without a slot: one caller less is counted.         *)
LEMMA LeavePreserves ==
    ASSUME IInv, NEW g \in Guards, Reject(g) \/ TimeoutDecrement(g)
    PROVE  IInv'
<1> USE CountsAreNumbers DEF IInv
<1>1. SlotHolders' = SlotHolders /\ Counted' = Counted \ {g} /\ g \in Counted
  BY DEF Reject, TimeoutDecrement, SlotHolders, Counted, TypeOK, PCs
<1>2. waiting' = waiting - 1 /\ Cardinality(Counted') = Cardinality(Counted) - 1
  BY <1>1, LeaveCardinality DEF Reject, TimeoutDecrement
<1>3. Cardinality(Counted') \in Nat
  BY <1>1, <1>2, FS_RemoveElement, FS_CardinalityType
<1>4. WaitingExact'
  BY <1>2 DEF WaitingExact
<1>5. TypeOK'
  BY <1>3, <1>4 DEF Reject, TimeoutDecrement, TypeOK, PCs, WaitingExact
<1>6. SlotsConserved'
  BY <1>1 DEF Reject, TimeoutDecrement, SlotsConserved, TypeOK
<1> QED
  BY <1>4, <1>5, <1>6

(* Taking a slot: the semaphore and the set of holders move together.      *)
LEMMA SemAcquirePreserves ==
    ASSUME IInv, NEW g \in Guards, SemAcquire(g)
    PROVE  IInv'
<1> USE CountsAreNumbers DEF IInv
<1>1. SlotHolders' = SlotHolders \cup {g} /\ g \notin SlotHolders
      /\ Counted' = Counted
  BY DEF SemAcquire, SlotHolders, Counted, TypeOK, PCs
<1>2. TypeOK'
  BY LimitsAssumption DEF SemAcquire, TypeOK, PCs
<1>3. Cardinality(SlotHolders') = Cardinality(SlotHolders) + 1
  BY <1>1, JoinCardinality
<1>4. SlotsConserved'
  BY <1>3, LimitsAssumption DEF SemAcquire, SlotsConserved, TypeOK
<1>5. WaitingExact'
  BY <1>1 DEF SemAcquire, WaitingExact
<1> QED
  BY <1>2, <1>4, <1>5

(* Steps that move no slot and no count.                                   *)
LEMMA QuietPreserves ==
    ASSUME IInv, NEW g \in Guards,
           SemTimeout(g) \/ StartThread(g) \/ DiscardFailed(g)
    PROVE  IInv'
<1> USE DEF IInv
<1>1. SlotHolders' = SlotHolders /\ Counted' = Counted
  BY DEF SemTimeout, StartThread, DiscardFailed, SlotHolders, Counted, TypeOK,
         PCs
<1>2. TypeOK'
  BY DEF SemTimeout, StartThread, DiscardFailed, TypeOK, PCs, Owners
<1>3. SlotsConserved'
  BY <1>1 DEF SemTimeout, StartThread, DiscardFailed, SlotsConserved, TypeOK,
              Owners
<1>4. WaitingExact'
  BY <1>1 DEF SemTimeout, StartThread, DiscardFailed, WaitingExact
<1> QED
  BY <1>2, <1>3, <1>4

(* Leaving try_acquire with a slot: the caller stays a holder.             *)
LEMMA SuccessDecrementPreserves ==
    ASSUME IInv, NEW g \in Guards, SuccessDecrement(g)
    PROVE  IInv'
<1> USE CountsAreNumbers DEF IInv
<1>1. SlotHolders' = SlotHolders /\ Counted' = Counted \ {g} /\ g \in Counted
  BY DEF SuccessDecrement, SlotHolders, Counted, TypeOK, PCs
<1>2. waiting' = waiting - 1 /\ Cardinality(Counted') = Cardinality(Counted) - 1
  BY <1>1, LeaveCardinality DEF SuccessDecrement
<1>3. Cardinality(Counted') \in Nat
  BY <1>1, <1>2, FS_RemoveElement, FS_CardinalityType
<1>4. WaitingExact'
  BY <1>2 DEF WaitingExact
<1>5. TypeOK'
  BY <1>3, <1>4 DEF SuccessDecrement, TypeOK, PCs, Owners, WaitingExact
<1>6. SlotsConserved'
  BY <1>1 DEF SuccessDecrement, SlotsConserved, TypeOK
<1> QED
  BY <1>4, <1>5, <1>6

(* An owner lets go of the guard; only the last one gives the slot back.   *)
LEMMA DropRefPreserves ==
    ASSUME IInv, NEW g \in Guards, NEW o \in Owners, DropRef(g, o)
    PROVE  IInv'
<1> USE CountsAreNumbers DEF IInv
<1>1. Counted' = Counted
  BY DEF DropRef, Counted, TypeOK, PCs
<1>2. WaitingExact'
  BY <1>1 DEF DropRef, WaitingExact
<1>3. CASE refs[g] = {o}
  <2>1. SlotHolders' = SlotHolders \ {g} /\ g \in SlotHolders
    BY <1>3 DEF DropRef, SlotHolders, TypeOK, PCs
  <2>2. Cardinality(SlotHolders') = Cardinality(SlotHolders) - 1
    BY <2>1, LeaveCardinality
  <2>3. Cardinality(SlotHolders') \in Nat
    BY <2>1, FS_RemoveElement, FS_CardinalityType
  <2>4. sem' = sem + 1 /\ sem' + Cardinality(SlotHolders') = MaxRunning
    BY <1>3, <2>2, LimitsAssumption DEF DropRef, SlotsConserved, TypeOK
  <2>5. sem' \in 0 .. MaxRunning
    BY <2>3, <2>4, LimitsAssumption DEF TypeOK
  <2>6. TypeOK'
    BY <1>3, <2>5 DEF DropRef, TypeOK, PCs, Owners
  <2>7. SlotsConserved'
    BY <1>3, <2>4 DEF DropRef, SlotsConserved, TypeOK
  <2> QED
    BY <1>2, <2>6, <2>7
<1>4. CASE refs[g] # {o}
  <2>1. SlotHolders' = SlotHolders
    BY <1>4 DEF DropRef, SlotHolders
  <2>2. TypeOK'
    BY <1>4 DEF DropRef, TypeOK, PCs, Owners
  <2>3. SlotsConserved'
    BY <1>4, <2>1 DEF DropRef, SlotsConserved, TypeOK
  <2> QED
    BY <1>2, <2>2, <2>3
<1> QED
  BY <1>3, <1>4

(* Every step keeps the inductive invariant: one case per action.          *)
LEMMA NextPreserves == IInv /\ [Next]_vars => IInv'
<1> SUFFICES ASSUME IInv, [Next]_vars PROVE IInv'
  OBVIOUS
<1>1. CASE UNCHANGED vars
  BY <1>1 DEF IInv, TypeOK, SlotsConserved, WaitingExact, SlotHolders, Counted,
              vars
<1>2. CASE Next
  <2>1. PICK g \in Guards :
          FetchAdd(g) \/ Acquiring(g) \/ StartThread(g) \/ Finishing(g)
    BY <1>2 DEF Next
  <2>2. CASE FetchAdd(g)
    BY <2>2, FetchAddPreserves
  <2>3. CASE Reject(g) \/ TimeoutDecrement(g)
    BY <2>3, LeavePreserves
  <2>4. CASE SemAcquire(g)
    BY <2>4, SemAcquirePreserves
  <2>5. CASE SemTimeout(g) \/ StartThread(g) \/ DiscardFailed(g)
    BY <2>5, QuietPreserves
  <2>6. CASE SuccessDecrement(g)
    BY <2>6, SuccessDecrementPreserves
  <2>7. CASE TriggerReturns(g) \/ ThreadEnds(g)
    BY <2>7, DropRefPreserves DEF TriggerReturns, ThreadEnds, Owners
  <2> QED
    BY <2>1, <2>2, <2>3, <2>4, <2>5, <2>6, <2>7 DEF Acquiring, Finishing
<1> QED
  BY <1>1, <1>2

-----------------------------------------------------------------------------
(* Every reachable state of the pool has the types of the code's members   *)
(* and the two counting facts: slots are conserved and _waiting is exact.  *)
THEOREM PoolInvariant == Spec => []IInv
BY InitEstablishes, NextPreserves, PTL DEF Spec

(* The semaphore stays within its slots and _waiting never goes below zero. *)
THEOREM PoolTyped == Spec => []TypeOK
<1>1. IInv => TypeOK
  BY DEF IInv
<1> QED
  BY <1>1, PoolInvariant, PTL

(* No slot of the semaphore is lost or given back twice.                   *)
THEOREM PoolConservesSlots == Spec => []SlotsConserved
<1>1. IInv => SlotsConserved
  BY DEF IInv
<1> QED
  BY <1>1, PoolInvariant, PTL

(* _waiting is always the number of callers inside try_acquire.            *)
THEOREM PoolCountsExactly == Spec => []WaitingExact
<1>1. IInv => WaitingExact
  BY DEF IInv
<1> QED
  BY <1>1, PoolInvariant, PTL

(* A caller is refused at the cap only while maxTotal others are inside    *)
(* try_acquire: the atomic counter cannot be stale when it is compared.    *)
THEOREM PoolRejectsOnlyAtCap == Spec => RejectOnlyAtCap
<1>1. IInv /\ [Next]_vars
      => [\A g \in Guards :
            pc[g] = "idle" /\ pc'[g] = "rejecting"
               => Cardinality(Counted \ {g}) >= MaxTotal]_vars
  <2> SUFFICES ASSUME IInv, Next, NEW g \in Guards,
                      pc[g] = "idle", pc'[g] = "rejecting"
               PROVE  Cardinality(Counted \ {g}) >= MaxTotal
    BY DEF vars
  <2>1. PICK h \in Guards :
          FetchAdd(h) \/ Acquiring(h) \/ StartThread(h) \/ Finishing(h)
    BY DEF Next
  <2>2. FetchAdd(g) /\ waiting >= MaxTotal
    BY <2>1 DEF FetchAdd, Acquiring, StartThread, Finishing, Reject, SemAcquire,
                SemTimeout, TimeoutDecrement, SuccessDecrement, TriggerReturns,
                ThreadEnds, DropRef, DiscardFailed, IInv, TypeOK
  <2>3. Counted \ {g} = Counted
    BY DEF Counted
  <2> QED
    BY <2>2, <2>3 DEF IInv, WaitingExact
<1> QED
  BY <1>1, PoolInvariant, PTL DEF Spec, RejectOnlyAtCap

(* A step of the pool is a step of the abstract slots or changes no holder. *)
LEMMA StepRefines ==
    IInv /\ [Next]_vars => [Slots!Next]_SlotHolders
<1> SUFFICES ASSUME IInv, Next, SlotHolders' # SlotHolders
             PROVE  Slots!Next
  BY DEF vars, SlotHolders
<1> USE CountsAreNumbers DEF IInv
<1>1. PICK g \in Guards :
        FetchAdd(g) \/ Acquiring(g) \/ StartThread(g) \/ Finishing(g)
  BY DEF Next
<1>2. SemAcquire(g) \/ TriggerReturns(g) \/ ThreadEnds(g)
  BY <1>1 DEF FetchAdd, Acquiring, StartThread, Finishing, Reject, SemTimeout,
              TimeoutDecrement, SuccessDecrement, DiscardFailed, TypeOK,
              SlotHolders
<1>3. CASE SemAcquire(g)
  <2>1. SlotHolders' = SlotHolders \cup {g} /\ g \notin SlotHolders
    BY <1>3 DEF SemAcquire, SlotHolders, TypeOK
  <2>2. Cardinality(SlotHolders) < MaxRunning
    BY <1>3, LimitsAssumption DEF SemAcquire, SlotsConserved, TypeOK
  <2>3. Slots!Cardinality(SlotHolders) < MaxRunning
    BY <2>2 DEF Cardinality, Slots!Cardinality, IsFiniteSet, Slots!IsFiniteSet
  <2> QED
    BY <2>1, <2>3 DEF Slots!Next, Slots!Acquire
<1>4. CASE TriggerReturns(g) \/ ThreadEnds(g)
  <2>1. SlotHolders' = SlotHolders \ {g} /\ g \in SlotHolders
    BY <1>4 DEF TriggerReturns, ThreadEnds, DropRef, SlotHolders, TypeOK
  <2> QED
    BY <2>1 DEF Slots!Next, Slots!Release
<1> QED
  BY <1>2, <1>3, <1>4

(* The pool with its atomic counter, timeouts and shared guards implements *)
(* a bounded set of holders: what RunEventHandlers relies on.              *)
THEOREM PoolImplementsSlots == Spec => ImplementsSlots
<1>1. Init => Slots!Init
  BY DEF Init, Slots!Init, SlotHolders
<1> QED
  BY <1>1, PoolInvariant, StepRefines, PTL
     DEF Spec, ImplementsSlots, Slots!Spec

=============================================================================
