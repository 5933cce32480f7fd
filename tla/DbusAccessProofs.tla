-------------------------- MODULE DbusAccessProofs --------------------------
(***************************************************************************)
(* Proofs about DbusAccess for every set of threads and every bound.       *)
(*                                                                         *)
(* DelayerOK is not inductive: that a thread finds the delayer idle rests  *)
(* on the mutex, which the threads between lock and the end of the call    *)
(* hold and no others (LockHeld), and on the state being the holder's      *)
(* (StateOfHolder).  That a call keeps its distance rests on the sleep     *)
(* making up for what is missing of the bound (SleepSuffices).             *)
(***************************************************************************)
EXTENDS DbusAccess, TLAPS

Inside == {t \in Threads : pc[t] \in {"check", "sleep", "call", "undelayed"}}

LockHeld == lock = Inside

StateOfHolder ==
    /\ state = "waiting" <=> \E t \in Threads : pc[t] = "sleep"
    /\ state = "calling" <=> \E t \in Threads : pc[t] = "call"

SleepSuffices ==
    /\ since <= quiet
    /\ \A t \in Threads : pc[t] = "sleep" => wait[t] + since >= Bound

\* What a function has still to call is the rest of its own list, and a
\* thread on its way to a call has one to make.
CallsOf(f) == {<<>>, Functions[f], Tail(Functions[f])}

CallsKept ==
    \A t \in Threads : /\ calls[t] \in CallsOf(op[t])
                       /\ pc[t] # "idle" => calls[t] # <<>>

DelayerInv ==
    /\ DelayerOK
    /\ LockHeld
    /\ StateOfHolder
    /\ SleepSuffices
    /\ CallsKept

-----------------------------------------------------------------------------
(* The lists of methods                                                    *)

LEMMA OpsListed ==
    Ops = {"readDbusProperty", "setDbusProperty", "getService",
           "deviceGetCoreAPI", "deviceClearCoreAPI", "getSubTreePathsImpl",
           "getSubtreeImpl", "getObjectImpl", "createLog"}
  BY DEF Ops, Functions

LEMMA LongLists ==
    ASSUME NEW f \in {"readDbusProperty", "setDbusProperty"}
    PROVE  /\ Functions[f] # <<>>
           /\ Tail(Functions[f]) # <<>> /\ Tail(Tail(Functions[f])) = <<>>
<1> DEFINE Last == {"Get", "Set"}
<1>1. \E a \in Last : Functions[f] = <<"GetObject", a>>
  BY DEF Functions
<1>2. ASSUME NEW a \in Last
      PROVE  /\ <<"GetObject", a>> # <<>> /\ Tail(<<"GetObject", a>>) # <<>>
             /\ Tail(Tail(<<"GetObject", a>>)) = <<>>
  OBVIOUS
<1> HIDE DEF Last
<1> QED
  BY <1>1, <1>2

LEMMA ShortLists ==
    ASSUME NEW f \in Ops \ {"readDbusProperty", "setDbusProperty"}
    PROVE  Functions[f] # <<>> /\ Tail(Functions[f]) = <<>>
<1> DEFINE Methods == {"GetObject", "DeviceGetData", "DeviceClearData",
                       "GetSubTreePaths", "GetSubTree", "Create"}
<1>1. \E a \in Methods : Functions[f] = <<a>>
  BY OpsListed DEF Functions
<1>2. ASSUME NEW a \in Methods
      PROVE  <<a>> # <<>> /\ Tail(<<a>>) = <<>>
  OBVIOUS
<1> HIDE DEF Methods
<1> QED
  BY <1>1, <1>2

\* Of what is left of a list nothing is left after a call, or its tail.
LEMMA ListsOfCalls ==
    ASSUME NEW f \in Ops, NEW c \in CallsOf(f), c # <<>>, Tail(c) # <<>>
    PROVE  Tail(c) \in CallsOf(f)
<1>1. c = Functions[f] \/ c = Tail(Functions[f])
  BY DEF CallsOf
<1>2. CASE f \in {"readDbusProperty", "setDbusProperty"}
  BY <1>1, <1>2, LongLists DEF CallsOf
<1>3. CASE f \notin {"readDbusProperty", "setDbusProperty"}
  BY <1>1, <1>3, ShortLists DEF CallsOf
<1> QED
  BY <1>2, <1>3

LEMMA ListsNotEmpty ==
    ASSUME NEW f \in Ops
    PROVE  /\ Functions[f] # <<>>
           /\ f \in {"readDbusProperty", "setDbusProperty"}
                => Tail(Functions[f]) # <<>>
  BY LongLists, ShortLists

LEMMA ListsTyped ==
    ASSUME NEW f \in Ops
    PROVE  CallsOf(f) \subseteq CallLists
  BY DEF CallsOf, CallLists

-----------------------------------------------------------------------------
(* One lemma for each kind of step.  TypeOK's conjunct about calls follows *)
(* from CallsKept; what the steps have in common comes first.              *)

LEMMA InitInv == Init => DelayerInv
<1> SUFFICES ASSUME Init PROVE DelayerInv
  OBVIOUS
<1> USE BoundNat DEF Init
<1>1. TypeOK
  <2>1. "getService" \in Ops /\ <<>> \in CallLists
    BY OpsListed DEF CallLists
  <2> QED
    BY <2>1 DEF TypeOK, States, PCs
<1>2. NeverFallsBack /\ LockHeld /\ StateOfHolder /\ SleepSuffices
  BY DEF NeverFallsBack, LockHeld, Inside, StateOfHolder, SleepSuffices
<1>3. CallsKept
  BY DEF CallsKept, CallsOf
<1> QED
  BY <1>1, <1>2, <1>3 DEF DelayerInv, DelayerOK

\* A function begins outside of the delayer.
LEMMA BeginInv ==
    ASSUME DelayerInv, NEW t \in Threads,
           RefuseRange(t) \/ \E f \in Ops : Begin(t, f)
    PROVE  DelayerInv'
<1> USE DEF DelayerInv, DelayerOK
<1>1. /\ pc[t] = "idle" /\ pc'[t] \in {"idle", "lock", "raw"}
      /\ \A s \in Threads \ {t} : pc'[s] = pc[s]
      /\ UNCHANGED <<state, since, lock, wait, quiet>>
  BY DEF RefuseRange, Begin, TypeOK
<1>2. CallsKept'
  <2>1. \A s \in Threads \ {t} : calls'[s] = calls[s] /\ op'[s] = op[s]
    BY DEF RefuseRange, Begin, TypeOK
  <2>2. /\ op'[t] \in Ops /\ calls'[t] \in CallsOf(op'[t])
        /\ pc'[t] # "idle" => calls'[t] # <<>>
    <3>1. CASE RefuseRange(t)
      BY <3>1, OpsListed DEF RefuseRange, TypeOK, CallsOf
    <3>2. ASSUME NEW f \in Ops, Begin(t, f)
          PROVE  /\ op'[t] \in Ops /\ calls'[t] \in CallsOf(op'[t])
                 /\ calls'[t] # <<>>
      <4>1. PICK methods \in {Functions[f], Tail(Functions[f])} :
               /\ \/ methods = Functions[f]
                  \/ f \in {"readDbusProperty", "setDbusProperty"}
               /\ calls' = [calls EXCEPT ![t] = methods]
        BY <3>2 DEF Begin
      <4>2. methods # <<>>
        BY <4>1, ListsNotEmpty
      <4>3. op'[t] = f /\ calls'[t] = methods
        BY <3>2, <4>1 DEF Begin, TypeOK
      <4> QED
        BY <4>1, <4>2, <4>3 DEF CallsOf
    <3> QED
      BY <3>1, <3>2
  <2> QED
    BY <1>1, <2>1, <2>2 DEF CallsKept
<1>3. TypeOK'
  <2>1. /\ pc' \in [Threads -> PCs] /\ op' \in [Threads -> Ops]
        /\ ret' \in [Threads -> {"good", "bad"}]
        /\ reply' \in [Threads -> Outcomes \cup {"none"}]
    <3>1. CASE RefuseRange(t)
      BY <3>1, OpsListed DEF RefuseRange, TypeOK
    <3>2. ASSUME NEW f \in Ops, Begin(t, f)
          PROVE  /\ pc' \in [Threads -> PCs] /\ op' \in [Threads -> Ops]
                 /\ ret' \in [Threads -> {"good", "bad"}]
                 /\ reply' \in [Threads -> Outcomes \cup {"none"}]
      BY <3>2 DEF Begin, BeforeCall, TypeOK, PCs
    <3> QED
      BY <3>1, <3>2
  <2>2. \A s \in Threads : calls'[s] \in CallsOf(op'[s])
    BY <1>2 DEF CallsKept
  <2>3. calls' = [s \in Threads |-> calls'[s]]
    BY DEF RefuseRange, Begin, TypeOK
  <2> QED
    BY <1>1, <2>1, <2>2, <2>3, ListsTyped DEF TypeOK
<1>4. NeverFallsBack' /\ LockHeld' /\ StateOfHolder' /\ SleepSuffices'
  BY <1>1 DEF NeverFallsBack, LockHeld, Inside, StateOfHolder, SleepSuffices
<1> QED
  BY <1>2, <1>3, <1>4

\* The mutex: the thread that gets it finds the delayer idle.
LEMMA LockInv ==
    ASSUME DelayerInv, NEW t \in Threads, Lock(t)
    PROVE  DelayerInv'
<1> USE DEF DelayerInv, DelayerOK
<1>1. pc[t] = "lock" /\ pc'[t] = "check"
      /\ \A s \in Threads \ {t} : pc'[s] = pc[s]
  BY DEF Lock, TypeOK
<1>2. TypeOK' /\ CallsKept'
  BY <1>1 DEF Lock, TypeOK, PCs, CallsKept
<1>3. NeverFallsBack' /\ LockHeld' /\ StateOfHolder' /\ SleepSuffices'
  BY <1>1 DEF Lock, NeverFallsBack, LockHeld, Inside, StateOfHolder,
              SleepSuffices
<1> QED
  BY <1>2, <1>3

\* The holder is the only thread inside.
LEMMA HolderAlone ==
    ASSUME DelayerInv, NEW t \in Inside
    PROVE  /\ \A s \in Threads \ {t} : s \notin Inside
           /\ pc[t] = "check" => state = "idle"
           /\ pc[t] \in {"sleep", "call"} => state # "idle"
<1>1. \A s \in Threads \ {t} : s \notin Inside
  BY DEF DelayerInv, DelayerOK, TypeOK, LockHeld, Inside
<1> QED
  BY <1>1 DEF DelayerInv, DelayerOK, TypeOK, States, StateOfHolder, Inside

LEMMA AttemptInv ==
    ASSUME DelayerInv, NEW t \in Threads, callStartAttempt(t)
    PROVE  DelayerInv'
<1> USE DEF DelayerInv, DelayerOK
<1>1. pc[t] = "check" /\ t \in Inside
  BY DEF callStartAttempt, Inside
<1>2. /\ state' = "waiting" /\ pc'[t] = "sleep" /\ wait'[t] = Bound - since
      /\ \A s \in Threads \ {t} : pc'[s] = pc[s] /\ wait'[s] = wait[s]
      /\ UNCHANGED <<since, lock, op, calls, quiet>>
  BY <1>1, HolderAlone DEF callStartAttempt, callStartAttemptImpl, TypeOK
<1>3. TypeOK'
  BY <1>1, HolderAlone, BoundNat
     DEF callStartAttempt, callStartAttemptImpl, TypeOK, PCs, States
<1>4. NeverFallsBack' /\ LockHeld' /\ StateOfHolder'
  BY <1>1, <1>2, HolderAlone DEF NeverFallsBack, LockHeld, Inside, StateOfHolder
<1>5. SleepSuffices'
  BY <1>1, <1>2, BoundNat DEF SleepSuffices, TypeOK
<1>6. CallsKept'
  BY <1>1, <1>2 DEF CallsKept
<1> QED
  BY <1>3, <1>4, <1>5, <1>6

LEMMA ActualInv ==
    ASSUME DelayerInv, NEW t \in Threads, callStartActual(t)
    PROVE  DelayerInv'
<1> USE DEF DelayerInv, DelayerOK
<1>1. pc[t] = "sleep" /\ t \in Inside /\ state = "waiting"
  BY DEF callStartActual, Inside, StateOfHolder
<1>2. /\ state' = "calling" /\ pc'[t] = "call"
      /\ \A s \in Threads \ {t} : pc'[s] = pc[s]
      /\ UNCHANGED <<since, lock, wait, op, calls, quiet>>
  BY <1>1 DEF callStartActual, TypeOK
<1>3. TypeOK'
  BY <1>1, <1>2 DEF callStartActual, TypeOK, PCs, States
<1>4. NeverFallsBack' /\ LockHeld' /\ StateOfHolder'
  BY <1>1, <1>2, HolderAlone DEF NeverFallsBack, LockHeld, Inside, StateOfHolder
<1>5. SleepSuffices' /\ CallsKept'
  BY <1>1, <1>2 DEF SleepSuffices, CallsKept
<1> QED
  BY <1>3, <1>4, <1>5

\* A thread that is not inside the delayer, or leaves it, has still to make
\* what it had to, or the rest of it, or nothing.
LEMMA CallsShrink ==
    ASSUME DelayerInv, NEW t \in Threads, pc[t] # "idle", op' = op,
           calls' = [calls EXCEPT ![t] = calls'[t]],
           calls'[t] \in {calls[t], Tail(calls[t]), <<>>},
           pc' = [pc EXCEPT ![t] = pc'[t]],
           pc'[t] # "idle" => calls'[t] # <<>>
    PROVE  CallsKept' /\ calls' \in [Threads -> CallLists]
<1> USE DEF DelayerInv, DelayerOK
<1>1. op[t] \in Ops /\ calls[t] \in CallsOf(op[t]) /\ calls[t] # <<>>
  BY DEF TypeOK, CallsKept
<1>2. /\ \A s \in Threads \ {t} : pc'[s] = pc[s] /\ calls'[s] = calls[s]
      /\ calls' = [s \in Threads |-> calls'[s]]
  BY DEF TypeOK
<1>3. calls'[t] \in CallsOf(op[t])
  BY <1>1, ListsOfCalls DEF CallsOf
<1>4. CallsKept'
  BY <1>2, <1>3 DEF CallsKept
<1>5. \A s \in Threads : op[s] \in Ops /\ calls'[s] \in CallsOf(op[s])
  BY <1>4 DEF CallsKept, TypeOK
<1> QED
  BY <1>2, <1>4, <1>5, ListsTyped

LEMMA FinishInv ==
    ASSUME DelayerInv, NEW t \in Threads, CallReturns(t) \/ CallThrows(t)
    PROVE  DelayerInv'
<1> USE DEF DelayerInv, DelayerOK
<1>1. pc[t] = "call" /\ t \in Inside
  BY DEF CallReturns, CallThrows, NeverFallsBack, Inside
<1>2. /\ state' = "idle" /\ since' = 0 /\ quiet' = 0 /\ lock' = lock \ {t}
      /\ UNCHANGED <<wait, op, ret>>
  BY <1>1, HolderAlone DEF CallReturns, CallThrows, callFinished
<1>3. /\ pc' = [pc EXCEPT ![t] = pc'[t]]
      /\ calls' = [calls EXCEPT ![t] = calls'[t]]
      /\ \/ pc'[t] = "read" /\ calls'[t] = calls[t]
         \/ pc'[t] = "idle" /\ calls'[t] = <<>>
      /\ reply' \in [Threads -> Outcomes \cup {"none"}]
  <2>1. CASE CallReturns(t)
    BY <2>1 DEF CallReturns, RepliesTo, Outcomes, TypeOK
  <2>2. CASE CallThrows(t)
    BY <2>2 DEF CallThrows, Outcomes, TypeOK
  <2> QED
    BY <2>1, <2>2
<1>4. CallsKept' /\ calls' \in [Threads -> CallLists]
  <2>1. calls[t] # <<>>
    BY <1>1 DEF CallsKept
  <2> QED
    BY <1>1, <1>2, <1>3, <2>1, CallsShrink
<1>5. TypeOK'
  BY <1>2, <1>3, <1>4, BoundNat DEF TypeOK, States, PCs
<1>6. NeverFallsBack' /\ LockHeld' /\ StateOfHolder' /\ SleepSuffices'
  <2>1. \A s \in Threads : pc'[s] \notin {"check", "sleep", "call", "undelayed"}
    BY <1>1, <1>3, HolderAlone DEF Inside, TypeOK
  <2>2. lock' = {}
    BY <1>1, <1>2, HolderAlone DEF LockHeld, Inside
  <2> QED
    BY <1>2, <2>1, <2>2, BoundNat
       DEF NeverFallsBack, LockHeld, Inside, StateOfHolder, SleepSuffices
<1> QED
  BY <1>4, <1>5, <1>6

\* Reading a reply, and createLog's own call, do not concern the delayer.
LEMMA OutsideInv ==
    ASSUME DelayerInv, NEW t \in Threads, Read(t) \/ RawReturns(t)
    PROVE  DelayerInv'
<1> USE DEF DelayerInv, DelayerOK
<1>1. /\ pc[t] \in {"read", "raw"} /\ pc'[t] \in {"idle", "lock"}
      /\ pc' = [pc EXCEPT ![t] = pc'[t]] /\ pc' \in [Threads -> PCs]
      /\ UNCHANGED <<state, since, lock, wait, op, quiet>>
  BY DEF Read, RawReturns, TypeOK, PCs
<1>2. /\ calls' = [calls EXCEPT ![t] = calls'[t]]
      /\ calls'[t] \in {Tail(calls[t]), <<>>}
      /\ pc'[t] # "idle" => calls'[t] # <<>>
  BY DEF Read, RawReturns, TypeOK
<1>3. /\ ret' \in [Threads -> {"good", "bad"}]
      /\ reply' \in [Threads -> Outcomes \cup {"none"}]
  BY DEF Read, RawReturns, BeforeCall, Outcomes, TypeOK
<1>4. CallsKept' /\ calls' \in [Threads -> CallLists]
  BY <1>1, <1>2, CallsShrink
<1>5. TypeOK'
  BY <1>1, <1>3, <1>4 DEF TypeOK
<1>6. NeverFallsBack' /\ LockHeld' /\ StateOfHolder' /\ SleepSuffices'
  BY <1>1 DEF NeverFallsBack, LockHeld, Inside, StateOfHolder, SleepSuffices,
              TypeOK
<1> QED
  BY <1>4, <1>5, <1>6

\* What a sleeper loses the clock gains, until the clock is at the bound.
LEMMA TickInv ==
    ASSUME DelayerInv, Tick
    PROVE  DelayerInv'
<1> USE BoundNat DEF DelayerInv, DelayerOK
<1>1. /\ since' \in 0 .. Bound /\ quiet' \in 0 .. Bound /\ since' <= quiet'
      /\ since' = since + 1 \/ since' = Bound
  BY DEF Tick, Minimum, TypeOK, SleepSuffices
<1>2. \A t \in Threads : wait'[t] \in 0 .. Bound
                         /\ (wait'[t] = wait[t] - 1 \/ (wait[t] = 0 /\ wait'[t] = 0))
  BY DEF Tick, TypeOK
<1>3. TypeOK'
  BY <1>1, <1>2 DEF Tick, TypeOK
<1>4. SleepSuffices'
  BY <1>1, <1>2 DEF Tick, TypeOK, SleepSuffices
<1>5. NeverFallsBack' /\ LockHeld' /\ StateOfHolder' /\ CallsKept'
  BY DEF Tick, NeverFallsBack, LockHeld, Inside, StateOfHolder, CallsKept
<1> QED
  BY <1>3, <1>4, <1>5

LEMMA NextInv == DelayerInv /\ [Next]_vars => DelayerInv'
<1> SUFFICES ASSUME DelayerInv, [Next]_vars PROVE DelayerInv'
  OBVIOUS
<1>1. CASE UNCHANGED vars
  BY <1>1 DEF vars, DelayerInv, DelayerOK, TypeOK, NeverFallsBack, LockHeld,
              Inside, StateOfHolder, SleepSuffices, CallsKept
<1>2. CASE \E t \in Threads : Step(t)
  BY <1>2, AttemptInv, ActualInv, FinishInv, OutsideInv DEF Step
<1> QED
  BY <1>1, <1>2, BeginInv, LockInv, TickInv DEF Next

\* The inductive invariant of the threads that share the delayer.
THEOREM DelayerInvariant == Spec => []DelayerInv
  BY InitInv, NextInv, PTL DEF Spec

(* Whatever interleaving, failure or early end of a call came before, a    *)
(* thread that gets the mutex finds the delayer idle: no call is made      *)
(* without delay.                                                          *)
THEOREM DelayerNeverFallsBack == Spec => []DelayerOK
  BY DelayerInvariant, PTL DEF DelayerInv

-----------------------------------------------------------------------------
(* A delayed call starts at least Bound after the end of the last one, and *)
(* never during one.                                                       *)
THEOREM CallsAreSpaced == Spec => CallsSpaced
<1>1. DelayerInv /\ [Next]_vars =>
        [\A t \in Threads :
           pc[t] = "sleep" /\ pc'[t] = "call"
             => /\ quiet = Bound
                /\ \A s \in Threads : pc[s] \notin {"call", "undelayed"}]_vars
  <2> SUFFICES ASSUME DelayerInv, Next, NEW t \in Threads,
                      pc[t] = "sleep", pc'[t] = "call"
               PROVE  /\ quiet = Bound
                      /\ \A s \in Threads : pc[s] \notin {"call", "undelayed"}
    BY DEF vars
  <2>1. callStartActual(t)
    <3>1. ASSUME NEW u \in Threads, u # t,
                 \/ \E f \in Ops : Begin(u, f)
                 \/ RefuseRange(u) \/ Lock(u) \/ Step(u)
          PROVE  pc'[t] = pc[t]
      BY <3>1 DEF Begin, RefuseRange, Lock, Step, callStartAttempt,
                  callStartActual, CallReturns, CallThrows, Read,
                  RawReturns, DelayerInv, DelayerOK, TypeOK
    <3>2. ~Tick
      BY DEF Tick
    <3> QED
      BY <3>1, <3>2 DEF Next, Begin, RefuseRange, Lock, Step, callStartAttempt,
                        CallReturns, CallThrows, Read, RawReturns
  <2>2. quiet = Bound
    BY <2>1, BoundNat
       DEF callStartActual, DelayerInv, DelayerOK, TypeOK, SleepSuffices
  <2>3. t \in Inside
    BY DEF Inside
  <2> QED
    BY <2>2, <2>3, HolderAlone DEF Inside
<1> QED
  BY <1>1, DelayerInvariant, PTL DEF Spec, CallsSpaced
=============================================================================
