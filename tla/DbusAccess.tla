----------------------------- MODULE DbusAccess -----------------------------
(***************************************************************************)
(* The calls every thread of the daemon makes over D-Bus                   *)
(* (src/dbus_accessor.cpp).  All of them go through one DbusDelayer, the   *)
(* state machine idle - waiting - calling, whose mutex a thread holds from *)
(* the start of DelayedMethod::call to its end, the delay included.  Only  *)
(* MessageComposer::createLog calls the bus itself.                        *)
(*                                                                         *)
(* Time is counted in units; as the delayer compares the time since the    *)
(* last call with its bound, no more than Bound units are told apart.      *)
(***************************************************************************)
EXTENDS Integers, Sequences, FiniteSets

CONSTANTS
    Threads,  \* worker, event threads, main thread
    Bound     \* _waitTimeLowerBound (option -s)

ASSUME BoundNat == Bound \in Nat

VARIABLES
    state,   \* DbusDelayer::state
    since,   \* time since _lastCallFinish, as far as the delayer cares
    lock,    \* the threads inside DelayedMethod::call's lock_guard
    pc,      \* where each thread is
    wait,    \* what is left of its sleep
    op,      \* the function of dbus_accessor.cpp it is in
    calls,   \* the D-Bus methods that function has still to call
    ret,     \* its result variable: "good", or "bad" (empty, -1 or false)
    reply,   \* how the last call ended, once it has
    quiet    \* time since the end of a delayed call (for the properties)

vars == <<state, since, lock, pc, wait, op, calls, ret, reply, quiet>>

States == {"idle", "waiting", "calling"}

\* idle: outside; lock .. call: inside DelayedMethod::call; undelayed: its
\* fallback; read: back in the function, with a reply; raw: createLog's call.
PCs == {"idle", "lock", "check", "sleep", "call", "undelayed", "read", "raw"}

\* The D-Bus methods each function calls, one after the other.  The threads
\* that make a DelayedMethod of their own do as getObjectImpl.
Functions ==
    [readDbusProperty    |-> <<"GetObject", "Get">>,
     setDbusProperty     |-> <<"GetObject", "Set">>,
     getService          |-> <<"GetObject">>,
     deviceGetCoreAPI    |-> <<"DeviceGetData">>,
     deviceClearCoreAPI  |-> <<"DeviceClearData">>,
     getObjectImpl       |-> <<"GetObject">>,
     getSubTreePathsImpl |-> <<"GetSubTreePaths">>,
     getSubtreeImpl      |-> <<"GetSubTree">>,
     createLog           |-> <<"Create">>]

Ops == DOMAIN Functions

\* What such a function may still have to call.
CallLists ==
    UNION {{<<>>, Functions[f], Tail(Functions[f])} : f \in Ops}

\* How a call ends: the reply says what was hoped for; it has no service, or a
\* return code other than 0; it cannot be read; there is none, as the call has
\* thrown.
Outcomes == {"yes", "no", "unreadable", "thrown"}

\* What can come back from a method.  The reply to Set and Create is not read.
RepliesTo(method) ==
    CASE method \in {"Set", "Create"} -> {"yes"}
      [] method \in {"GetObject", "DeviceGetData", "DeviceClearData"} ->
             {"yes", "no", "unreadable"}
      [] OTHER -> {"yes", "unreadable"}

Minimum(a, b) == IF a < b THEN a ELSE b

TypeOK ==
    /\ state \in States
    /\ since \in 0 .. Bound
    /\ lock \subseteq Threads
    /\ \A s, t \in lock : s = t
    /\ pc \in [Threads -> PCs]
    /\ wait \in [Threads -> 0 .. Bound]
    /\ op \in [Threads -> Ops]
    /\ calls \in [Threads -> CallLists]
    /\ ret \in [Threads -> {"good", "bad"}]
    /\ reply \in [Threads -> Outcomes \cup {"none"}]
    /\ quiet \in 0 .. Bound

Init ==
    /\ state = "idle"
    /\ since = 0
    /\ lock = {}
    /\ pc = [t \in Threads |-> "idle"]
    /\ wait = [t \in Threads |-> 0]
    /\ op = [t \in Threads |-> "getService"]
    /\ calls = [t \in Threads |-> <<>>]
    /\ ret = [t \in Threads |-> "bad"]
    /\ reply = [t \in Threads |-> "none"]
    /\ quiet = Bound

-----------------------------------------------------------------------------
(* The functions                                                           *)

\* What the result variable is when the function is about to make the first of
\* these calls: setDbusProperty puts true in it before it calls Set, and a Set
\* that throws leaves it so.
BeforeCall(methods) == IF Head(methods) = "Set" THEN "good" ELSE "bad"

\* A function is called.  getService knows the service of GpioStatusHandler
\* objects without a call.
Begin(t, f) ==
    /\ pc[t] = "idle"
    /\ op' = [op EXCEPT ![t] = f]
    /\ \E methods \in {Functions[f], Tail(Functions[f])} :
          /\ \/ methods = Functions[f]
             \/ f \in {"readDbusProperty", "setDbusProperty"}
          /\ calls' = [calls EXCEPT ![t] = methods]
          /\ ret' = [ret EXCEPT ![t] = BeforeCall(methods)]
    /\ pc' = [pc EXCEPT ![t] = IF f = "createLog" THEN "raw" ELSE "lock"]
    /\ reply' = [reply EXCEPT ![t] = "none"]
    /\ UNCHANGED <<state, since, lock, wait, quiet>>

\* readDbusProperty refuses an object path with a range.
RefuseRange(t) ==
    /\ pc[t] = "idle"
    /\ op' = [op EXCEPT ![t] = "readDbusProperty"]
    /\ calls' = [calls EXCEPT ![t] = <<>>]
    /\ ret' = [ret EXCEPT ![t] = "bad"]
    /\ reply' = [reply EXCEPT ![t] = "none"]
    /\ UNCHANGED <<state, since, lock, pc, wait, quiet>>

\* The function takes the reply apart.  With a service name it goes on to Get
\* or Set; without one readDbusProperty returns, and setDbusProperty's next
\* call cannot be built.  A Set that has come back leaves ret as it is, and so
\* does what the function catches while it reads: deviceClearCoreAPI takes back
\* a 0 that has been read by then.
Read(t) ==
    /\ pc[t] = "read"
    /\ LET rest == IF reply[t] = "yes" THEN Tail(calls[t]) ELSE <<>>
       IN /\ calls' = [calls EXCEPT ![t] = rest]
          /\ pc' = [pc EXCEPT ![t] = IF rest = <<>> THEN "idle" ELSE "lock"]
          /\ ret' = [ret EXCEPT ![t] = IF rest # <<>> THEN BeforeCall(rest)
                                       ELSE IF reply[t] = "yes" THEN "good"
                                       ELSE @]
    /\ UNCHANGED <<state, since, lock, wait, op, reply, quiet>>

-----------------------------------------------------------------------------
(* DelayedMethod::call and the delayer                                     *)

Lock(t) ==
    /\ pc[t] = "lock"
    /\ lock = {}
    /\ lock' = {t}
    /\ pc' = [pc EXCEPT ![t] = "check"]
    /\ UNCHANGED <<state, since, wait, op, calls, ret, reply, quiet>>

\* What is left of the bound since the last call has finished.
callStartAttemptImpl == Bound - since

\* callStartAttempt says how long to sleep; if the delayer is in use the call
\* is made without delay.
callStartAttempt(t) ==
    /\ pc[t] = "check"
    /\ IF state = "idle"
       THEN /\ state' = "waiting"
            /\ wait' = [wait EXCEPT ![t] = callStartAttemptImpl]
            /\ pc' = [pc EXCEPT ![t] = "sleep"]
       ELSE /\ pc' = [pc EXCEPT ![t] = "undelayed"]
            /\ UNCHANGED <<state, wait>>
    /\ UNCHANGED <<since, lock, op, calls, ret, reply, quiet>>

\* Mutant: the delayer does not wait.
callStartActualAtOnce(t) ==
    /\ pc[t] = "sleep"
    /\ state' = IF state = "waiting" THEN "calling" ELSE state
    /\ pc' = [pc EXCEPT ![t] = "call"]
    /\ UNCHANGED <<since, lock, wait, op, calls, ret, reply, quiet>>

\* The sleep is over; the call starts.
callStartActual(t) ==
    /\ pc[t] = "sleep"
    /\ wait[t] = 0
    /\ state' = IF state = "waiting" THEN "calling" ELSE state
    /\ pc' = [pc EXCEPT ![t] = "call"]
    /\ UNCHANGED <<since, lock, wait, op, calls, ret, reply, quiet>>

\* Mutants: without the guard the exception leaves the delayer as it is; the
\* lock is not released.
callFinishedUnguarded(t) ==
    /\ state' = IF reply'[t] = "thrown" THEN state ELSE "idle"
    /\ since' = IF reply'[t] = "thrown" THEN since ELSE 0
    /\ lock' = lock \ {t}
    /\ quiet' = 0
    /\ UNCHANGED <<wait, op>>

callFinishedLocked(t) ==
    /\ state' = "idle"
    /\ since' = 0
    /\ lock' = IF reply'[t] = "thrown" THEN lock ELSE lock \ {t}
    /\ quiet' = 0
    /\ UNCHANGED <<wait, op>>

\* The end of DelayedMethod::call, by return or by exception: callFinished, by
\* itself or by DbusDelayerStateGuard, then the lock_guard.
callFinished(t) ==
    /\ state' = "idle"
    /\ since' = IF state = "idle" THEN since ELSE 0
    /\ lock' = lock \ {t}
    /\ quiet' = 0
    /\ UNCHANGED <<wait, op>>

\* The call returns; its caller reads the reply when the mutex is free again.
CallReturns(t) ==
    /\ pc[t] \in {"call", "undelayed"}
    /\ pc' = [pc EXCEPT ![t] = "read"]
    /\ \E r \in RepliesTo(Head(calls[t])) : reply' = [reply EXCEPT ![t] = r]
    /\ callFinished(t)
    /\ UNCHANGED <<calls, ret>>

\* The call throws.  The functions catch it, or pass it on, and leave ret as it
\* is.
CallThrows(t) ==
    /\ pc[t] \in {"call", "undelayed"}
    /\ pc' = [pc EXCEPT ![t] = "idle"]
    /\ calls' = [calls EXCEPT ![t] = <<>>]
    /\ reply' = [reply EXCEPT ![t] = "thrown"]
    /\ callFinished(t)
    /\ UNCHANGED ret

\* createLog's own call ends: true, or false when it throws.
RawReturns(t) ==
    /\ pc[t] = "raw"
    /\ \E r \in {"yes", "thrown"} :
          /\ reply' = [reply EXCEPT ![t] = r]
          /\ ret' = [ret EXCEPT ![t] = IF r = "yes" THEN "good" ELSE "bad"]
    /\ pc' = [pc EXCEPT ![t] = "idle"]
    /\ calls' = [calls EXCEPT ![t] = <<>>]
    /\ UNCHANGED <<state, since, lock, wait, op, quiet>>

\* A unit of time passes.
Tick ==
    /\ since' = Minimum(since + 1, Bound)
    /\ quiet' = Minimum(quiet + 1, Bound)
    /\ wait' = [t \in Threads |-> IF wait[t] = 0 THEN 0 ELSE wait[t] - 1]
    /\ UNCHANGED <<state, lock, pc, op, calls, ret, reply>>

\* What a thread does by itself once it has called one of the functions.
Step(t) ==
    \/ callStartAttempt(t) \/ callStartActual(t)
    \/ CallReturns(t) \/ CallThrows(t) \/ Read(t)
    \/ RawReturns(t)

Next ==
    \/ \E t \in Threads :
          \/ \E f \in Ops : Begin(t, f)
          \/ RefuseRange(t)
          \/ Lock(t)
          \/ Step(t)
    \/ Tick

Spec == Init /\ [][Next]_vars

\* Threads run, a bus call returns or times out, and time passes.  Nothing is
\* assumed of who gets the mutex.
FairSpec == Spec /\ WF_vars(Tick) /\ \A t \in Threads : WF_vars(Step(t))

-----------------------------------------------------------------------------
(* Properties                                                              *)

\* Whatever interleaving, failure or early end of a call came before: a thread
\* that enters DelayedMethod::call finds the delayer idle, so the fallback
\* without delay is never taken.
NeverFallsBack == \A t \in Threads : pc[t] # "undelayed"

\* One thread at a time is inside, and it has the delayer for itself.
DelayerOK == TypeOK /\ NeverFallsBack

\* "Minimal amount of time (in ms) between dbus calls": a delayed call starts
\* at least Bound after the end of the last delayed call of any thread, and
\* never during one.
CallsSpaced ==
    [][\A t \in Threads :
         pc[t] = "sleep" /\ pc'[t] = "call"
           => /\ quiet = Bound
              /\ \A s \in Threads : pc[s] \notin {"call", "undelayed"}]_vars

\* The delayer cannot be held for ever: all threads wait for its mutex, the
\* worker among them.
DelayerIsReleased == \A t \in Threads : t \in lock ~> t \notin lock

=============================================================================
