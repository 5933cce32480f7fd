------------------------------ MODULE Selftest ------------------------------
(***************************************************************************)
(* The selftest and the root cause tracer (src/selftest.cpp).  A thread    *)
(* tests a device: it reads the test points of the device one by one and   *)
(* descends into the devices they refer to; a report that is passed along  *)
(* keeps it from testing a device again.  Four kinds of jobs do this:      *)
(*   trace    RootCauseTracer::process, the first handler of an event      *)
(*   boot     the selftest of the whole tree at the start of the daemon,   *)
(*            after the logs of all devices have been resolved             *)
(*   process  Selftest::process                                            *)
(*   entries  Selftest::resolveLogEntry, which tests nothing               *)
(* What a test point reads may change until it is read, so that each read  *)
(* is a choice; no test point is read twice in a job.                      *)
(***************************************************************************)
EXTENDS Dat

CONSTANTS
    Tasks  \* the trees and the jobs to be done on them

VARIABLES
    dat,      \* _dat
    job,      \* the job of this thread
    pc,
    stack,    \* the calls of perform that have not returned
    ret,      \* what the last call of perform returned; none: still running
    report,   \* ReportResult: the results of each device, once it has them
    left,     \* devices or entries the job's loop has still to visit
    carry,    \* additionalDataRaw and resolved, declared outside the loop
    resolved, \* devices whose entries, or entries that, have been resolved
    pushed,   \* test points given to eventDiscovery
    health,   \* the health published for the device of the event; -1: none
    status,   \* its healthStatus
    origin,   \* the event's origin of condition
    outcome,  \* what the job returned, or that it threw
    tested    \* devices in the order of their tests (for the properties)

vars == <<dat, job, pc, stack, ret, report, left, carry, resolved, pushed,
          health, status, origin, outcome, tested>>

\* Of an entry: whether its message names the device, whether it recovers by
\* itself (property_change), its Resolved property.
Entries == [data : {"none", "names", "others", "recovers"},
            resolved : {"none", "true", "false", "odd"}]

\* To be traced is an event: its device, categories, configured origin of
\* condition or None, and worst severity.  At boot the HMC has just booted or not.
Jobs == [kind : {"trace"}, device : Names, categories : SUBSET Layers,
         fixed : Names \cup {None}, severity : Severities]
        \cup [kind : {"boot"}, hmc : BOOLEAN]
        \cup [kind : {"process"}, device : Names]
        \cup [kind : {"entries"}, log : Seq(Entries)]

ASSUME TasksAssumption ==
    /\ IsFiniteSet(Names)
    /\ \A task \in Tasks : IsDat(task[1]) /\ task[2] \in Jobs

\* The layers perform is told to ignore.
Ignored == IF job.kind \in {"trace", "boot"} THEN {"data_dump"} ELSE {}

\* readVal: what was hoped for, something else, or nothing.
Values == {"expected", "other", "empty"}

\* TestPointResult.
Results == [nested : Names \cup {None}, result : BOOLEAN, severity : Severities,
            value : Values]

Worst(S) == CHOOSE s \in S : \A t \in S : t <= s

Top == stack[Len(stack)]
Head1 == Head(Top.todo)

TypeOK ==
    /\ pc \in {"start", "devices", "perform", "trace", "cause", "done"}
    /\ \A i \in DOMAIN stack :
          /\ stack[i].device \in DOMAIN dat
          /\ \A j \in DOMAIN stack[i].done : stack[i].done[j] \in Results
    /\ pc = "perform" => stack # <<>>
    /\ ret \in {"none", "succ", "error"}
    /\ DOMAIN report \subseteq DOMAIN dat
    /\ \A d \in DOMAIN report : \A j \in DOMAIN report[d] :
          report[d][j] \in Results
    /\ health \in Severities \cup {-1}
    /\ status.originOfCondition \in Names \cup {None}
    /\ origin \in Names \cup {None}
    /\ outcome \in {"none", "succ", "error", "exception"}

-----------------------------------------------------------------------------
(* Evaluation                                                              *)

\* evaluateDevice: no test point of its own has failed.
evaluateDevice(results) ==
    \A i \in DOMAIN results : results[i].result \/ results[i].nested # None

\* getDeviceTestResult.
getDeviceTestResult(results) ==
    Worst({0} \cup {results[i].severity : i \in {j \in DOMAIN results :
                        ~results[j].result /\ results[j].nested = None}})

evaluateTestReport == \A d \in DOMAIN report : evaluateDevice(report[d])

\* reportRes[d] = results.
reportWith(d, results) ==
    [e \in DOMAIN report \cup {d} |-> IF e = d THEN results ELSE report[e]]

shouldSkip(d) == dat[d].type # "regular" /\ ~hasTestpoints(dat[d])

\* fillTpRes: a read that failed fails the test point; without an expected
\* value any other read passes.
fillTpRes(tp, value) ==
    [nested |-> tp.nested, severity |-> tp.severity, value |-> value,
     result |-> value = "expected" \/ (value # "empty" /\ ~tp.expects)]

-----------------------------------------------------------------------------
(* Selftest::perform                                                       *)

\* Mutant: the device is entered in the report only when its test is over.
PerformUnmarked(d) ==
    /\ stack' = Append(stack, [device |-> d, todo |-> dat[d].test, done |-> <<>>])
    /\ tested' = Append(tested, d)
    /\ ret' = "none"
    /\ UNCHANGED report

\* perform is called for a device that is neither in the report nor skipped.
\* It enters the device in the report before it tests it.
Perform(d) ==
    /\ report' = reportWith(d, <<>>)
    /\ stack' = Append(stack, [device |-> d, todo |-> dat[d].test, done |-> <<>>])
    /\ tested' = Append(tested, d)
    /\ ret' = "none"

\* Mutant: nested devices are tested without event determination.
TestedAtTop(r) ==
    /\ stack' = [stack EXCEPT ![Len(stack)].todo = Tail(@),
                              ![Len(stack)].done = Append(@, r)]
    /\ pushed' = IF /\ job.kind = "boot" /\ job.hmc /\ ~r.result
                    /\ r.value # "empty" /\ Len(stack) = 1
                 THEN pushed \cup {<<Top.device, Len(Top.done) + 1>>}
                 ELSE pushed

\* The result of the test point at hand is kept.  At a boot of the HMC a
\* failure is looked up among the events; one without data is not.
Tested(r) ==
    /\ stack' = [stack EXCEPT ![Len(stack)].todo = Tail(@),
                              ![Len(stack)].done = Append(@, r)]
    /\ pushed' = IF /\ job.kind = "boot" /\ job.hmc /\ ~r.result
                    /\ r.value # "empty"
                 THEN pushed \cup {<<Top.device, Len(Top.done) + 1>>}
                 ELSE pushed

\* The test points of an ignored layer are passed over.
IgnoreLayer ==
    /\ pc = "perform" /\ ret = "none"
    /\ Top.todo # <<>>
    /\ Head1.layer \in Ignored
    /\ stack' = [stack EXCEPT ![Len(stack)].todo = Tail(@)]
    /\ UNCHANGED <<dat, job, pc, ret, report, left, carry, resolved, pushed,
                   health, status, origin, outcome, tested>>

\* perform has a test point to do.
AtTestPoint ==
    /\ pc = "perform" /\ ret = "none"
    /\ Top.todo # <<>>
    /\ Head1.layer \notin Ignored

ReadTestPoint ==
    /\ AtTestPoint
    /\ Head1.nested = None
    /\ \E value \in Values : Tested(fillTpRes(Head1, value))
    /\ UNCHANGED <<dat, job, pc, ret, report, left, carry, resolved, health,
                   status, origin, outcome, tested>>

\* The test point is another device, tested now.
EnterNested ==
    /\ AtTestPoint
    /\ Head1.nested \in DOMAIN dat
    /\ Head1.nested \notin DOMAIN report
    /\ ~shouldSkip(Head1.nested)
    /\ Perform(Head1.nested)
    /\ UNCHANGED <<dat, job, pc, left, carry, resolved, pushed, health, status,
                   origin, outcome>>

\* Mutants: a nested device that was skipped is not entered in the report; a
\* failed test of its own does not count.
EvaluateNestedUnentered(rc) ==
    LET n == Head1.nested
        passed == rc = "succ" /\ (n \in DOMAIN report => evaluateDevice(report[n]))
    IN /\ Tested(fillTpRes(Head1, IF passed THEN "expected" ELSE "other"))
       /\ UNCHANGED report

EvaluateNestedLenient(rc) ==
    LET n == Head1.nested
        results == IF n \in DOMAIN report THEN report[n] ELSE <<>>
    IN /\ Tested(fillTpRes(Head1, IF rc = "succ" THEN "expected" ELSE "other"))
       /\ report' = reportWith(n, results)

\* The nested device is evaluated from the report, which gets an empty entry
\* for one that was skipped.
EvaluateNested(rc) ==
    LET n == Head1.nested
        results == IF n \in DOMAIN report THEN report[n] ELSE <<>>
        passed == rc = "succ" /\ evaluateDevice(results)
    IN /\ Tested(fillTpRes(Head1, IF passed THEN "expected" ELSE "other"))
       /\ report' = reportWith(n, results)

\* Mutant: a device whose test has not ended is waited for.
NestedKnownWaits ==
    /\ AtTestPoint
    /\ Head1.nested \in DOMAIN dat
    /\ Head1.nested \in DOMAIN report \/ shouldSkip(Head1.nested)
    /\ \A i \in DOMAIN stack : stack[i].device # Head1.nested
    /\ EvaluateNested("succ")
    /\ UNCHANGED <<dat, job, pc, ret, left, carry, resolved, health, status,
                   origin, outcome, tested>>

\* The test point is a device that is in the report already (perhaps as one
\* whose test has not ended) or is skipped.
NestedKnown ==
    /\ AtTestPoint
    /\ Head1.nested \in DOMAIN dat
    /\ Head1.nested \in DOMAIN report \/ shouldSkip(Head1.nested)
    /\ EvaluateNested("succ")
    /\ UNCHANGED <<dat, job, pc, ret, left, carry, resolved, health, status,
                   origin, outcome, tested>>

\* The call for the nested device has returned.
NestedReturns ==
    /\ pc = "perform" /\ ret # "none"
    /\ EvaluateNested(ret)
    /\ ret' = "none"
    /\ UNCHANGED <<dat, job, pc, left, carry, resolved, health, status, origin,
                   outcome, tested>>

\* Where the thread goes when perform returns.
After == IF Len(stack) > 1 THEN "perform"
         ELSE IF job.kind = "boot" THEN "devices" ELSE "trace"

\* The test point names a device the tree does not have: perform gives up and
\* leaves the empty entry of its own device in the report.
NestedUnknown ==
    /\ AtTestPoint
    /\ Head1.nested \notin DOMAIN dat \cup {None}
    /\ stack' = Front(stack)
    /\ ret' = "error"
    /\ pc' = After
    /\ UNCHANGED <<dat, job, report, left, carry, resolved, pushed, health,
                   status, origin, outcome, tested>>

\* All test points have been tested.
PerformEnds ==
    /\ pc = "perform" /\ ret = "none"
    /\ Top.todo = <<>>
    /\ report' = reportWith(Top.device, Top.done)
    /\ stack' = Front(stack)
    /\ ret' = "succ"
    /\ pc' = After
    /\ UNCHANGED <<dat, job, left, carry, resolved, pushed, health, status,
                   origin, outcome, tested>>

-----------------------------------------------------------------------------
(* RootCauseTracer::process and Selftest::process                          *)

\* A device that is not in the tree is refused; one that is skipped counts as
\* tested.
Start ==
    /\ pc = "start" /\ job.kind \in {"trace", "process"}
    /\ IF job.device \notin DOMAIN dat
       THEN /\ pc' = "done"
            /\ outcome' = "error"
            /\ UNCHANGED <<stack, report, tested, ret>>
       ELSE IF shouldSkip(job.device)
       THEN /\ pc' = "trace"
            /\ ret' = "succ"
            /\ UNCHANGED <<stack, report, tested, outcome>>
       ELSE /\ pc' = "perform"
            /\ Perform(job.device)
            /\ UNCHANGED outcome
    /\ UNCHANGED <<dat, job, left, carry, resolved, pushed, health, status, origin>>

\* findMaxSeverity of the event's severities and that of the selftest.
maxSeverity(results) == Worst({job.severity, getDeviceTestResult(results)})

\* The tracer publishes the health; the report gets an entry for a device that
\* was skipped.
Trace ==
    /\ pc = "trace" /\ job.kind = "trace"
    /\ IF ret = "error"
       THEN /\ pc' = "done"
            /\ outcome' = "error"
            /\ UNCHANGED <<report, health>>
       ELSE LET results == IF job.device \in DOMAIN report
                           THEN report[job.device] ELSE <<>>
            IN /\ report' = reportWith(job.device, results)
               /\ health' = IF dat[job.device].setHealth
                            THEN maxSeverity(results) ELSE health
               /\ pc' = "cause"
               /\ UNCHANGED outcome
    /\ UNCHANGED <<dat, job, stack, ret, left, carry, resolved, pushed, status,
                   origin, tested>>

\* Where the search from the most nested device on comes to an end: a device
\* that failed, or, by an exception, one that was not tested.
Stops(d) == d \notin DOMAIN report \/ ~evaluateDevice(report[d])

\* Mutant: the search starts with the device of the event.
findRootCauseGeneralFirst ==
    LET children == SubAssociations(dat, job.device, job.categories)
        stops == {i \in DOMAIN children : Stops(children[i])}
    IN IF stops = {} THEN job.device
       ELSE children[CHOOSE i \in stops : \A j \in stops : i <= j]

findRootCauseGeneral ==
    LET children == SubAssociations(dat, job.device, job.categories)
        stops == {i \in DOMAIN children : Stops(children[i])}
    IN IF stops = {} THEN job.device
       ELSE children[CHOOSE i \in stops : \A j \in stops : j <= i]

\* findRootCause and updateRootCause.  The origin may be a configured one that
\* is not in the tree: the device's status has none then.
Cause ==
    /\ pc = "cause"
    /\ pc' = "done"
    /\ IF job.fixed = None /\ ( \/ SearchThrows(dat, job.device, job.categories)
                                \/ findRootCauseGeneral \notin DOMAIN report )
       THEN /\ outcome' = "exception"
            /\ UNCHANGED <<origin, status>>
       ELSE /\ outcome' = "succ"
            /\ origin' = IF job.fixed = None THEN findRootCauseGeneral
                         ELSE job.fixed
            /\ status' = [triState |-> "Error", originOfCondition |->
                             IF origin' \in DOMAIN dat THEN origin' ELSE None]
    /\ UNCHANGED <<dat, job, stack, ret, report, left, carry, resolved, pushed,
                   health, tested>>

\* Selftest::process passes if no test point of any tested device has failed.
Process ==
    /\ pc = "trace" /\ job.kind = "process"
    /\ pc' = "done"
    /\ outcome' = IF ret = "succ" /\ evaluateTestReport THEN "succ" ELSE "error"
    /\ UNCHANGED <<dat, job, stack, ret, report, left, carry, resolved, pushed,
                   health, status, origin, tested>>

-----------------------------------------------------------------------------
(* performEntireTree                                                       *)

\* If the HMC has booted the entries of all devices are resolved first; a
\* device for which that fails is passed over.
ResolveLogs ==
    /\ pc = "start" /\ job.kind = "boot"
    /\ pc' = "devices"
    /\ \E failing \in SUBSET DOMAIN dat :
          resolved' = IF job.hmc THEN DOMAIN dat \ failing ELSE {}
    /\ left' = SetToSeq(DOMAIN dat)
    /\ UNCHANGED <<dat, job, stack, ret, report, carry, pushed, health, status,
                   origin, outcome, tested>>

\* One device after the other, up to the first whose test returns an error.
NextDevice ==
    /\ pc = "devices"
    /\ IF left = <<>> \/ ret = "error"
       THEN /\ pc' = "done"
            /\ outcome' = IF ret = "error" THEN "error" ELSE "succ"
            /\ UNCHANGED <<left, stack, report, tested, ret>>
       ELSE /\ left' = Tail(left)
            /\ UNCHANGED outcome
            /\ IF Head(left) \in DOMAIN report \/ shouldSkip(Head(left))
               THEN UNCHANGED <<pc, stack, report, tested, ret>>
               ELSE pc' = "perform" /\ Perform(Head(left))
    /\ UNCHANGED <<dat, job, carry, resolved, pushed, health, status, origin>>

-----------------------------------------------------------------------------
(* resolveLogEntry                                                         *)

\* Mutant: a resolved entry ends the loop.
ResolveEntryEndsEarly ==
    /\ pc = "start" /\ job.kind = "entries"
    /\ IF left = <<>> \/ Head(left).resolved \in {"odd", "true"}
       THEN pc' = "done" /\ UNCHANGED <<left, carry, resolved>>
       ELSE /\ carry' = [data |-> Head(left).data, resolved |-> FALSE]
            /\ resolved' = IF Head(left).data = "names"
                           THEN resolved \cup {Len(left)} ELSE resolved
            /\ left' = Tail(left)
            /\ UNCHANGED pc
    /\ UNCHANGED <<dat, job, stack, ret, report, pushed, health, status, origin,
                   outcome, tested>>

\* An entry without AdditionalData or Resolved is judged by those of the entry
\* before it; a Resolved that is no Boolean ends the loop.  A Set that fails is
\* passed over, so an entry counts once the call has been made.
ResolveEntry ==
    /\ pc = "start" /\ job.kind = "entries"
    /\ IF left = <<>> \/ Head(left).resolved = "odd"
       THEN pc' = "done" /\ UNCHANGED <<left, carry, resolved>>
       ELSE LET e == Head(left)
                data == IF e.data = "none" THEN carry.data ELSE e.data
                done == IF e.resolved = "none" THEN carry.resolved
                        ELSE e.resolved = "true"
            IN /\ carry' = [data |-> data, resolved |-> done]
               /\ resolved' = IF ~done /\ data = "names"
                              THEN resolved \cup {Len(left)} ELSE resolved
               /\ left' = Tail(left)
               /\ UNCHANGED pc
    /\ UNCHANGED <<dat, job, stack, ret, report, pushed, health, status, origin,
                   outcome, tested>>

-----------------------------------------------------------------------------

Init ==
    /\ \E task \in Tasks : dat = task[1] /\ job = task[2]
    /\ pc = "start"
    /\ stack = <<>>
    /\ ret = "none"
    /\ report = [d \in {} |-> <<>>]
    /\ left = IF job.kind = "entries" THEN job.log ELSE <<>>
    /\ carry = [data |-> "none", resolved |-> FALSE]
    /\ resolved = {}
    /\ pushed = {}
    /\ health = -1
    /\ status = [triState |-> "Active", originOfCondition |-> None]
    /\ origin = None
    /\ outcome = "none"
    /\ tested = <<>>

Next ==
    \/ Start \/ ResolveLogs \/ NextDevice \/ ResolveEntry
    \/ IgnoreLayer \/ ReadTestPoint \/ EnterNested \/ NestedKnown \/ NestedReturns
    \/ NestedUnknown \/ PerformEnds
    \/ Trace \/ Cause \/ Process

Spec == Init /\ [][Next]_vars

\* A thread of its own; every read ends, by an answer or by a timeout.
FairSpec == Spec /\ WF_vars(Next)

-----------------------------------------------------------------------------
(* Properties                                                              *)

\* References to devices that are in the tree, and none from the ignored layer.
WellFormed ==
    \A d \in DOMAIN dat : \A i \in DOMAIN dat[d].test :
        LET tp == dat[d].test[i] IN
        tp.nested # None => tp.nested \in DOMAIN dat /\ tp.layer # "data_dump"

\* d is reached from n by the references perform follows.
Reaches(n, d) == d \in Within(dat, n, Layers \ Ignored, Cardinality(Names))

\* Whatever circles the references make, no device is tested twice, neither
\* within its own test (the recursion would not end) nor later.
TestedOnce ==
    \A i, j \in DOMAIN tested : tested[i] = tested[j] => i = j

\* The recursion is bounded by the tree, in circles too.
TestsOK == TypeOK /\ TestedOnce

\* Every job comes to an end, in a tree with circles as well.
JobEnds == <>(pc = "done")

\* In a well-formed tree a reference passes exactly if the test points of the
\* device it names have passed, although the two are tested at different times;
\* in a circle the device may be judged before its test has ended.
ReferencesAgree ==
    WellFormed => \A d \in DOMAIN report : \A i \in DOMAIN report[d] :
        LET r == report[d][i] IN
        r.nested # None /\ ~Reaches(r.nested, d)
          => (r.value = "expected" <=> evaluateDevice(report[r.nested]))

\* An event thread is not ended by an exception of the tracer, provided the
\* tree is well-formed: every device of the chain has a result.
TracerDoesNotThrow == WellFormed => outcome # "exception"

\* The origin of condition that is found is a device that failed, and no device
\* that failed is more references away from the device of the event ("most
\* nested"); without a failure it is the device itself.
OriginIsMostNested ==
    origin # None /\ job.fixed = None =>
      LET failed == {d \in DOMAIN report : ~evaluateDevice(report[d])}
          near(n) == Within(dat, job.device, job.categories, n)
          all == Cardinality(Names)
      IN IF failed \cap near(all) = {} THEN origin = job.device
         ELSE /\ origin \in failed
              /\ \A n \in 0 .. all :
                    origin \in near(n) => failed \cap near(all) \subseteq near(n)

\* The health that is published is no better than the event's severity and no
\* better than that of any own test point that failed.
HealthCoversFailures ==
    health # -1 =>
      /\ health >= job.severity
      /\ \A i \in DOMAIN report[job.device] :
            LET r == report[job.device][i] IN
            r.nested = None /\ ~r.result => health >= r.severity

\* What the tracer leaves of the device of the event.
TraceOK == OriginIsMostNested /\ HealthCoversFailures

\* Once the HMC has booted, the entries of all devices are resolved before the
\* test.  Every condition that holds when its test point is read then reaches
\* the event detection again: nothing that was resolved is forgotten, unless
\* the tree has a dangling reference.
ResolvedIsTestedAgain ==
    pc = "done" /\ job.kind = "boot" /\ job.hmc /\ WellFormed =>
      \A d \in resolved :
         /\ ~shouldSkip(d) => d \in DOMAIN report
         /\ d \in DOMAIN report => \A i \in DOMAIN report[d] :
               ~report[d][i].result /\ report[d][i].value # "empty"
                 => <<d, i>> \in pushed

\* resolveLogEntry resolves the open entries that name the device and do not
\* recover by themselves, and no others, if every entry has both properties;
\* what one entry leaves behind in the loop then never decides about another.
EntriesResolved ==
    pc = "done" /\ job.kind = "entries" =>
      LET log == Reverse(job.log) IN
      (\A i \in DOMAIN log : /\ log[i].data # "none"
                             /\ log[i].resolved \in {"true", "false"})
        => resolved = {i \in DOMAIN log : /\ log[i].data = "names"
                                          /\ log[i].resolved = "false"}

=============================================================================
