---------------------------- MODULE DatTraverse ----------------------------
(***************************************************************************)
(* The walks over the Device Association Tree (src/dat_traverse.cpp), one  *)
(* action per turn of their loops, and the publication of what they reach  *)
(* as "health_rollup" associations on the bus, which reads the property of *)
(* a path and writes it back in two calls while the path's owner and the   *)
(* set of services may change.                                             *)
(***************************************************************************)
EXTENDS Dat

CONSTANTS
    Trees,        \* the trees to load
    Order,        \* the names in the order of a map
    Services, Interfaces,
    Definitions,  \* xyz.openbmc_project.Association.Definitions
    Buses,        \* what the object mapper may say
    MaxQueue,     \* bounds on a walk without visited set: names waiting,
    MaxResult     \* names returned

OM == INSTANCE ObjectMapper WITH DeviceNames <- Names

ASSUME WalksAssumption ==
    /\ IsFiniteSet(Names)
    /\ Order \in Seq(Names) /\ Range(Order) = Names
    /\ \A tree \in Trees : IsDat(tree)
    /\ \A b \in Buses : OM!IsTree(b) /\ b # None

Walks == {"child", "childHealthy", "parent", "sub", "subTestpoints", "print"}

VARIABLES
    dat,
    status,     \* healthStatus of every device
    walk,       \* the last walk, "associate" (datToDbusAssociation), or "none"
    device,     \* where it started
    toVisit,    \* stack of childTraverse, queue of the others
    result,     \* names returned, in order
    outcome,    \* "running", or how it ended
    bus,        \* the object mapper's tree
    cache,      \* objectsServicesMapping of the CachingObjectMapper, or None
    assocs,     \* Associations property of every path
    devices,    \* datToDbusAssociation: devices left
    paths,      \* paths of the device left
    targets,    \* objPathAssociations
    values,     \* answer of dbusGetDeviceAssociations, or None
    raced       \* history: paths whose owner wrote between the two calls

walkVars == <<status, walk, device, toVisit, result, outcome>>
rollupVars == <<cache, devices, paths, targets, values>>
busVars == <<bus, assocs, raced>>
vars == <<dat, walkVars, rollupVars, busVars>>

Status == [health : {"OK", "Critical"}, healthRollup : {"OK", "Critical"},
           originOfCondition : Names \cup {None}]

Association == [key : {"health_rollup", "all_sensors", "added"},
                path : OM!Paths \cup {None}]

ownerEntry == [key |-> "all_sensors", path |-> None]
addedEntry == [key |-> "added", path |-> None]

Init == /\ dat \in Trees
        /\ \E ill \in SUBSET DOMAIN dat :
              status = [d \in DOMAIN dat |->
                          [health |-> IF d \in ill THEN "Critical" ELSE "OK",
                           healthRollup |-> "OK", originOfCondition |-> None]]
        /\ walk = "none" /\ device = None /\ toVisit = <<>> /\ result = <<>>
        /\ outcome = "none"
        /\ bus \in Buses /\ cache = None
        /\ assocs = [p \in OM!Paths |-> {ownerEntry}]
        /\ devices = <<>> /\ paths = {} /\ targets = {} /\ values = None
        /\ raced = {}

-----------------------------------------------------------------------------
(* The walks *)

running == outcome = "running"

\* childTraverse, parentTraverse (by process), getSubAssociations, printTree.
\* An event without device and a root parentTraverse does not know end it.
StartWalk(w, d) ==
    /\ ~running /\ walk # "associate"   \* bound: see datToDbusAssociation
    /\ walk' = w /\ device' = d
    /\ IF w = "parent" /\ d \notin DOMAIN dat
       THEN toVisit' = <<>> /\ outcome' = IF d = None THEN "error" ELSE "done"
       ELSE toVisit' = <<d>> /\ outcome' = "running"
    /\ result' = IF w \in {"sub", "subTestpoints"} THEN <<d>> ELSE <<>>
    /\ UNCHANGED <<dat, status, rollupVars, busVars>>

checkHealth(d) == status[d].health = "OK"

predicate(d) == walk = "childHealthy" => checkHealth(d)

\* Mutant: the record of the visited devices is not asked.
VisitChildAgain ==
    /\ running /\ walk \in {"child", "childHealthy", "associate"} /\ toVisit # <<>>
    /\ LET d == Last(toVisit)
       IN /\ result' = Append(result, d)
          /\ IF d \in DOMAIN dat
             THEN /\ toVisit' = Front(toVisit) \o dat[d].association
                  /\ UNCHANGED outcome
             ELSE toVisit' = <<>> /\ outcome' = "thrown"
    /\ UNCHANGED <<dat, status, walk, device, rollupVars, busVars>>

\* One turn of childTraverse: the stack's top, if new, is recorded, and then
\* dat.at throws for a name the tree does not have.
VisitChild ==
    /\ running /\ walk \in {"child", "childHealthy", "associate"} /\ toVisit # <<>>
    /\ LET d == Last(toVisit)
           rest == Front(toVisit)
       IN IF Contains(result, d)
          THEN toVisit' = rest /\ UNCHANGED <<result, outcome>>
          ELSE /\ result' = Append(result, d)
               /\ IF d \in DOMAIN dat
                  THEN /\ toVisit' = IF predicate(d) THEN rest \o dat[d].association
                                                     ELSE rest
                       /\ UNCHANGED outcome
                  ELSE toVisit' = <<>> /\ outcome' = "thrown"
    /\ UNCHANGED <<dat, status, walk, device, rollupVars, busVars>>

\* One turn of parentTraverse: both callbacks, then the parents.
VisitParent ==
    /\ running /\ walk = "parent" /\ toVisit # <<>> /\ Len(toVisit) <= MaxQueue
    /\ LET d == Head(toVisit)
       IN /\ toVisit' = Tail(toVisit) \o Parents(dat, Order, d)
          /\ status' = [status EXCEPT ![d].healthRollup = status[device].health,
                                      ![d].originOfCondition = device]
    /\ UNCHANGED <<dat, walk, device, result, outcome, rollupVars, busVars>>

\* Mutant: the front of the queue is not popped.
VisitQueuedPeek ==
    /\ running /\ walk \in {"sub", "subTestpoints", "print"}
    /\ toVisit # <<>> /\ Len(toVisit) <= MaxQueue /\ Len(result) <= MaxResult
    /\ LET d == Head(toVisit)
           children == IF d \notin DOMAIN dat THEN <<>>
                       ELSE IF walk = "subTestpoints"
                            THEN getDeviceTypeTestpoints(dat[d], Layers)
                            ELSE dat[d].association
       IN /\ toVisit' = toVisit \o children
          /\ result' = IF walk = "print" THEN result ELSE result \o children
    /\ UNCHANGED <<dat, status, walk, device, outcome, rollupVars, busVars>>

\* One turn of getSubAssociations and printTree: an unknown name is skipped.
VisitQueued ==
    /\ running /\ walk \in {"sub", "subTestpoints", "print"}
    /\ toVisit # <<>> /\ Len(toVisit) <= MaxQueue /\ Len(result) <= MaxResult
    /\ LET d == Head(toVisit)
           children == IF d \notin DOMAIN dat THEN <<>>
                       ELSE IF walk = "subTestpoints"
                            THEN getDeviceTypeTestpoints(dat[d], Layers)
                            ELSE dat[d].association
       IN /\ toVisit' = Tail(toVisit) \o children
          /\ result' = IF walk = "print" THEN result ELSE result \o children
    /\ UNCHANGED <<dat, status, walk, device, outcome, rollupVars, busVars>>

WalkReturns ==
    /\ running /\ walk \in Walks /\ toVisit = <<>>
    /\ outcome' = "done"
    /\ UNCHANGED <<dat, status, walk, device, toVisit, result, rollupVars, busVars>>

-----------------------------------------------------------------------------
(* datToDbusAssociation *)

\* The walk from the next device, or the end.
NextDevice(left) ==
    /\ walk' = "associate" /\ devices' = left /\ result' = <<>>
    /\ IF left = <<>>
       THEN device' = None /\ toVisit' = <<>> /\ outcome' = "done"
       ELSE device' = Head(left) /\ toVisit' = <<Head(left)>> /\ outcome' = "running"
    /\ paths' = {} /\ targets' = {} /\ values' = None

\* A new CachingObjectMapper.  Bound: a behaviour has walks or passes; they share
\* the tree only, which neither changes.
datToDbusAssociation ==
    /\ ~running /\ walk \in {"none", "associate"}
    /\ NextDevice(InOrder(dat, Order))
    /\ cache' = None
    /\ raced' = {}
    /\ UNCHANGED <<dat, status, bus, assocs>>

\* The mirror is filled by the first question to it, and never again.
ensureIsInitialized == IF cache = None THEN bus ELSE cache

\* The walk is over: the paths of what it reached, and the device's own paths.
FindPaths ==
    /\ running /\ walk = "associate" /\ toVisit = <<>> /\ result # <<>>
    /\ LET mirror == ensureIsInitialized
       IN /\ cache' = mirror
          /\ targets' = UNION {OM!getAllDevIdObjPaths(mirror, d, {}) : d \in Range(result)}
          /\ paths' = OM!getAllDevIdObjPaths(mirror, device, {Definitions})
    /\ result' = <<>>
    /\ UNCHANGED <<dat, status, walk, device, toVisit, outcome, devices, values, busVars>>

associating == running /\ walk = "associate" /\ toVisit = <<>> /\ result = <<>>

\* The service named by the mirror answers for the path.
Answers(p) == \A s \in OM!getManager(cache, p, Definitions) :
                 /\ p \in DOMAIN bus /\ s \in DOMAIN bus[p]
                 /\ Definitions \in bus[p][s]

CallFails ==
    /\ outcome' = "thrown"
    /\ paths' = {} /\ values' = None
    /\ UNCHANGED assocs

\* A path with no manager, or with several, is left as it is.
SkipPath(p) ==
    /\ associating /\ values = None /\ p \in paths
    /\ OM!getManager(cache, p, Definitions) = {}
    /\ paths' = paths \ {p}
    /\ UNCHANGED <<dat, walkVars, cache, devices, targets, values, busVars>>

dbusGetDeviceAssociations(p) ==
    /\ associating /\ values = None /\ p \in paths
    /\ OM!getManager(cache, p, Definitions) # {}
    /\ IF Answers(p)
       THEN values' = [path |-> p, read |-> assocs[p]] /\ UNCHANGED <<outcome, paths, assocs>>
       ELSE CallFails
    /\ raced' = raced \ {p}
    /\ UNCHANGED <<dat, status, walk, device, toVisit, result, cache, devices, targets, bus>>

\* Mutants: the old entries stay, the owner's entries go.
withRollupKept(read, found, p) ==
    read \cup {[key |-> "health_rollup", path |-> q] : q \in found \ {p}}
withRollupOnly(read, found, p) ==
    {[key |-> "health_rollup", path |-> q] : q \in found \ {p}}

\* The entries to write: the old roll-up entries go, the path itself is left out.
withRollup(read, found, p) ==
    {a \in read : a.key # "health_rollup"}
        \cup {[key |-> "health_rollup", path |-> q] : q \in found \ {p}}

dbusSetDeviceAssociations ==
    /\ associating /\ values # None
    /\ LET p == values.path
       IN IF Answers(p)
          THEN /\ assocs' = [assocs EXCEPT ![p] = withRollup(values.read, targets, p)]
               /\ paths' = paths \ {p} /\ values' = None
               /\ UNCHANGED outcome
          ELSE CallFails
    /\ UNCHANGED <<dat, status, walk, device, toVisit, result, cache, devices, targets, bus, raced>>

DeviceAssociated ==
    /\ associating /\ paths = {}
    /\ NextDevice(Tail(devices))
    /\ UNCHANGED <<dat, status, cache, busVars>>

-----------------------------------------------------------------------------
(* The other processes on the bus *)

ServicesChange == /\ running /\ walk = "associate"
                  /\ bus' \in Buses
                  /\ UNCHANGED <<dat, walkVars, rollupVars, assocs, raced>>

OwnerAdds(p) == /\ running /\ walk = "associate" /\ addedEntry \notin assocs[p]
                /\ assocs' = [assocs EXCEPT ![p] = @ \cup {addedEntry}]
                /\ raced' = IF values # None /\ values.path = p THEN raced \cup {p} ELSE raced
                /\ UNCHANGED <<dat, walkVars, rollupVars, bus>>

Turn == \/ VisitChild \/ VisitParent \/ VisitQueued \/ WalkReturns
        \/ FindPaths \/ dbusSetDeviceAssociations \/ DeviceAssociated
        \/ \E p \in paths : SkipPath(p) \/ dbusGetDeviceAssociations(p)

Next == \/ Turn
        \/ \E w \in Walks, d \in Names \cup {None} :
              /\ d # None \/ w = "parent"
              /\ StartWalk(w, d)
        \/ datToDbusAssociation
        \/ ServicesChange
        \/ \E b \in Buses : \E p \in DOMAIN b : OwnerAdds(p)

Spec == Init /\ [][Next]_vars

\* The walks are loops that nothing blocks.
FairSpec == Spec /\ WF_vars(Turn)
-----------------------------------------------------------------------------
(* Properties *)

\* What the walks lead to: the reference the loops are compared with.
Closure(next, S) ==
    LET close[T \in SUBSET Names] ==
          LET larger == T \cup UNION {next[d] : d \in T}
          IN IF larger = T THEN T ELSE close[larger]
    IN close[S]

Children == [d \in Names |-> IF d \in DOMAIN dat THEN Range(dat[d].association) ELSE {}]
Tested == [d \in Names |-> Refers(dat, d, Layers)]
ParentsOf == [d \in Names |-> {e \in Names : d \in Children[e]}]
Healthy == [d \in Names |-> IF d \in DOMAIN dat /\ checkHealth(d) THEN Children[d] ELSE {}]

Acyclic(next) == \A d \in Names : d \notin Closure(next, next[d])

TypeOK == /\ status \in [DOMAIN dat -> Status]
          /\ walk \in Walks \cup {"associate", "none"}
          /\ outcome \in {"none", "running", "done", "thrown", "error"}
          /\ device \in Names \cup {None}
          /\ toVisit \in Seq(Names) /\ result \in Seq(Names) /\ devices \in Seq(Names)
          /\ OM!IsTree(bus) /\ (cache # None => OM!IsTree(cache))
          /\ paths \subseteq OM!Paths /\ targets \subseteq OM!Paths /\ raced \subseteq OM!Paths
          /\ assocs \in [OM!Paths -> SUBSET Association]
          /\ values # None => values \in [path : paths, read : SUBSET Association]

\* childTraverse returns every device the associations lead to from the start,
\* through devices its predicate accepts, once each, in trees with joins and
\* cycles; it throws only where one of them is not in the tree.
ChildVisitsAll ==
    walk \in {"child", "childHealthy"} =>
        LET reached == Closure(IF walk = "child" THEN Children ELSE Healthy, {device})
        IN /\ IsInjective(result) /\ Range(result) \subseteq reached
           /\ outcome = "done" => Range(result) = reached
           /\ outcome = "thrown" => ~(reached \subseteq DOMAIN dat)

\* getSubAssociations returns the device and all that its associations, or its
\* test points, lead to, the names the tree does not know included.
SubFindsAll ==
    walk \in {"sub", "subTestpoints"} /\ outcome = "done" =>
        /\ Head(result) = device
        /\ Range(result) = Closure(IF walk = "sub" THEN Children ELSE Tested, {device})

\* A device that parentTraverse has told of an origin of condition lies above
\* that origin, and its roll-up is the origin's health.
OriginIsBelow ==
    \A d \in DOMAIN dat : status[d].originOfCondition # None =>
        LET origin == status[d].originOfCondition
        IN /\ d \in Closure(ParentsOf, {origin})
           /\ status[d].healthRollup = status[origin].health

\* When process has handled an event of a known device, every device above it
\* names it as the origin of condition.
AncestorsTold ==
    walk = "parent" /\ outcome = "done" /\ device \in DOMAIN dat =>
        \A d \in Closure(ParentsOf, {device}) \cap DOMAIN dat :
            status[d].originOfCondition = device

\* Each walk, whatever others came before it, does what it is called for.
WalksOK == TypeOK /\ ChildVisitsAll /\ SubFindsAll /\ OriginIsBelow /\ AncestorsTold

\* The roll-up entries of a path name other paths only, those of devices that
\* the associations lead to from a device the path stands for, whatever the
\* services do meanwhile and however often the pass runs.
RollupIsReached ==
    \A p \in OM!Paths : \A a \in assocs[p] : a.key = "health_rollup" =>
        /\ a.path # p
        /\ a.path.name \in Closure(Children, {p.name})

\* When datToDbusAssociation has gone through, every path of a device that has
\* one manager carries exactly the paths of the devices reached.
RollupComplete ==
    walk = "associate" /\ outcome = "done" =>
        \A d \in DOMAIN dat : \A p \in OM!getAllDevIdObjPaths(cache, d, {Definitions}) :
            OM!getManager(cache, p, Definitions) # {} =>
                {a.path : a \in {b \in assocs[p] : b.key = "health_rollup"}} =
                    (UNION {OM!getAllDevIdObjPaths(cache, e, {}) :
                               e \in Closure(Children, {d})}) \ {p}

\* The roll-up entries are right at any time, and complete at the end.
RollupOK == RollupIsReached /\ RollupComplete

\* An entry of the path's owner is lost only if it was added between the Get
\* and the Set of that path.
LostOnlyInRace ==
    [][\A p \in OM!Paths : \A a \in assocs[p] \ assocs'[p] :
          a.key # "health_rollup" => a = addedEntry /\ p \in raced]_vars

\* childTraverse and the association pass end in every tree, the walks without
\* a record of what they visited in every tree that has no cycle.
WalksEnd ==
    (running /\ \/ walk \in {"child", "childHealthy", "associate"}
                \/ walk \in {"parent", "sub", "print"} /\ Acyclic(Children)
                \/ walk = "subTestpoints" /\ Acyclic(Tested))
        ~> ~running

=============================================================================
