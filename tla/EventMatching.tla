---------------------------- MODULE EventMatching ----------------------------
(***************************************************************************)
(* From the profile to asserted devices: event_info loads the profile, one *)
(* entry after the other, and fills the property filter and the views by   *)
(* which accessors find events; startEventDetection subscribes to signals; *)
(* a signal or a selftest result is matched with the views and queued; the *)
(* worker checks the accessors of each event it finds, reading as it goes, *)
(* while the values it reads keep changing.                                *)
(* What becomes of the candidates is in EventDetection.                    *)
(***************************************************************************)
EXTENDS CheckAccessor

CONSTANTS
    Profiles,    \* profiles: the entries, in the order they are loaded
    InitWorld,   \* places (D-Bus properties, commands, APIs) and their variants
    Variants,    \* the variants each place may take
    BootData,    \* accessors the selftest may hand over: accessor and device
    QueueSize,   \* PROPERTIESCHANGED_QUEUE_SIZE
    MaxChanges   \* bound: changes of the world and selftest results

ASSUME ProfilesAssumption ==
    \A p \in Profiles :
        /\ p \in Seq(Range(p))
        /\ \A n \in DOMAIN p : /\ p[n].complete \in BOOLEAN /\ p[n].deviceType \in Patterns
                              /\ isAccessor(p[n].accessor) /\ isAccessor(p[n].trigger)
                              /\ isAccessor(p[n].recovery)

ASSUME WorldAssumption ==
    /\ DOMAIN Variants = DOMAIN InitWorld
    /\ \A p \in DOMAIN InitWorld :
          InitWorld[p] \in Variants[p] /\ p.target \in Patterns /\ isString(p.target)
    /\ \A b \in BootData : b.device # <<>>

ASSUME BoundAssumption == QueueSize \in Nat \ {0} /\ MaxChanges \in Nat

VARIABLES
    profile,   \* the file that is loaded
    pc,        \* main thread: "entry", "accessor", "digit", "views",
               \* "subscribe", "serve"; "failed" when loading throws
    entry,     \* the entry being loaded or subscribed
    part,      \* the accessor of it: 1 accessor, 2 trigger, 3 recovery
    it,        \* the product iterator: master index, what is left of it, the
               \* position, the tuple; and the values so far
    events,    \* EventNodes: device type, accessor, trigger, recovery
    filter,    \* PropertyFilterSet
    views,     \* the three multimaps: accessor, trigger, recovery
    handlers,  \* subscriptions, <<path, interface>>
    world,     \* what reading a place gives now
    changes,
    queue,     \* PcDataType: the accessor with data, the events found
    w,         \* the worker
    seen       \* history: the variants a place has had since the worker's pop

loadVars == <<profile, entry, part, it, events, filter, views>>
vars == <<pc, loadVars, handlers, world, changes, queue, w, seen>>

Parts == <<"accessor", "trigger", "recovery">>

NoIterator == [master |-> 0, mi |-> 0, i |-> -1, index |-> <<>>, values |-> <<>>]

Idle == [pc |-> "pop", item |-> [data |-> noData, events |-> <<>>], todo |-> <<>>,
         only |-> <<>>, event |-> 0, ck |-> newCheck(asPattern(<<>>)),
         trig |-> newCheck(asPattern(<<>>)), cands |-> <<>>]

Init ==
    /\ profile \in Profiles
    /\ pc = "entry" /\ entry = 1 /\ part = 1 /\ it = NoIterator
    /\ events = <<>> /\ filter = {} /\ handlers = <<>>
    /\ views = [v \in {"accessor", "trigger", "recovery"} |-> <<>>]
    /\ world = InitWorld /\ changes = 0 /\ queue = <<>> /\ w = Idle
    /\ seen = [p \in DOMAIN InitWorld |-> {InitWorld[p]}]

-----------------------------------------------------------------------------
(* Loading *)

serveVars == <<handlers, world, changes, queue, w, seen>>

\* What is kept of an entry; a missing trigger is the accessor.
EventNode(e) ==
    [deviceType |-> e.deviceType, accessor |-> e.accessor, recovery |-> e.recovery,
     trigger |-> IF isEmpty(e.trigger) THEN e.accessor ELSE e.trigger]

\* EventNode::loadFrom: an entry without an attribute it needs throws, and so
\* does main.
LoadEntry ==
    /\ pc = "entry" /\ entry <= Len(profile)
    /\ IF profile[entry].complete
       THEN /\ events' = Append(events, EventNode(profile[entry]))
            /\ pc' = "accessor" /\ part' = 1
       ELSE pc' = "failed" /\ UNCHANGED <<events, part>>
    /\ UNCHANGED <<profile, entry, it, filter, views, serveVars>>

current == events[entry][Parts[part]]

\* addEventToPropertyFilterSet skips what is not DBUS and throws on a pattern
\* that does not parse; begin() of the product is master index 0.
NextAccessor ==
    /\ pc = "accessor"
    /\ IF part > Len(Parts) THEN pc' = "views" /\ UNCHANGED <<part, it>>
       ELSE IF isEmpty(current) \/ ~isTypeDbus(current)
       THEN part' = part + 1 /\ UNCHANGED <<pc, it>>
       ELSE IF ~validPattern(current.object) THEN pc' = "failed" /\ UNCHANGED <<part, it>>
       ELSE /\ pc' = "digit" /\ UNCHANGED part
            /\ it' = [NoIterator EXCEPT !.i = dim(current.object) - 1]
    /\ UNCHANGED <<profile, entry, events, filter, views, serveVars>>

\* Mutant: what is left of the master index is not divided.
SetDigitUndivided ==
    /\ pc = "digit" /\ it.master < domainSize(current.object) /\ it.i >= 0
    /\ LET range == inputDomain(current.object, it.i)
       IN it' = [it EXCEPT !.index = set(@, it.i, range[1 + (it.mi % Len(range))]), !.i = @ - 1]
    /\ UNCHANGED <<profile, pc, entry, part, events, filter, views, serveVars>>

\* One turn of CartesianProductRange::iterator_t::operator*, from the last
\* position to the first.
SetDigit ==
    /\ pc = "digit" /\ it.master < domainSize(current.object) /\ it.i >= 0
    /\ LET range == inputDomain(current.object, it.i)
       IN it' = [it EXCEPT !.index = set(@, it.i, range[1 + (it.mi % Len(range))]),
                           !.mi = @ \div Len(range), !.i = @ - 1]
    /\ UNCHANGED <<profile, pc, entry, part, events, filter, views, serveVars>>

\* DeviceIdPattern::values: the tuple is complete; ++ on the iterator.
PushValue ==
    /\ pc = "digit" /\ it.master < domainSize(current.object) /\ it.i < 0
    /\ it' = [master |-> it.master + 1, mi |-> it.master + 1,
              i |-> dim(current.object) - 1, index |-> <<>>,
              values |-> Append(it.values, eval(current.object, it.index))]
    /\ UNCHANGED <<profile, pc, entry, part, events, filter, views, serveVars>>

\* Mutant: only the first member is put into the filter.
EmplaceValuesFirst ==
    /\ pc = "digit" /\ it.master = domainSize(current.object)
    /\ filter' = filter \cup {<<current.property, current.interface, it.values[1]>>}
    /\ pc' = "accessor" /\ part' = part + 1 /\ it' = NoIterator
    /\ UNCHANGED <<profile, entry, events, views, serveVars>>

EmplaceValues ==
    /\ pc = "digit" /\ it.master = domainSize(current.object)
    /\ filter' = filter \cup {<<current.property, current.interface, path>> :
                                 path \in Range(it.values)}
    /\ pc' = "accessor" /\ part' = part + 1 /\ it' = NoIterator
    /\ UNCHANGED <<profile, entry, events, views, serveVars>>

PushViews ==
    /\ pc = "views"
    /\ views' = [v \in DOMAIN views |->
                    IF v = "recovery" /\ isEmpty(events[entry].recovery) THEN views[v]
                    ELSE Append(views[v], entry)]
    /\ pc' = "entry" /\ entry' = entry + 1
    /\ UNCHANGED <<profile, part, it, events, filter, serveVars>>

\* loadFromFile returns; startEventDetection goes over the events again.
Loaded ==
    /\ pc = "entry" /\ entry > Len(profile)
    /\ pc' = "subscribe" /\ entry' = 1
    /\ UNCHANGED <<profile, part, it, events, filter, views, serveVars>>

\* The objects an accessor asks signals of, with its interface.
objectsOf(acc) ==
    IF ~isValidDbusAccessor(acc) THEN <<>>
    ELSE LET names == expandDeviceRange(acc.object)
         IN [n \in 1 .. Cardinality(DOMAIN names) |->
                <<names[Min(DOMAIN names) + n - 1], acc.interface>>]

\* What is subscribed to is left out.
subscribe(hs, keys) ==
    LET subscribed[n \in 0 .. Len(keys)] ==
          IF n = 0 THEN hs
          ELSE IF keys[n] \in Range(subscribed[n - 1]) THEN subscribed[n - 1]
          ELSE Append(subscribed[n - 1], keys[n])
    IN subscribed[Len(keys)]

Subscribe ==
    /\ pc = "subscribe" /\ entry <= Len(events)
    /\ LET e == events[entry]
       IN handlers' = subscribe(handlers, objectsOf(e.trigger) \o objectsOf(e.accessor)
                                                               \o objectsOf(e.recovery))
    /\ entry' = entry + 1
    /\ UNCHANGED <<profile, pc, part, it, events, filter, views, world, changes, queue, w, seen>>

Ready ==
    /\ pc = "subscribe" /\ entry > Len(events)
    /\ pc' = "serve"
    /\ UNCHANGED <<loadVars, handlers, world, changes, queue, w, seen>>

-----------------------------------------------------------------------------
(* Discovery *)

keyOf(v, n) == events[n][v]

\* The members of a sequence that are in S, in their order.
among(seq, S) ==
    LET kept[n \in 0 .. Len(seq)] ==
          IF n = 0 THEN <<>>
          ELSE IF seq[n] \in S THEN Append(kept[n - 1], seq[n]) ELSE kept[n - 1]
    IN kept[Len(seq)]

Matching(v, data) ==
    among(views[v], {n \in DOMAIN events : /\ hashed(keyOf(v, n)) = hashed(data.acc)
                                           /\ same(data.acc, keyOf(v, n))})

\* Keys that are equal to the same accessor and not to each other.
overlap(v, found) ==
    \E m, n \in Range(found) : ~same(keyOf(v, m), keyOf(v, n)) /\ ~same(keyOf(v, n), keyOf(v, m))

\* equal_range: the container may rely on == being an equivalence.  Where it is
\* not, some of the equal keys are found and some may be missed.
equalRanges(v, data) ==
    LET found == Matching(v, data)
    IN IF ~overlap(v, found) THEN {found}
       ELSE {among(found, S) : S \in (SUBSET Range(found)) \ {{}}}

\* Mutant: an event with a matching trigger and recovery is found twice.
discoveriesTwice(data, bootup) ==
    IF bootup THEN IF hasData(data) THEN equalRanges("accessor", data) ELSE {<<>>}
    ELSE {t \o r : t \in equalRanges("trigger", data), r \in equalRanges("recovery", data)}

joined(triggers, recoveries) ==
    triggers \o among(recoveries, Range(recoveries) \ Range(triggers))

\* eventDiscovery: trigger view first, then recoveries that are new; for a
\* result of the selftest the accessor view, if it has data.
discoveries(data, bootup) ==
    IF bootup THEN IF hasData(data) THEN equalRanges("accessor", data) ELSE {<<>>}
    ELSE {joined(t, r) : t \in equalRanges("trigger", data),
                         r \in equalRanges("recovery", data)}

\* pushToQueue: a full queue loses the item, with a line in the log.
push(q, data, found) ==
    IF found = <<>> \/ Len(q) >= QueueSize THEN q
    ELSE Append(q, [data |-> data, events |-> found])

signalOf(p, variant) ==
    [noData EXCEPT
        !.acc = [type |-> "DBUS", object |-> p.target, interface |-> p.name[1],
                 property |-> p.name[2]],
        !.value = fromVariant(variant)]

\* A property changes, or what a command or an API would say: only the first
\* is signalled, to those who subscribed; an invalid variant is skipped.
Change ==
    /\ pc = "serve" /\ changes < MaxChanges
    /\ \E p \in DOMAIN world : \E variant \in Variants[p] \ {world[p]} :
          /\ world' = [world EXCEPT ![p] = variant]
          /\ seen' = [seen EXCEPT ![p] = @ \cup {variant}]
          /\ IF /\ p.type = "DBUS" /\ isValidVariant(variant)
                /\ <<asString(p.target), p.name[1]>> \in Range(handlers)
             THEN \E found \in discoveries(signalOf(p, variant), FALSE) :
                     queue' = push(queue, signalOf(p, variant), found)
             ELSE UNCHANGED queue
    /\ changes' = changes + 1
    /\ UNCHANGED <<pc, loadVars, handlers, w>>

\* The bootup selftest hands over an accessor it has read.
Selftested ==
    /\ pc = "serve" /\ changes < MaxChanges
    /\ \E b \in BootData :
          LET data == [acc |-> b.acc, device |-> b.device,
                       value |-> read(b.acc, world, b.device, <<>>)]
          IN \E found \in discoveries(data, TRUE) : queue' = push(queue, data, found)
    /\ changes' = changes + 1
    /\ UNCHANGED <<pc, loadVars, handlers, world, w, seen>>

-----------------------------------------------------------------------------
(* The worker: EventsDetection *)

mainVars == <<pc, loadVars, handlers, world, changes>>

Pop ==
    /\ w.pc = "pop" /\ queue # <<>>
    /\ w' = [Idle EXCEPT !.pc = "recovery", !.item = Head(queue), !.todo = Head(queue).events]
    /\ queue' = Tail(queue)
    /\ seen' = [p \in DOMAIN world |-> {world[p]}]
    /\ UNCHANGED mainVars

Event == events[w.event]

\* A check begins on the event at hand, unless evaluating a name throws: the
\* exception ends workerThreadMainLoop.  That the loop is started again, and
\* what is lost by it, is in EventDetection; here it is the end.
begin(stage, n, json) ==
    IF checkDataThrows(events[n].deviceType, json, w.item.data)
    THEN [w EXCEPT !.pc = "dead"]
    ELSE [w EXCEPT !.pc = stage, !.event = n, !.todo = Tail(@),
                   !.ck = checkData(events[n].deviceType, json, w.item.data)]

RecoveryNext ==
    /\ w.pc = "recovery"
    /\ w' = IF w.todo = <<>> THEN [w EXCEPT !.pc = "detect", !.todo = w.only]
            ELSE LET n == Head(w.todo)
                     recovery == events[n].recovery
                 IN IF ~isEmpty(recovery) /\ same(recovery, w.item.data.acc)
                    THEN begin("recovering", n, recovery)
                    ELSE [w EXCEPT !.only = Append(@, n), !.todo = Tail(@)]
    /\ UNCHANGED <<mainVars, queue, seen>>

\* EventNode::getFullDeviceName: PCIeSwitch_0/Down_[0-3] takes (x) and (0, x).
fullNameIndex(deviceType, pi) ==
    IF 0 < dim(deviceType) /\ dim(deviceType) < Len(pi)
    THEN [k \in 1 .. dim(deviceType) |-> pi[k + 1]] ELSE pi

getFullDeviceName(deviceType, pi) ==
    IF \/ dim(deviceType) = Len(fullNameIndex(deviceType, pi))
       \/ dim(deviceType) = 0 /\ pi = <<0>>
    THEN eval(deviceType, fullNameIndex(deviceType, pi)) ELSE <<>>

\* Mutant: an event that did not recover is not checked for its fault.
RecoveredForgets ==
    /\ w.pc = "recovering" /\ isDone(w.ck)
    /\ w' = [w EXCEPT !.pc = "recovery"]
    /\ UNCHANGED <<mainVars, queue, seen>>

\* Every device that recovered has its logs resolved; rootCauseTracerDevice is
\* asked for the event's device, which is not set: one candidate for an item.
Recovered ==
    /\ w.pc = "recovering" /\ isDone(w.ck)
    /\ LET named == \E i \in DOMAIN w.ck.asserted :
                       getFullDeviceName(Event.deviceType, w.ck.asserted[i].deviceIndexTuple) # <<>>
       IN w' = IF ~passed(w.ck) THEN [w EXCEPT !.pc = "recovery", !.only = Append(@, w.event)]
               ELSE [w EXCEPT !.pc = "recovery",
                              !.cands = IF ~named \/ @ # <<>> THEN @
                                        ELSE Append(@, [event |-> w.event, recovery |-> TRUE,
                                                        asserted |-> w.ck.asserted])]
    /\ UNCHANGED <<mainVars, queue, seen>>

\* The accessor if it is the one that changed; the trigger if there is nothing
\* else; otherwise the trigger and then the accessor.
DetectNext ==
    /\ w.pc = "detect" /\ w.todo # <<>>
    /\ LET n == Head(w.todo)
           e == events[n]
       IN w' = IF same(e.accessor, w.item.data.acc) THEN begin("checking", n, e.accessor)
               ELSE IF isEmpty(e.accessor) THEN begin("checking", n, e.trigger)
               ELSE begin("triggering", n, e.trigger)
    /\ UNCHANGED <<mainVars, queue, seen>>

\* One DataAccessor::read of a check.
Read ==
    /\ w.pc \in {"recovering", "checking", "triggering", "accessing"} /\ ~isDone(w.ck)
    /\ w' = IF nextReadThrows(w.ck) THEN [w EXCEPT !.pc = "dead"]
            ELSE [w EXCEPT !.ck = readNext(@, world)]
    /\ UNCHANGED <<mainVars, queue, seen>>

Triggered ==
    /\ w.pc = "triggering" /\ isDone(w.ck)
    /\ LET ck == checkAfterTrigger(Event.deviceType, Event.accessor, w.ck)
       IN w' = IF ~passed(w.ck) THEN [w EXCEPT !.pc = "detect"]
               ELSE IF currentDeviceThrows(ck) THEN [w EXCEPT !.pc = "dead"]
               ELSE [w EXCEPT !.pc = "accessing", !.trig = w.ck, !.ck = ck]
    /\ UNCHANGED <<mainVars, queue, seen>>

Checked ==
    /\ w.pc \in {"checking", "accessing"} /\ isDone(w.ck)
    /\ LET ck == IF w.pc = "accessing" THEN afterTrigger(w.ck, w.trig) ELSE w.ck
       IN w' = [w EXCEPT !.pc = "detect",
                         !.cands = IF ~passed(ck) THEN @
                                   ELSE Append(@, [event |-> w.event, recovery |-> FALSE,
                                                   asserted |-> ck.asserted])]
    /\ UNCHANGED <<mainVars, queue, seen>>

\* The candidates go to processEventList, the worker to its next item.
Detected ==
    /\ w.pc = "detect" /\ w.todo = <<>>
    /\ w' = [w EXCEPT !.pc = "pop"]
    /\ UNCHANGED <<mainVars, queue, seen>>

-----------------------------------------------------------------------------
Load == LoadEntry \/ NextAccessor \/ SetDigit \/ PushValue \/ EmplaceValues \/ PushViews
        \/ Loaded \/ Subscribe \/ Ready

Worker == Pop \/ RecoveryNext \/ Recovered \/ DetectNext \/ Read \/ Triggered \/ Checked
          \/ Detected

Next == Load \/ Change \/ Selftested \/ Worker

Spec == Init /\ [][Next]_vars

-----------------------------------------------------------------------------
(* Properties *)

asserts == {"recovering", "checking", "triggering", "accessing"}

TypeOK ==
    /\ pc \in {"entry", "accessor", "digit", "views", "subscribe", "serve", "failed"}
    /\ entry \in 1 .. Len(profile) + 1 /\ part \in 1 .. 4
    /\ it.master \in Nat /\ it.mi \in Nat /\ it.i \in Nat \cup {-1} /\ isPatternIndex(it.index)
    /\ \A v \in DOMAIN views : Range(views[v]) \subseteq DOMAIN events
    /\ \A p \in DOMAIN world : world[p] \in Variants[p] /\ world[p] \in seen[p]
    /\ Len(queue) <= QueueSize /\ changes \in 0 .. MaxChanges
    /\ w.pc \in {"pop", "recovery", "detect", "dead"} \cup asserts
    /\ Range(w.todo) \cup Range(w.only) \subseteq Range(w.item.events)
    /\ w.pc \in asserts => w.event \in Range(w.item.events)
    /\ \A k \in DOMAIN w.ck.asserted : isPatternIndex(w.ck.asserted[k].deviceIndexTuple)

\* Every tuple a pattern accepts, written down without the iterator.
domainOf(p) ==
    {normalize(t) : t \in
        {f \in [1 .. dim(p) -> {unspecified} \cup UNION {DOMAIN BracketMap(p.brackets[i]) :
                                                             i \in DOMAIN p.brackets}] :
            \A k \in 1 .. dim(p) : IF bracketsOf(p, k - 1) = {} THEN f[k] = unspecified
                                   ELSE \A i \in bracketsOf(p, k - 1) :
                                            f[k] \in DOMAIN BracketMap(p.brackets[i])}}

\* The product iterator gives the n-th tuple of the domain in the order of
\* PatternIndex::operator<: exactly n members are less than it.  device_id.hpp
\* promises that order, and CheckAccessor counts on it when it moves the mask.
ProductInOrder ==
    pc = "digit" /\ it.i < 0 /\ it.master < domainSize(current.object) =>
        /\ it.index \in domainOf(current.object)
        /\ Cardinality({t \in domainOf(current.object) : less(t, it.index)}) = it.master

placeAccessor(p) == [type |-> "DBUS", object |-> p.target, interface |-> p.name[1],
                     property |-> p.name[2]]

listens(e, acc) == \E v \in DOMAIN views : same(e[v], acc)

\* The filter of property names that loading builds member by member, one
\* product at a time, holds what operator== would find in some event, no less
\* and no more: a property an event waits for is never filtered out.
FilterExact ==
    pc \in {"subscribe", "serve"} =>
        \A p \in {q \in DOMAIN world : q.type = "DBUS"} :
            <<p.name[2], p.name[1], asString(p.target)>> \in filter
                <=> \E n \in DOMAIN events : listens(events[n], placeAccessor(p))

\* Whatever the order and the overlaps of the entries, each object and
\* interface of the filter is subscribed to, and once: a second handler would
\* queue each change of it twice.
SubscribedOnce ==
    pc = "serve" =>
        /\ Cardinality(Range(handlers)) = Len(handlers)
        /\ Range(handlers) = {<<f[3], f[2]>> : f \in filter}

\* What loading and subscribing leave to the rest of the run.
LoadedOK == TypeOK /\ FilterExact /\ SubscribedOnce

\* A queued item has every event whose trigger or recovery (accessor, for a
\* selftest result) covers it, each once, unless the patterns of its events
\* overlap without being equal.
DiscoveredAll ==
    \A k \in DOMAIN queue :
        LET data == queue[k].data
            bootup == data.device # <<>>
            wanted == {n \in DOMAIN events :
                          IF bootup THEN same(data.acc, events[n].accessor)
                          ELSE \/ same(data.acc, events[n].trigger)
                               \/ same(data.acc, events[n].recovery)}
            unclear == \E v \in DOMAIN views : overlap(v, Matching(v, data))
        IN /\ Cardinality(Range(queue[k].events)) = Len(queue[k].events)
           /\ Range(queue[k].events) \subseteq wanted
           /\ unclear \/ Range(queue[k].events) = wanted

-----------------------------------------------------------------------------
(* What an event says of one device: a reference to judge the worker by.   *)

ordinal(p, idx) == Cardinality({t \in domainOf(p) : less(t, idx)})

\* The value meets the criteria for the device of that index.
Satisfies(e, acc, value, idx) ==
    IF ~existsCheckKey(acc) THEN TRUE
    ELSE IF existsCheckBitmap(acc)
    THEN /\ isValidInteger(value)
         /\ shiftLeft(string2Uint64(acc.check.bitmap).value64, ordinal(e.deviceType, idx))
                \subseteq value.value64
    ELSE hasData([value |-> value]) /\ check(value, acc.check, invalidVariant)

\* The data speaks of the device of that index.
Concerns(acc, data, idx) ==
    IF existsCheckBitmap(acc) THEN TRUE
    ELSE CASE isTypeDbus(acc) /\ existsRange(acc.object) ->
                 checkIsInDomain(acc.object, idx) /\ eval(acc.object, idx) = asString(data.acc.object)
           [] isTypeCmdline(acc) /\ existsRange(argumentsOf(acc)) ->
                 /\ checkIsInDomain(argumentsOf(acc), idx)
                 /\ eval(argumentsOf(acc), idx) = asString(argumentsOf(data.acc))
           [] isTypeDeviceCoreApi(acc) -> idx = <<getDeviceId(data.device)>>
           [] OTHER -> TRUE

Says(e, acc, data, idx) == Concerns(acc, data, idx) /\ Satisfies(e, acc, data.value, idx)

\* One of the values the accessor had for that device meets its criteria.
Confirms(e, idx, had) ==
    LET acc == e.accessor
        device == IF existsCheckBitmap(acc) THEN <<>> ELSE eval(e.deviceType, idx)
    IN \/ isEmpty(acc) \/ ~existsCheckKey(acc)
       \/ /\ place(acc, device, idx) \in DOMAIN had
          /\ \E v \in had[place(acc, device, idx)] :
                Satisfies(e, acc, read(acc, place(acc, device, idx) :> v, device, idx), idx)

\* The event has happened to the device: the accessor if it is what changed,
\* otherwise the trigger and the accessor.
Holds(e, data, idx, had) ==
    IF same(e.accessor, data.acc) THEN Says(e, e.accessor, data, idx)
    ELSE Says(e, e.trigger, data, idx) /\ Confirms(e, idx, had)

Recovers(e, data, idx) == same(e.recovery, data.acc) /\ Says(e, e.recovery, data, idx)

\* A candidate never names a device that nothing speaks of: its index is one of
\* the device type's, its name the one of that index, and what changed together
\* with a value the accessor had while the item was served meets the criteria.
AssertedIsWitnessed ==
    \A k \in DOMAIN w.cands : \A a \in DOMAIN w.cands[k].asserted :
        LET e == events[w.cands[k].event]
            idx == w.cands[k].asserted[a].deviceIndexTuple
        IN /\ idx \in domainOf(e.deviceType)
           /\ getFirstDeviceTypePattern(w.cands[k].asserted[a].device)
                 = getFirstDeviceTypePattern(eval(e.deviceType, idx))
           /\ IF w.cands[k].recovery THEN Recovers(e, w.item.data, idx)
              ELSE Holds(e, w.item.data, idx, seen)

assertedOf(n) ==
    FlattenSeq([k \in DOMAIN w.cands |->
        IF w.cands[k].event = n /\ ~w.cands[k].recovery THEN w.cands[k].asserted ELSE <<>>])

stable == \A p \in DOMAIN seen : Cardinality(seen[p]) = 1

patternOf(acc) == IF isTypeDbus(acc) THEN acc.object ELSE argumentsOf(acc)

\* As many dimensions and other indexes.
misfit(p, q) == dim(p) > 0 /\ dim(p) = dim(q) /\ domainOf(p) # domainOf(q)

\* An object or arguments that do not fit the device type.
Mismatched(e) == \E v \in DOMAIN views : misfit(patternOf(e[v]), e.deviceType)

\* When nothing changed while the item was served, each event of it either
\* recovered or names every device it holds for, each once; a device type that
\* does not fit its accessors aside.
CompleteWhenStable ==
    w.pc = "pop" /\ stable =>
        \A n \in {m \in Range(w.item.events) : ~Mismatched(events[m])} :
            LET e == events[n]
                holding == {idx \in domainOf(e.deviceType) : Holds(e, w.item.data, idx, seen)}
                recovered == \E idx \in domainOf(e.deviceType) : Recovers(e, w.item.data, idx)
            IN /\ n \in Range(w.only) <=> ~recovered
               /\ ~recovered =>
                     /\ Len(assertedOf(n)) = Cardinality(holding)
                     /\ {assertedOf(n)[a].deviceIndexTuple : a \in DOMAIN assertedOf(n)} = holding

\* The worker's loop ends, and with it the processing of the item, only on a
\* profile with an event whose device type and paths do not fit one another, or
\* when the selftest hands over a value that there is nothing to check against.
DeathIsMismatch ==
    w.pc = "dead" =>
        \E n \in Range(w.item.events) :
            \/ Mismatched(events[n])
            \/ misfit(patternOf(events[n].trigger), patternOf(events[n].accessor))
            \/ \E v \in DOMAIN views : /\ judgesAtOnce(events[n][v], w.item.data)
                                      /\ ~existsCheckKey(events[n][v])

=============================================================================
