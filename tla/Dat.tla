-------------------------------- MODULE Dat --------------------------------
(***************************************************************************)
(* The Device Association Tree (src/dat_traverse.cpp), a map from device   *)
(* names to devices.  A device has test points, listed in the order of the *)
(* maps that hold them (layers, then names): a test point either reads a   *)
(* value of the device or refers to another device, which is then tested   *)
(* as part of it.  Nothing keeps the references from running in circles or *)
(* from naming a device the tree does not have.                            *)
(***************************************************************************)
EXTENDS Integers, Sequences, SequencesExt, FiniteSets

CONSTANTS
    Names,    \* device names
    None      \* no device

ASSUME NoneIsNoName == None \notin Names

Layers == {"power_rail", "erot_control", "pin_status", "interface_status",
           "protocol_status", "firmware_status", "data_dump"}

\* OK, Warning, Critical.
Severities == 0 .. 2

TestPoints == [layer : Layers,
               nested : Names \cup {None},  \* DEVICE accessor: the device
               expects : BOOLEAN,           \* expected_value is not empty
               severity : Severities]

Types == {"unknown", "regular", "sensor", "port", "software"}

Devices == [type : Types,
            test : Seq(TestPoints),
            association : Seq(Names),
            setHealth : BOOLEAN]            \* dbus_set_health

IsDat(tree) == DOMAIN tree \subseteq Names /\ tree \in [DOMAIN tree -> Devices]

hasTestpoints(device) == device.test # <<>>

refersOn(tp, layers) == tp.nested # None /\ tp.layer \in layers

\* The devices the test points of the chosen layers refer to, as listed.
getDeviceTypeTestpoints(device, layers) ==
    FlattenSeq([i \in DOMAIN device.test |->
        IF refersOn(device.test[i], layers) THEN <<device.test[i].nested>> ELSE <<>>])

\* The same, each once, and of them the ones the caller has not found yet.
getTestLayerAssociations(device, layers, found) ==
    LET known(i) == \/ device.test[i].nested \in found
                    \/ \E j \in 1 .. i - 1 : /\ refersOn(device.test[j], layers)
                                              /\ device.test[j].nested = device.test[i].nested
    IN FlattenSeq([i \in DOMAIN device.test |->
           IF refersOn(device.test[i], layers) /\ ~known(i)
           THEN <<device.test[i].nested>> ELSE <<>>])

\* The devices of the tree in the order of the map.
InOrder(dat, order) ==
    FlattenSeq([i \in DOMAIN order |->
        IF order[i] \in DOMAIN dat THEN <<order[i]>> ELSE <<>>])

Listings(device, d) ==
    Cardinality({k \in DOMAIN device.association : device.association[k] = d})

\* populateMap, second pass: the devices that list d among their associations,
\* in the order of the names, as often as they list it.
Parents(dat, order, d) ==
    FlattenSeq([i \in DOMAIN order |->
        IF order[i] \in DOMAIN dat
        THEN [k \in 1 .. Listings(dat[order[i]], d) |-> order[i]] ELSE <<>>])

\* The n-th turn of the search takes the n-th device it has found: what follows
\* that one is its queue.  Only the expansion of the root is restricted to the
\* event's categories; an event without any has no restriction.  A device that
\* is not in the tree ends the search.
SearchTurn(dat, n, categories) ==
    [found \in Seq(Names) |->
        IF n > Len(found) \/ ~(Range(found) \subseteq DOMAIN dat)
        THEN found
        ELSE found \o getTestLayerAssociations(dat[found[n]],
                          IF n = 1 /\ categories # {} THEN categories ELSE Layers,
                          Range(found))]

\* No more turns are needed than there are names.
SubAssociations(dat, root, categories) ==
    LET search[n \in 0 .. Cardinality(Names)] ==
          IF n = 0 THEN <<root>> ELSE SearchTurn(dat, n, categories)[search[n - 1]]
    IN search[Cardinality(Names)]

\* The search throws: dat.at of an unknown device.
SearchThrows(dat, root, categories) ==
    ~(Range(SubAssociations(dat, root, categories)) \subseteq DOMAIN dat)

\* Every device and the devices it refers to, as seen by the search.
Refers(dat, d, layers) ==
    IF d \notin DOMAIN dat THEN {}
    ELSE {dat[d].test[i].nested : i \in {j \in DOMAIN dat[d].test :
             /\ dat[d].test[j].layer \in layers
             /\ dat[d].test[j].nested # None}}

\* Reference definition: what is reached from root in at most n references,
\* the first of them in the event's categories.
Within(dat, root, categories, n) ==
    LET first == Refers(dat, root, IF categories = {} THEN Layers ELSE categories)
        reach[k \in Nat] ==
          IF k = 0 THEN {root}
          ELSE IF k = 1 THEN {root} \cup first
          ELSE LET nearer == reach[k - 1]
               IN nearer \cup UNION {Refers(dat, d, Layers) : d \in nearer \ {root}}
    IN reach[n]

=============================================================================
