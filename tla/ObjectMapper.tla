---------------------------- MODULE ObjectMapper ----------------------------
(***************************************************************************)
(* The object mapper as the daemon uses it (include/dbus_accessor.hpp,     *)
(* src/dbus_accessor.cpp).  A tree gives every object path its services    *)
(* and every service the interfaces it implements at that path.  A path is *)
(* known by its last name, by whether that name carries the HGX_ prefix,   *)
(* and by whether it lies directly under .../inventory/system/chassis.     *)
(***************************************************************************)
EXTENDS Integers, Sequences, SequencesExt, FiniteSets, Functions

CONSTANTS
    DeviceNames,
    Services,
    Interfaces

Paths == [name : DeviceNames, hgx : BOOLEAN, chassis : BOOLEAN]

\* What a path's services implement, and the whole tree (FullTreeType).
IsManagers(m) == DOMAIN m \subseteq Services /\ \A s \in DOMAIN m : m[s] \subseteq Interfaces

IsTree(t) == DOMAIN t \subseteq Paths /\ \A p \in DOMAIN t : IsManagers(t[p])

isObjPathPrimaryDevId(path, device) == path.chassis /\ path.name = device

isObjPathDerivativeDevId(path, device) == ~path.hgx /\ path.name = device

\* The mirror keeps the services that implement all the interfaces asked for.
scopeManagers(managers, interfaces) ==
    Restrict(managers, {s \in DOMAIN managers : interfaces \subseteq managers[s]})

getSubTreePaths(tree, interfaces) ==
    {p \in DOMAIN tree : DOMAIN scopeManagers(tree[p], interfaces) # {}}

\* The paths come in the order of the map; the order tells nothing here.
getAllDevIdObjPaths(tree, device, interfaces) ==
    {p \in getSubTreePaths(tree, interfaces) :
        isObjPathPrimaryDevId(p, device) \/ isObjPathDerivativeDevId(p, device)}

\* The only service of a path that implements the interface, as a set: empty
\* when there is none and when there are several.
getManager(tree, path, interface) ==
    LET found == DOMAIN scopeManagers(tree[path], {interface})
    IN IF Cardinality(found) = 1 THEN found ELSE {}

=============================================================================
