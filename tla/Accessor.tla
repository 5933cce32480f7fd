------------------------------ MODULE Accessor ------------------------------
(***************************************************************************)
(* Data accessors (include/data_accessor.hpp, src/data_accessor.cpp): where*)
(* a value is read from, and the criteria it is checked against.  An       *)
(* accessor is a record of the keys of its JSON object; a key it lacks is  *)
(* not in its domain.  "object" and "arguments" are device id patterns.    *)
(***************************************************************************)
EXTENDS DeviceId, PropertyValue

CONSTANT deviceNameMap   \* names of devices with an id of their own

typeKeys == {"type", "object", "interface", "property", "executable", "arguments"}
ignoredKeys == {"name", "check", "device_id"}

noAccessor == [none \in {} |-> none]
isEmpty(acc) == DOMAIN acc = {}
isValid(acc) == "type" \in DOMAIN acc
isType(acc, type) == isValid(acc) /\ acc.type = type

isTypeDbus(acc) == isType(acc, "DBUS")
isTypeCmdline(acc) == isType(acc, "CMDLINE")
isTypeDeviceCoreApi(acc) == isType(acc, "DeviceCoreAPI")

isValidDbusAccessor(acc) ==
    isTypeDbus(acc) /\ {"object", "interface", "property"} \subseteq DOMAIN acc
isValidCmdlineAccessor(acc) == isTypeCmdline(acc) /\ "executable" \in DOMAIN acc
isValidDeviceCoreApiAccessor(acc) == isTypeDeviceCoreApi(acc) /\ "property" \in DOMAIN acc

\* The accessors a profile may have (dataAccessorSchema); DIRECT is left out.
isAccessor(acc) ==
    \/ isEmpty(acc)
    \/ /\ isTypeDbus(acc) /\ acc.object \in Patterns
       /\ DOMAIN acc \ ignoredKeys = {"type", "object", "interface", "property"}
    \/ /\ isTypeCmdline(acc) /\ acc.arguments \in Patterns
       /\ DOMAIN acc \ ignoredKeys = {"type", "executable", "arguments"}
    \/ /\ isTypeDeviceCoreApi(acc)
       /\ DOMAIN acc \ ignoredKeys = {"type", "property"}

existsCheckKey(acc) == "check" \in DOMAIN acc
existsCheckBitmap(acc) == existsCheckKey(acc) /\ "bitmap" \in DOMAIN acc.check
existsCheckLookup(acc) == existsCheckKey(acc) /\ "lookup" \in DOMAIN acc.check
isDeviceIdRange(acc) == "device_id" \notin DOMAIN acc \/ acc.device_id = "range"

\* The pattern operator== compares under "object" and "arguments".
pathOf(acc) == CASE isTypeDbus(acc) -> acc.object
                 [] isTypeCmdline(acc) -> acc.arguments

argumentsOf(acc) == IF isTypeCmdline(acc) /\ "arguments" \in DOMAIN acc THEN acc.arguments
                                                                      ELSE asPattern(<<>>)

\* One of the two is the text of a member of the other.
pathsMatch(p, q) == \/ p = q
                    \/ isString(q) /\ matches(p, asString(q))
                    \/ isString(p) /\ matches(q, asString(p))

\* operator==: over the keys of the left side only.
same(acc, other) ==
    /\ isValid(acc) /\ isValid(other) /\ acc.type = other.type
    /\ \A key \in DOMAIN acc \ ignoredKeys :
          /\ key \in DOMAIN other
          /\ IF key \in {"object", "arguments"}
             THEN isTypeDbus(acc) \/ isTypeCmdline(acc) => pathsMatch(pathOf(acc), pathOf(other))
             ELSE acc[key] = other[key]

\* What DataAccessor::Hash hashes.
hashed(acc) ==
    CASE isValidDbusAccessor(acc) -> <<acc.type, acc.interface, acc.property>>
      [] isTypeCmdline(acc) -> <<acc.type, acc.executable>>
      [] isTypeDeviceCoreApi(acc) -> <<acc.type, acc.property>>
      [] OTHER -> <<>>

-----------------------------------------------------------------------------
(* read: the place an accessor reads.  The world maps places to variants.  *)

\* introduceDeviceInObjectpath: the range is replaced when the dimensions agree;
\* the evaluation throws outside the domain.
introduced(p, pi) == IF dim(p) > 0 /\ dim(p) = Len(pi) THEN asPattern(eval(p, pi)) ELSE p

introduceThrows(p, pi) == dim(p) > 0 /\ dim(p) = Len(pi) /\ ~checkIsInDomain(p, pi)

\* The greatest digit in the name, or 0.
getDeviceId(device) ==
    LET digits == {n \in 0 .. 9 : Contains(device, ToString(n))}
    IN IF digits = {} THEN 0 ELSE Max(digits)

\* The number a device is read with: its own when the map has the name.
readDeviceId(device) ==
    IF device \in DOMAIN deviceNameMap THEN deviceNameMap[device] ELSE getDeviceId(device)

place(acc, device, pi) ==
    CASE isValidDbusAccessor(acc) ->
            [type |-> acc.type, name |-> <<acc.interface, acc.property>>,
             target |-> introduced(acc.object, pi)]
      [] isValidCmdlineAccessor(acc) ->
            [type |-> acc.type, name |-> <<acc.executable>>,
             target |-> introduced(argumentsOf(acc), pi)]
      [] isValidDeviceCoreApiAccessor(acc) ->
            [type |-> acc.type, name |-> <<acc.property>>,
             target |-> asPattern(<<ToString(readDeviceId(device))>>)]

readThrows(acc, pi) ==
    \/ isValidDbusAccessor(acc) /\ introduceThrows(acc.object, pi)
    \/ isValidCmdlineAccessor(acc) /\ introduceThrows(argumentsOf(acc), pi)

\* A place the world does not have gives no value: no service, an exit code, a
\* timeout, an error of the API, a path that still has a range.  The output of
\* a command is read as a number when it can be; an API gives text and number.
read(acc, world, device, pi) ==
    LET readable == isValidDbusAccessor(acc) \/ isValidCmdlineAccessor(acc)
                    \/ isValidDeviceCoreApiAccessor(acc)
        where == place(acc, device, pi)
    IN IF ~readable \/ where \notin DOMAIN world \/ ~isValidVariant(world[where])
       THEN emptyValue
       ELSE IF isTypeCmdline(acc) THEN string2Uint64(world[where].value)
       ELSE IF isTypeDeviceCoreApi(acc) /\ existsCheckLookup(acc) /\ ~isDeviceIdRange(acc)
            THEN [fromVariant(world[where]) EXCEPT !.strValue = world[where].text]
       ELSE fromVariant(world[where])

=============================================================================
