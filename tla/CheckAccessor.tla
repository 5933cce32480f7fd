---------------------------- MODULE CheckAccessor ----------------------------
(***************************************************************************)
(* Checking an accessor of an event against data (src/check_accessor.cpp). *)
(* A check is a record of the members of the C++ object together with the  *)
(* check under way.  One that has to read first is left with the reads it  *)
(* still has to do; readNext does one of them, on the values of that       *)
(* moment, and judges what it has read.                                    *)
(***************************************************************************)
EXTENDS Accessor

\* A DataAccessor: the JSON, its data, the device set by the selftest.
noData == [acc |-> noAccessor, value |-> emptyValue, device |-> <<>>]

hasData(data) == ~isEmptyValue(data.value)

newCheck(deviceType) ==
    [status |-> "NotPerformed", asserted |-> <<>>, trigger |-> noData,
     triggerDevice |-> <<>>, pattern |-> deviceType, index |-> <<>>,
     json |-> noAccessor, data |-> noData, reads |-> <<>>, looping |-> FALSE,
     deviceToRead |-> <<>>]

passed(ck) == ck.status = "Passed"
isDone(ck) == ck.reads = <<>>

getCurrentDevice(ck) ==
    LET name == IF existsRange(ck.pattern) THEN determineDeviceName(ck.pattern, ck.index)
                                           ELSE <<>>
    IN IF name = <<>> THEN ck.triggerDevice ELSE name

currentDeviceThrows(ck) == existsRange(ck.pattern) /\ nameThrows(ck.pattern, ck.index)

buildSingleAssertedDeviceName(ck, realDevice, patternIndex) ==
    LET device == IF realDevice = <<>> /\ ~existsRange(ck.pattern)
                  THEN determineDeviceName(ck.pattern, patternIndex) ELSE realDevice
    IN IF device = <<>> THEN ck
       ELSE [ck EXCEPT !.asserted =
                Append(@, [trigger |-> ck.trigger, accessor |-> ck.data,
                           device |-> device, deviceIndexTuple |-> patternIndex])]

\* Mutant: the device that was read is not told.
tupleOfCurrent(ck, deviceId) == ck.index

\* The index tuple of a deviceId; InvalidDeviceId is -1.
tupleOf(ck, deviceId) == IF deviceId < 0 THEN ck.index ELSE <<deviceId>>

\* A bitmap is checked for every device of the type, the mask moved one bit on
\* for each; anything else once, for the device that was read.
subCheck(ck, dev2Read, patternIndex) ==
    LET map == ck.json.check
        bitmap == string2Uint64(map.bitmap)
        mask(n) == [type |-> "integer", value |-> shiftLeft(bitmap.value64, n - 1)]
        judge(c, n) ==
            IF check(ck.data.value, map, mask(n))
            THEN [buildSingleAssertedDeviceName(c, eval(c.pattern, nth(c.pattern, n - 1)),
                                                nth(c.pattern, n - 1))
                     EXCEPT !.status = "Passed"]
            ELSE c
        judged[n \in 0 .. domainSize(ck.pattern)] ==
            IF n = 0 THEN ck ELSE judge(judged[n - 1], n)
    IN CASE ~hasData(ck.data) -> ck
         [] hasData(ck.data) /\ existsCheckBitmap(ck.json) ->
               IF isValidInteger(bitmap)
               THEN judged[domainSize(ck.pattern)] ELSE ck
         [] OTHER ->
               IF check(ck.data.value, map, invalidVariant)
               THEN [buildSingleAssertedDeviceName(ck, dev2Read, patternIndex)
                        EXCEPT !.status = "Passed"]
               ELSE ck

\* The devices privCheck reads one after the other when it knows of none.
devRange(ck, json) ==
    IF /\ getCurrentDevice(ck) = <<>>
       /\ \/ isTypeCmdline(json) /\ existsRange(argumentsOf(json))
          \/ isTypeDeviceCoreApi(json) /\ isDeviceIdRange(json)
    THEN domainVec(ck.pattern) ELSE <<>>

privCheck(ck0, json, data) ==
    LET ck == [ck0 EXCEPT !.status = "NotPassed", !.json = json, !.data = data,
                          !.trigger = IF isEmpty(@.acc) THEN data ELSE @]
        device == getCurrentDevice(ck)
    IN CASE ~existsCheckKey(json) ->
               [buildSingleAssertedDeviceName(ck, device, ck.index) EXCEPT !.status = "Passed"]
         [] existsCheckKey(json) /\ devRange(ck, json) # <<>> ->
               [ck EXCEPT !.data = [noData EXCEPT !.acc = json],
                          !.reads = devRange(ck, json), !.looping = TRUE]
         [] OTHER ->
               IF isTypeDbus(data.acc) /\ hasData(data) THEN subCheck(ck, device, ck.index)
               ELSE [ck EXCEPT !.reads = <<ck.index>>, !.deviceToRead = device]

\* One turn of loopDevices, or the only read.
readNext(ck, world) ==
    LET pi == Head(ck.reads)
        device == IF ck.looping THEN eval(ck.pattern, pi) ELSE ck.deviceToRead
        value == read(ck.data.acc, world, device, pi)
    IN subCheck([ck EXCEPT !.reads = Tail(@), !.data.value = value], device,
                IF ck.looping THEN tupleOf(ck, at(pi, 0)) ELSE ck.index)

nextReadThrows(ck) == readThrows(ck.data.acc, Head(ck.reads))

\* The index the path or the arguments of the data give.
indexed(ck, json, data) ==
    CASE isTypeDbus(json) /\ existsRange(ck.pattern)
         /\ isValidDbusAccessor(json) /\ isValidDbusAccessor(data.acc) ->
            [ck EXCEPT !.index = determineDeviceIndex(json.object, asString(data.acc.object))]
      [] isTypeCmdline(json) /\ existsRange(argumentsOf(json))
         /\ ~existsRange(argumentsOf(data.acc)) ->
            [ck EXCEPT !.index = determineDeviceIndex(argumentsOf(json),
                                                      asString(argumentsOf(data.acc)))]
      [] OTHER -> ck

\* CMDLINE and DeviceCoreAPI data that comes with its value, from the selftest.
judgesAtOnce(json, data) ==
    /\ hasData(data)
    /\ \/ isTypeCmdline(json) /\ existsRange(argumentsOf(json))
                              /\ ~existsRange(argumentsOf(data.acc))
       \/ isTypeDeviceCoreApi(json) /\ data.device # <<>>

\* check(jsonAcc, dataAcc)
checkData(deviceType, json, data) ==
    LET ck == [indexed(newCheck(deviceType), json, data)
                  EXCEPT !.status = "NotPassed", !.json = json, !.data = data]
    IN IF ~judgesAtOnce(json, data) THEN privCheck(ck, json, data)
       ELSE IF isTypeCmdline(json)
            THEN subCheck(ck, determineDeviceName(deviceType, ck.index),
                          tupleOf(ck, at(ck.index, 0)))
            ELSE subCheck(ck, data.device, <<getDeviceId(data.device)>>)

\* Data that comes with its value is judged without asking for a "check" key:
\* the JSON operator[] of a missing key is undefined and ends the thread at best.
checkDataThrows(deviceType, json, data) ==
    LET ck == indexed(newCheck(deviceType), json, data)
    IN IF ~judgesAtOnce(json, data) THEN currentDeviceThrows(ck)
       ELSE \/ ~existsCheckKey(json)
            \/ isTypeCmdline(json) /\ nameThrows(deviceType, ck.index)

\* check(jsonAcc, triggerCheck): the first device the trigger asserted is the one
\* to read for.
checkAfterTrigger(deviceType, json, triggerCheck) ==
    LET ck == [newCheck(deviceType) EXCEPT !.trigger = triggerCheck.trigger]
        asserted == triggerCheck.asserted
    IN privCheck(IF asserted = <<>> THEN ck
                 ELSE [ck EXCEPT !.triggerDevice = asserted[1].device,
                                 !.pattern = triggerCheck.pattern,
                                 !.index = triggerCheck.index],
                 json, [noData EXCEPT !.acc = json])

\* It ends with the devices of the trigger when it passes without its own.
afterTrigger(ck, triggerCheck) ==
    IF ~passed(ck) \/ ck.asserted # <<>> THEN ck
    ELSE [ck EXCEPT !.asserted =
             [i \in DOMAIN triggerCheck.asserted |->
                 IF hasData(ck.data) THEN [triggerCheck.asserted[i] EXCEPT !.accessor = ck.data]
                 ELSE triggerCheck.asserted[i]]]

=============================================================================
