--------------------------- MODULE MCEventMatching ---------------------------
(* Profiles for TLC, in the style of examples/event_info.json: two GPUs with a *)
(* property each, a switch with one bit for each link, an alert that only says *)
(* where to look, a command and an API.                                        *)
EXTENDS EventMatching

Words3 == {"0", "1", "2", "3", "true", "false", "X"}
Number3 == "0" :> 0 @@ "1" :> 1 @@ "2" :> 2 @@ "3" :> 3 @@ "true" :> 1 @@ "false" :> 0

bracket(pos, l, r, tl, tr) ==
    [pos |-> pos, from |-> [left |-> l, right |-> r], to |-> [left |-> tl, right |-> tr]]

range1(before, l, r, after) ==
    [texts |-> <<before, after>>, brackets |-> <<bracket(Implicit, l, r, l, r)>>]

gpus == range1(<<"GPU_">>, 0, 1, <<>>)
gpusElsewhere == range1(<<"GPU_">>, 1, 2, <<>>)
gpuPath(l, r) == range1(<<"/", "GPU_">>, l, r, <<>>)
links == [texts |-> <<<<"NVS_">>, <<"/", "Link_">>, <<>>>>,
          brackets |-> <<bracket(0, 0, 1, 0, 1), bracket(1, 1, 2, 1, 2)>>]
linkPath == [texts |-> <<<<"/", "NVS_">>, <<"/", "L_">>, <<>>>>,
             brackets |-> <<bracket(0, 0, 1, 0, 1), bracket(1, 1, 2, 1, 2)>>]
backwards == [texts |-> <<<<"/", "GPU_">>, <<>>>>, brackets |-> <<bracket(Implicit, 1, 0, 1, 0)>>]

dbus(path, itf, prop) == [type |-> "DBUS", object |-> path, interface |-> itf, property |-> prop]
with(acc, key, s) == acc @@ [check |-> (key :> s)]
alert == dbus(asPattern(<<"/", "gpio">>), "Gpio", "Alert")
bits == dbus(asPattern(<<"/", "NVS">>), "Switch", "Bits")
temp(l, r) == dbus(gpuPath(l, r), "Temp", "P")
api(id) == [type |-> "DeviceCoreAPI", property |-> "therm", device_id |-> id]
command(arguments) == [type |-> "CMDLINE", executable |-> "wrapper", arguments |-> arguments]
xGpus == range1(<<"X", "GPU_">>, 0, 1, <<>>)

event(deviceType, accessor, trigger, recovery) ==
    [complete |-> TRUE, deviceType |-> deviceType, accessor |-> accessor,
     trigger |-> trigger, recovery |-> recovery]

overTemp == event(gpus, with(temp(0, 1), "equal", <<"1">>), noAccessor,
                  with(temp(0, 1), "equal", <<"0">>))
changed == event(gpus, temp(0, 1), noAccessor, noAccessor)
linkDown == event(range1(<<"NVS_">>, 0, 1, <<>>), with(bits, "bitmap", <<"1">>), noAccessor,
                  noAccessor)
alertApi == event(gpus, with(api("range"), "equal", <<"1">>), with(alert, "equal", <<"false">>),
                  with(alert, "equal", <<"true">>))
alertOne == event(asPattern(<<"Board">>), noAccessor, with(alert, "equal", <<"false">>), noAccessor)
alertBits == event(gpus, with(api("single"), "bitmap", <<"1">>),
                   with(alert, "not_equal", <<"true">>), noAccessor)
alertCmd == event(gpus, with(command(xGpus), "equal", <<"1">>),
                  with(alert, "equal", <<"false">>), noAccessor)
tempCmd == event(gpus, with(command(xGpus), "lookup", <<"1">>),
                 with(temp(0, 1), "bitset", <<"3">>), noAccessor)
tempApi == event(gpus, with(api("range"), "not_bitmask", <<"1">>),
                 with(temp(0, 1), "bitmask", <<"1">>), noAccessor)
otherRange == event(gpusElsewhere, with(temp(1, 2), "equal", <<"1">>), noAccessor, noAccessor)
mismatched == event(gpusElsewhere, with(temp(0, 1), "equal", <<"1">>), noAccessor, noAccessor)
linkFault == event(links, with(dbus(linkPath, "Link", "Up"), "equal", <<"false">>), noAccessor,
                   noAccessor)
incomplete == [overTemp EXCEPT !.complete = FALSE]
badPattern == event(gpus, dbus(backwards, "Temp", "P"), noAccessor, noAccessor)

Profiles3 == {<<overTemp, tempCmd, linkFault>>, <<linkDown, alertApi, alertOne>>,
              <<alertCmd, alertBits, changed>>, <<otherRange, overTemp, tempApi>>,
              <<overTemp, mismatched>>, <<overTemp, incomplete>>, <<badPattern, overTemp>>}

at2(type, name, target) == [type |-> type, name |-> name, target |-> asPattern(target)]
tempOf(n) == at2("DBUS", <<"Temp", "P">>, <<"/", "GPU_", ToString(n)>>)
apiOf(n) == at2("DeviceCoreAPI", <<"therm">>, <<ToString(n)>>)
commandOf(n) == at2("CMDLINE", <<"wrapper">>, <<"X", "GPU_", ToString(n)>>)
linkOf(n, l) == at2("DBUS", <<"Link", "Up">>, <<"/", "NVS_", ToString(n), "/", "L_", ToString(l)>>)

int(ones) == [type |-> "integer", value |-> ones]
bool(b) == [type |-> "boolean", value |-> b]
text(s) == [type |-> "string", value |-> s]

Variants3 ==
    tempOf(0) :> {int({}), int({0})} @@ tempOf(1) :> {int({}), int({0}), invalidVariant}
    @@ tempOf(2) :> {int({})}
    @@ at2("DBUS", <<"Switch", "Bits">>, <<"/", "NVS">>) :> {int({}), int({1}), int({0, 1})}
    @@ at2("DBUS", <<"Gpio", "Alert">>, <<"/", "gpio">>) :> {bool(TRUE), bool(FALSE)}
    @@ apiOf(0) :> {int({}), int({0, 1})} @@ apiOf(1) :> {int({0}), invalidVariant}
    @@ commandOf(0) :> {text(<<"0">>), text(<<"1">>)} @@ commandOf(1) :> {text(<<"1">>)}
    @@ linkOf(0, 2) :> {bool(TRUE), bool(FALSE)} @@ linkOf(1, 1) :> {bool(TRUE)}

InitWorld3 == [p \in DOMAIN Variants3 |->
                  CASE p.type = "CMDLINE" -> CHOOSE v \in Variants3[p] : TRUE
                    [] p = apiOf(1) -> int({0})
                    [] p.name[1] \in {"Gpio", "Link"} -> bool(TRUE)
                    [] OTHER -> int({})]

BootData3 == {[acc |-> command(asPattern(<<"X", "GPU_", "1">>)), device |-> <<"GPU_", "1">>],
              [acc |-> api("range"), device |-> <<"GPU_", "1">>]}

noDeviceNames == [none \in {} |-> none]
=============================================================================
