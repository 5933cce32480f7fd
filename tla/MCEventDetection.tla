-------------------------- MODULE MCEventDetection --------------------------
(***************************************************************************)
(* Small profiles.  A property "o" of one device is 1 when its condition   *)
(* holds; "mask" has a bit for each of two devices; "count" is a counter.  *)
(***************************************************************************)
EXTENDS EventDetection, TLC

CONSTANTS d1, d2

None == [on |-> {}, check |-> [o \in Objects |-> [v \in Values |-> {}]]]

\* The accessor matches o; its check names device d for value x of anything.
Equals(o, x, d) ==
    [on    |-> {o},
     check |-> [p \in Objects |-> [v \in Values |-> IF v = x THEN {d} ELSE {}]]]

\* What a property is without its condition.
Cleared == IF 0 \in Values THEN 0 ELSE -1

\* No check: any value of o names the device.
Always(o, d) ==
    [on |-> {o}, check |-> [p \in Objects |-> [v \in Values |-> {d}]]]

\* A bitmap check for d1 and d2: the devices whose bit is x.
Bit(v, d) == IF d = d1 THEN v % 2 ELSE (v \div 2) % 2

Bitmap(o, x) ==
    [on    |-> {o},
     check |-> [p \in Objects |-> [v \in Values |->
                  IF v < 0 THEN {} ELSE {d \in {d1, d2} : Bit(v, d) = x}]]]

Event(name, trigger, accessor, recovery, limit) ==
    [name |-> name, trigger |-> trigger, accessor |-> accessor,
     recovery |-> recovery, readFrom |-> [d \in Devices |->
        IF accessor.on = {} THEN CHOOSE o \in Objects : TRUE
        ELSE CHOOSE o \in accessor.on : TRUE],
     triggerCount |-> limit, valueAsCount |-> FALSE, subType |-> ""]

\* 1, and Cleared; of "count" -1 says that there is no value.
CounterValues == {-1, 1}

Zeros == [o \in Objects |-> Cleared]

\* One device.  "fault" asserts on 1 and recovers when it is cleared; "again"
\* needs two occurrences, recovers likewise; "both" has the name of "fault", a
\* sub type and an accessor of its own that no signal announces; "never" is
\* disabled.
OneDevice ==
    [e \in Events |->
       CASE e = "fault" -> Event("fault", Equals("o", 1, d1),
                                 Equals("o", 1, d1),
                                 Equals("o", Cleared, d1), 0)
         [] e = "again" -> Event("again", Equals("o", 1, d1),
                                 Equals("o", 1, d1),
                                 Equals("o", Cleared, d1), 2)
         [] e = "both"  -> [Event("fault", Always("o", d1),
                                  Equals("quiet", 1, d1),
                                  Equals("o", Cleared, d1), 1)
                              EXCEPT !.subType = "port"]
         [] e = "never" -> Event("never", Equals("o", Cleared, d1),
                                 Equals("o", Cleared, d1), None, -1)]

\* Two devices in one property, as a bitmap.
TwoDevices ==
    [e \in Events |->
       CASE e = "fault" -> Event("fault", Bitmap("mask", 1),
                                 Bitmap("mask", 1), Bitmap("mask", 0), 1)
         [] e = "again" -> Event("again", Bitmap("mask", 1),
                                 Bitmap("mask", 1), None, 2)]

\* "count" takes the value of the signal for the count; -1 has its accessor
\* read again.  The others are those of OneDevice.
Counter ==
    [e \in Events |->
       IF e = "count"
       THEN [Event("count", Always("count", d1), Always("count", d1), None, 1)
               EXCEPT !.valueAsCount = TRUE]
       ELSE OneDevice[e]]

GuardSymmetry == Permutations(Guards)

=============================================================================
