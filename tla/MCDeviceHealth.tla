--------------------------- MODULE MCDeviceHealth ---------------------------
(***************************************************************************)
(* Two shapes of system: one device on two paths, with more event ids than *)
(* the limit lets in; two devices on a path each, which share the retry    *)
(* timer.                                                                  *)
(***************************************************************************)
EXTENDS DeviceHealthService

CONSTANTS d1, d2, p1, p2

OneDevice == {d1}
TwoDevices == {d1, d2}
TwoPaths == {p1, p2}
PathsOfOne == [d \in {d1} |-> {p1, p2}]
PathsOfTwo == [d \in {d1, d2} |-> IF d = d1 THEN {p1} ELSE {p2}]

=============================================================================
