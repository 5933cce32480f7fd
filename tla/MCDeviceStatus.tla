--------------------------- MODULE MCDeviceStatus ---------------------------
(***************************************************************************)
(* A GPU that rolls up to itself and to the baseboard, any other device    *)
(* only to the baseboard.                                                  *)
(***************************************************************************)
EXTENDS DeviceStatus, TLC

Association == ("GPU" :> <<"GPU", "Baseboard">>) @@ ("[Other]" :> <<"Baseboard">>)

=============================================================================
