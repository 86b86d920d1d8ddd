------------------------- MODULE MCDeviceMonitor -------------------------
(***************************************************************************)
(* The instance of DeviceMonitor that TLC checks: three keys of two        *)
(* engines, so that a key can be exchanged for one of the same engine and  *)
(* for one of the other.                                                   *)
(***************************************************************************)
EXTENDS DeviceMonitor, TLC

CONSTANTS k1, k2, k3, skf, sof

MCDevices  == {k1, k2, k3}
MCEngines  == {skf, sof}
MCEngineOf == k1 :> skf @@ k2 :> skf @@ k3 :> sof
=============================================================================
