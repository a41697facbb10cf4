----------------------------- MODULE MCSdkDevice -----------------------------
(* TLC instance of SdkDevice: the device is configured with d1, or with    *)
(* nothing, and then gets d1 and d2 from the registry; d2 may be taken by  *)
(* another client first.                                                   *)
EXTENDS SdkDevice

CONSTANTS d1, d2

MCConfigured == {{}, {d1}}
MCGenerated == <<d1, d2>>
=============================================================================
