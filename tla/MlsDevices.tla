----------------------------- MODULE MlsDevices -----------------------------
(***************************************************************************)
(* What MlsDelivery and KeyPackages have in common: the devices whose      *)
(* sessions make the requests, and SQL NULL.                               *)
(***************************************************************************)
CONSTANTS
    Devices,        \* the media devices that hold sessions
    None            \* SQL NULL
=============================================================================
