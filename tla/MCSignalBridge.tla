--------------------------- MODULE MCSignalBridge ---------------------------
(***************************************************************************)
(* SignalBridge for TLC.                                                   *)
(***************************************************************************)
EXTENDS SignalBridge
=============================================================================
