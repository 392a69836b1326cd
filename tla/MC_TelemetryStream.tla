------------------------ MODULE MC_TelemetryStream -------------------------
(* Instances of TelemetryStream for TLC.                                   *)
EXTENDS TelemetryStream, TLC
============================================================================
