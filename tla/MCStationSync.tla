--------------------------- MODULE MCStationSync ---------------------------
(* Instances of StationSync for TLC.                                       *)
EXTENDS StationSync
=============================================================================
