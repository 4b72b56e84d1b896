--------------------------- MODULE MCStationTask ---------------------------
(* Instances of StationTask for TLC.                                       *)
EXTENDS StationTask

CONSTANTS hour, day

MCUnitList == <<hour, day>>
MCBucketOf == [u \in {hour, day} |-> [t \in Time |-> t]]
=============================================================================
