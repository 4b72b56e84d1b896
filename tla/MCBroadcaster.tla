--------------------------- MODULE MCBroadcaster ---------------------------
(* Instances of Broadcaster for TLC.                                       *)
EXTENDS Broadcaster

\* A queue of every station's events is twice as long as one of a station.
MCCap == [t \in Topic |-> IF t = All THEN 2 ELSE 1]
=============================================================================
