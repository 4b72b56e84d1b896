---------------------------- MODULE MCPoolerTran ----------------------------
(* Instances of PoolerTran for TLC.                                        *)
EXTENDS PoolerTran

\* One robot: three frames of waypoint 10 (two readings), two of waypoint 20.
RouteAmr   == [f \in Frame |-> 1]
RouteDust  == [f \in Frame |-> CASE f = 1 -> 1 [] f \in {2, 3} -> 2 [] OTHER -> 3]
RouteWp    == [d \in Dust |-> IF d = 3 THEN 20 ELSE 10]
RouteValue == [d \in Dust |-> d]

\* Two robots, each with a frame of waypoint 10 and one of waypoint 20; frame 5
\* is paired with a reading that names no waypoint.
PairAmr   == [f \in Frame |-> IF f \in {1, 2} THEN 1 ELSE 2]
PairDust  == [f \in Frame |-> f]
PairWp    == [d \in Dust |-> CASE d \in {1, 3} -> 10 [] d = 5 -> 0 [] OTHER -> 20]
PairValue == [d \in Dust |-> 7]
=============================================================================
