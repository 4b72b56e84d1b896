--------------------------- MODULE MCStationAdmin ---------------------------
(* Instances of StationAdmin for TLC.                                      *)
EXTENDS StationAdmin, TLC

\* Ids, and the requests in flight, are interchangeable.
Interchangeable == Permutations(Station) \cup Permutations(Admin)
=============================================================================
