--------------------------- MODULE MCVideoSession ---------------------------
(* Instances of VideoSession for TLC.                                      *)
EXTENDS VideoSession
=============================================================================
