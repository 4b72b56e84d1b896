---------------------------- MODULE MCFrameStore ----------------------------
(* Instances of FrameStore for TLC.                                        *)
EXTENDS FrameStore

\* Frames 3 and 4 arrive in the same millisecond.
Paths == [f \in Frame |-> IF f <= 3 THEN f ELSE f - 1]
=============================================================================
