------------------------------ MODULE MCEgress ------------------------------
(* Instances of Egress for TLC.                                            *)
EXTENDS Egress

\* Decision 1 is normal, decision 2 caution, every later one danger.
Events == [d \in Decision |-> CASE d = 1 -> 0 [] d = 2 -> 1 [] OTHER -> 3]

\* One filter for the whole deployment, which keeps "normal" from LOAS.
OneFilter == {{1, 2, 3}}
=============================================================================
