------------------------------ MODULE Delivery ------------------------------
(***************************************************************************)
(* What the Egress Gateway promises LOAS: at-least-once delivery.          *)
(*                                                                         *)
(* A judged decision may be inserted into t_inspection any number of       *)
(* times until it is settled; it is settled once it has been inserted, or  *)
(* without an insertion when it is excluded from the delivery; after that  *)
(* it is never inserted again.                                             *)
(***************************************************************************)
EXTENDS Integers

CONSTANTS
    Decision,   \* decision_record.id
    Excluded    \* decisions LOAS is not to receive

VARIABLES
    judged,     \* decisions with a final_decision
    rows,       \* how many t_inspection rows a decision has
    settled     \* decisions the gateway is done with

Init ==
    /\ judged = {}
    /\ rows = [d \in Decision |-> 0]
    /\ settled = {}

Judge(d) ==
    /\ d \notin judged
    /\ judged' = judged \cup {d}
    /\ UNCHANGED <<rows, settled>>

Insert(d) ==
    /\ d \in judged \ (settled \cup Excluded)
    /\ rows' = [rows EXCEPT ![d] = @ + 1]
    /\ UNCHANGED <<judged, settled>>

Settle(d) ==
    /\ d \in judged \ settled
    /\ rows[d] > 0 \/ d \in Excluded
    /\ settled' = settled \cup {d}
    /\ UNCHANGED <<judged, rows>>

Next == \E d \in Decision : Judge(d) \/ Insert(d) \/ Settle(d)

Spec == Init /\ [][Next]_<<judged, rows, settled>>
=============================================================================
