---------------------------- MODULE Egress_proofs ----------------------------
(* Proofs about Egress for every value of its constants.                   *)
EXTENDS Egress, TLAPS

(* Type correctness *)

\* A fresh gateway is well typed.
LEMMA InitTypeOK == Init => TypeOK
BY EgressAssumption DEF Init, TypeOK, Pc

\* No step leaves the types.
LEMMA NextTypeOK == TypeOK /\ [Next]_vars => TypeOK'
<1> SUFFICES ASSUME TypeOK, [Next]_vars PROVE TypeOK'
    OBVIOUS
<1> USE EgressAssumption DEF TypeOK, Pc, Fault
<1>1. CASE Start
  BY <1>1 DEF Start, InOutbox
<1>2. CASE LoopDone
  BY <1>2 DEF LoopDone
<1>3. CASE FetchPending
  BY <1>3 DEF FetchPending, Pending
<1>4. ASSUME NEW d \in Decision, Skip(d) PROVE TypeOK'
  BY <1>4 DEF Skip
<1>5. ASSUME NEW d \in Decision, AddToOutbox(d) PROVE TypeOK'
  <2>1. outbox' \in [Decision -> Nat] /\ outboxSeq' \in Nat
    BY <1>5 DEF AddToOutbox
  <2> QED BY <2>1, <1>5 DEF AddToOutbox
<1>6. ASSUME NEW d \in Decision, Replay(d) PROVE TypeOK'
  BY <1>6 DEF Replay
<1>7. ASSUME NEW d \in Decision, WriteSucceeds(d) PROVE TypeOK'
  <2>1. rows' \in [Decision -> Nat]
    BY <1>7 DEF WriteSucceeds, InsertRow
  <2> QED BY <2>1, <1>7 DEF WriteSucceeds
<1>8. ASSUME NEW d \in Decision, WriteFails(d) PROVE TypeOK'
  <2>1. rows' \in [Decision -> Nat] /\ faults' \in 0..MaxFaults
    BY <1>8 DEF WriteFails, InsertRow
  <2> QED BY <2>1, <1>8 DEF WriteFails, Break
<1>9. ASSUME NEW d \in Decision, RemoveFromOutbox(d) PROVE TypeOK'
  <2>1. outbox' \in [Decision -> Nat]
    BY <1>9 DEF RemoveFromOutbox
  <2> QED BY <2>1, <1>9 DEF RemoveFromOutbox
<1>10. ASSUME NEW d \in Decision, MarkSent(d) PROVE TypeOK'
  BY <1>10 DEF MarkSent
<1>11. ASSUME NEW d \in Decision, Judge(d) PROVE TypeOK'
  BY <1>11 DEF Judge
<1>12. CASE StatementFails
  <2>1. faults' \in 0..MaxFaults
    BY <1>12 DEF StatementFails
  <2> QED BY <2>1, <1>12 DEF StatementFails
<1>13. CASE Crash
  <2>1. faults' \in 0..MaxFaults
    BY <1>13 DEF Crash
  <2> QED BY <2>1, <1>13 DEF Crash
<1>14. CASE UNCHANGED vars
  BY <1>14 DEF vars
<1> QED BY <1>1, <1>2, <1>3, <1>4, <1>5, <1>6, <1>7, <1>8, <1>9, <1>10, <1>11,
           <1>12, <1>13, <1>14 DEF Next, GatewayStep

\* Type correctness of every reachable state.
THEOREM TypeCorrect == Spec => []TypeOK
BY InitTypeOK, NextTypeOK, PTL DEF Spec

-----------------------------------------------------------------------------
(* The inductive invariant *)

\* The list holds judged decisions; a tick lists only unsent ones, a drain only
\* those with an outbox row; the decision being sent is on the list.
ListOK ==
    /\ pc \in {"down", "idle"} => todo = {}
    /\ pc \in {"idle"} => mode = "poll"
    /\ todo \subseteq judged
    /\ mode = "poll" => todo \cap sentAt = {}
    /\ mode = "drain" => \A d \in todo : outbox[d] > 0 \/ (item = d /\ pc = "mark")

\* Where the decision being sent is kept, step by step.
ItemOK ==
    /\ pc \in {"write", "remove", "mark"} => item \in todo
    /\ pc \in {"write", "remove"} => outbox[item] > 0
    /\ pc = "mark" => outbox[item] = 0
    /\ pc \in {"remove", "mark"} => rows[item] > 0

\* d may be inserted once more although no step fails from now on.
Insertable(d) ==
    /\ outbox[d] > 0 \/ d \notin sentAt
    /\ ~ (item = d /\ pc \in {"remove", "mark"})

\* Every insertion but the last one a decision still needs was paid for by a fault.
Budget ==
    \A d \in Decision : /\ rows[d] <= 1 + faults
                        /\ Insertable(d) => rows[d] <= faults

IInv ==
    /\ TypeOK /\ allowed \in Filters
    /\ ListOK /\ ItemOK
    /\ \A d \in Decision : outbox[d] > 0 => d \in judged
    /\ Budget
    /\ SentWasDelivered

\* The inductive invariant holds of the fresh gateway.
LEMMA InitIInv == Init => IInv
BY InitTypeOK, EgressAssumption DEF Init, IInv, ListOK, ItemOK, Budget,
   SentWasDelivered

\* One step per action; under it the conjuncts the action disturbs.
LEMMA NextIInv == IInv /\ [Next]_vars => IInv'
<1> SUFFICES ASSUME IInv, [Next]_vars PROVE IInv'
    OBVIOUS
<1>0. TypeOK'
  BY NextTypeOK DEF IInv
<1> USE <1>0, EgressAssumption
    DEF IInv, ListOK, ItemOK, Budget, Insertable, SentWasDelivered, TypeOK, Pc
<1>1. CASE Start
  BY <1>1 DEF Start, InOutbox
<1>2. CASE LoopDone
  BY <1>2 DEF LoopDone
<1>3. CASE FetchPending
  BY <1>3 DEF FetchPending, Pending
<1>4. ASSUME NEW d \in Decision, Skip(d) PROVE IInv'
  <2>1. d \in Excludable
    BY <1>4 DEF Skip, Deliverable, Excludable
  <2> QED BY <2>1, <1>4 DEF Skip, IsNext, Excludable
<1>5. ASSUME NEW d \in Decision, AddToOutbox(d) PROVE IInv'
  <2>1. d \in todo /\ d \in judged /\ d \notin sentAt
    BY <1>5 DEF AddToOutbox, IsNext
  <2>2. /\ outbox'[d] > 0
        /\ \A e \in Decision \ {d} : outbox'[e] = outbox[e]
    BY <1>5 DEF AddToOutbox
  <2> QED BY <2>1, <2>2, <1>5 DEF AddToOutbox, Excludable
<1>6. ASSUME NEW d \in Decision, Replay(d) PROVE IInv'
  BY <1>6 DEF Replay, IsNext
<1>7. ASSUME NEW d \in Decision, WriteSucceeds(d) PROVE IInv'
  <2>1. /\ rows'[d] = rows[d] + 1 /\ rows[d] <= faults
        /\ \A e \in Decision \ {d} : rows'[e] = rows[e]
    BY <1>7 DEF WriteSucceeds, InsertRow
  <2> QED BY <2>1, <1>7 DEF WriteSucceeds, Excludable
<1>8. ASSUME NEW d \in Decision, WriteFails(d) PROVE IInv'
  <2>1. rows[d] <= faults
    BY <1>8 DEF WriteFails
  <2>2. \A e \in Decision : \/ rows'[e] = rows[e] /\ faults' \in {faults, faults + 1}
                            \/ rows'[e] = rows[e] + 1 /\ e = d /\ faults' = faults + 1
    BY <1>8 DEF WriteFails, InsertRow, Fault
  <2> QED BY <2>1, <2>2, <1>8 DEF WriteFails, Break, Excludable
<1>9. ASSUME NEW d \in Decision, RemoveFromOutbox(d) PROVE IInv'
  <2>1. /\ outbox'[d] = 0
        /\ \A e \in Decision \ {d} : outbox'[e] = outbox[e]
    BY <1>9 DEF RemoveFromOutbox
  <2> QED BY <2>1, <1>9 DEF RemoveFromOutbox, Excludable
<1>10. ASSUME NEW d \in Decision, MarkSent(d) PROVE IInv'
  BY <1>10 DEF MarkSent, Excludable
<1>11. ASSUME NEW d \in Decision, Judge(d) PROVE IInv'
  BY <1>11 DEF Judge, Excludable
<1>12. CASE StatementFails
  <2>1. faults' = faults + 1
    BY <1>12 DEF StatementFails, Fault
  <2> QED BY <2>1, <1>12 DEF StatementFails, Excludable
<1>13. CASE Crash
  <2>1. faults' = faults + 1
    BY <1>13 DEF Crash, Fault
  <2> QED BY <2>1, <1>13 DEF Crash, Excludable
<1>14. CASE UNCHANGED vars
  BY <1>14 DEF vars, Excludable
<1> QED BY <1>1, <1>2, <1>3, <1>4, <1>5, <1>6, <1>7, <1>8, <1>9, <1>10, <1>11,
           <1>12, <1>13, <1>14 DEF Next, GatewayStep

\* The inductive invariant holds in every reachable state.
THEOREM Inductive == Spec => []IInv
BY InitIInv, NextIInv, PTL DEF Spec

\* sent_at is set only on delivered or excluded decisions, whatever fails when.
THEOREM NothingLost == Spec => []SentWasDelivered
<1>1. IInv => SentWasDelivered
  BY DEF IInv
<1> QED BY <1>1, Inductive, PTL

\* A duplicate in t_inspection always has a failure or a crash behind it.
THEOREM DuplicatesBounded == Spec => []DuplicatesNeedFaults
<1>1. IInv => DuplicatesNeedFaults
  BY DEF IInv, Budget, DuplicatesNeedFaults
<1> QED BY <1>1, Inductive, PTL

-----------------------------------------------------------------------------
(* Refinement of Delivery, when the filter never changes *)

\* Every outbox row belongs to a decision that is still to be delivered.
OutboxOpen ==
    \A d \in Decision : outbox[d] > 0 => d \notin sentAt \cup Excludable

SameFilterAlways == \A F, G \in Filters : F = G

\* With one filter the outbox only holds decisions that are neither settled nor
\* excluded: Skip never meets one of the outbox (send_record).
LEMMA NextOutboxOpen ==
    ASSUME SameFilterAlways, IInv, IInv', OutboxOpen, [Next]_vars
    PROVE  OutboxOpen'
<1> USE EgressAssumption DEF IInv, TypeOK, Pc, OutboxOpen, Excludable
<1>1. ASSUME NEW d \in Decision, Skip(d) PROVE OutboxOpen'
  BY <1>1 DEF Skip, Deliverable
<1>2. ASSUME NEW d \in Decision, AddToOutbox(d) PROVE OutboxOpen'
  <2>1. d \notin sentAt \cup Excludable
    BY <1>2 DEF AddToOutbox, IsNext, ListOK, Deliverable, SameFilterAlways
  <2>2. \A e \in Decision \ {d} : outbox'[e] = outbox[e]
    BY <1>2 DEF AddToOutbox
  <2> QED BY <2>1, <2>2, <1>2 DEF AddToOutbox
<1>3. ASSUME NEW d \in Decision, RemoveFromOutbox(d) PROVE OutboxOpen'
  BY <1>3 DEF RemoveFromOutbox
<1>4. ASSUME NEW d \in Decision, MarkSent(d) PROVE OutboxOpen'
  BY <1>4 DEF MarkSent, ItemOK
<1>5. CASE StatementFails
  BY <1>5 DEF StatementFails, ItemOK
<1>6. ASSUME UNCHANGED <<outbox, sentAt>> PROVE OutboxOpen'
  BY <1>6
<1>7. ASSUME NEW d \in Decision,
             Replay(d) \/ WriteSucceeds(d) \/ WriteFails(d) \/ Judge(d)
      PROVE  UNCHANGED <<outbox, sentAt>>
  BY <1>7 DEF Replay, WriteSucceeds, WriteFails, Judge
<1>8. ASSUME Start \/ LoopDone \/ FetchPending \/ Crash \/ UNCHANGED vars
      PROVE  UNCHANGED <<outbox, sentAt>>
  BY <1>8 DEF Start, LoopDone, FetchPending, Crash, vars
<1> QED BY <1>1, <1>2, <1>3, <1>4, <1>5, <1>6, <1>7, <1>8 DEF Next, GatewayStep

\* Every step of the gateway is a step of Delivery or invisible to it.
LEMMA StepRefines ==
    ASSUME IInv, OutboxOpen, [Next]_vars
    PROVE  [Promise!Next]_<<judged, rows, sentAt>>
<1> USE EgressAssumption
    DEF IInv, TypeOK, Pc, Promise!Next, Promise!Judge, Promise!Insert, Promise!Settle
<1>1. ASSUME NEW d \in Decision, Judge(d) PROVE Promise!Judge(d)
  BY <1>1 DEF Judge
<1>2. ASSUME NEW d \in Decision, Skip(d) PROVE Promise!Settle(d)
  BY <1>2 DEF Skip, IsNext, ListOK, Deliverable, Excludable
<1>3. ASSUME NEW d \in Decision, pc = "write", item = d
      PROVE  d \in judged \ (sentAt \cup Excludable)
  BY <1>3 DEF OutboxOpen, ItemOK
<1>4. ASSUME NEW d \in Decision, WriteSucceeds(d) PROVE Promise!Insert(d)
  BY <1>3, <1>4 DEF WriteSucceeds, InsertRow
<1>5. ASSUME NEW d \in Decision, WriteFails(d)
      PROVE  Promise!Insert(d) \/ UNCHANGED <<judged, rows, sentAt>>
  BY <1>3, <1>5 DEF WriteFails, InsertRow
<1>6. ASSUME NEW d \in Decision, pc = "mark", item = d, sentAt' = sentAt \cup {d},
             UNCHANGED <<judged, rows>>
      PROVE  Promise!Settle(d) \/ UNCHANGED <<judged, rows, sentAt>>
  <2>1. d \in judged /\ rows[d] > 0
    BY <1>6 DEF ItemOK, ListOK
  <2> QED BY <2>1, <1>6
<1>7. ASSUME NEW d \in Decision, MarkSent(d)
      PROVE  Promise!Settle(d) \/ UNCHANGED <<judged, rows, sentAt>>
  BY <1>6, <1>7 DEF MarkSent
<1>8. ASSUME StatementFails
      PROVE  [Promise!Next]_<<judged, rows, sentAt>>
  <2>1. CASE sentAt' = sentAt
    BY <1>8, <2>1 DEF StatementFails
  <2>2. CASE sentAt' # sentAt
    <3>1. pc = "mark" /\ item \in Decision /\ sentAt' = sentAt \cup {item}
          /\ UNCHANGED <<judged, rows>>
      BY <1>8, <2>2 DEF StatementFails
    <3> QED BY <3>1, <1>6
  <2> QED BY <2>1, <2>2
<1>9. ASSUME NEW d \in Decision, AddToOutbox(d) \/ Replay(d) \/ RemoveFromOutbox(d)
      PROVE  UNCHANGED <<judged, rows, sentAt>>
  BY <1>9 DEF AddToOutbox, Replay, RemoveFromOutbox
<1>10. ASSUME Start \/ LoopDone \/ FetchPending \/ Crash \/ UNCHANGED vars
       PROVE  UNCHANGED <<judged, rows, sentAt>>
  BY <1>10 DEF Start, LoopDone, FetchPending, Crash, vars
<1> QED BY <1>1, <1>2, <1>4, <1>5, <1>7, <1>8, <1>9, <1>10 DEF Next, GatewayStep

\* With one filter the gateway implements at-least-once delivery: no decision is
\* inserted before it is judged or after it is settled, none is settled
\* without having been inserted unless it is excluded.
THEOREM Refinement ==
    ASSUME SameFilterAlways
    PROVE  Spec => AtLeastOnce
<1>1. Init => Promise!Init /\ OutboxOpen
  BY EgressAssumption DEF Init, Promise!Init, OutboxOpen
<1>2. IInv /\ IInv' /\ OutboxOpen /\ [Next]_vars => OutboxOpen'
  BY NextOutboxOpen
<1>3. IInv /\ OutboxOpen /\ [Next]_vars => [Promise!Next]_<<judged, rows, sentAt>>
  BY StepRefines
<1> QED BY <1>1, <1>2, <1>3, Inductive, PTL DEF Spec, AtLeastOnce, Promise!Spec

\* With one filter no outbox row outlives the sent_at of its decision.
THEOREM OutboxEmptied ==
    ASSUME SameFilterAlways
    PROVE  Spec => []NothingLeftToReplay
<1>1. Init => OutboxOpen
  BY EgressAssumption DEF Init, OutboxOpen
<1>2. IInv /\ IInv' /\ OutboxOpen /\ [Next]_vars => OutboxOpen'
  BY NextOutboxOpen
<1>3. IInv /\ OutboxOpen => NothingLeftToReplay
  BY DEF IInv, TypeOK, OutboxOpen, NothingLeftToReplay
<1> QED BY <1>1, <1>2, <1>3, Inductive, PTL DEF Spec
=============================================================================
