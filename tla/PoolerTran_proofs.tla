-------------------------- MODULE PoolerTran_proofs --------------------------
(* Proofs about PoolerTran for every value of its constants.               *)
EXTENDS PoolerTran, TLAPS

\* The loop only holds AMRs whose current waypoint it has read.
LoopOK == todo \subseteq {a \in Amr : current[a] # NoWp}

\* A fresh PoolerTran and an empty queue are well typed.
LEMMA InitTypeOK == Init => TypeOK /\ LoopOK
<1> SUFFICES ASSUME Init PROVE TypeOK /\ LoopOK
    OBVIOUS
<1> USE PoolerAssumption DEF Init
<1>1. /\ frame \in [Frame -> {"unpaired", "paired", "purged"}]
      /\ queue \in SUBSET Frame
      /\ enqueuedAt \in [Frame -> Nat]
      /\ attempts \in [Frame -> Nat]
  OBVIOUS
<1>2. clock \in Nat /\ horizon \in Nat /\ pc \in Pc /\ faults \in 0..MaxFaults
  BY DEF Pc
<1>3. /\ last \in [Amr -> Waypoint \cup {InitWp}]
      /\ current \in [Amr -> Waypoint \cup {NoWp}]
      /\ todo \in SUBSET Amr
  BY DEF Nowhere
<1>4. fate \in [Frame -> Fate]
  BY DEF Fate
<1>5. LoopOK
  BY DEF LoopOK
<1>6. /\ batch \in SUBSET Frame /\ dropped \in SUBSET batch /\ failed \in BOOLEAN
      /\ sent \in SUBSET Frame
      /\ decision \in SUBSET DecisionRecord
      /\ dlq \in SUBSET Frame /\ dlqFailed \in SUBSET Frame
  OBVIOUS
<1> QED BY <1>1, <1>2, <1>3, <1>4, <1>5, <1>6 DEF TypeOK

\* A record of the claimed rows is a decision record.
LEMMA InsertDecisionType ==
    ASSUME TypeOK, NEW a \in Amr, NEW r \in batch, Wp(r) \in Waypoint,
           InsertDecision(a, r)
    PROVE  decision' \in SUBSET DecisionRecord
<1> DEFINE rec == [dust |-> DustOf[r], amr |-> a, wp |-> Wp(r), frames |-> batch]
<1>1. DustOf[r] \in Dust /\ batch \in SUBSET Frame
  BY PoolerAssumption DEF TypeOK
<1>2. rec \in DecisionRecord
  BY <1>1 DEF DecisionRecord
<1>3. decision' = decision \/ decision' = decision \cup {rec}
  BY DEF InsertDecision
<1> QED BY <1>2, <1>3 DEF TypeOK

-----------------------------------------------------------------------------
(* The inductive invariant *)

\* The claim: rows of the AMR in hand at the waypoint it has left, at most one
\* batch, locked in the queue; outside a transaction there is none.
ClaimOK ==
    /\ batch \subseteq queue
    /\ pc \in {"wait", "loop", "sweep", "down"} => batch = {} /\ ~ failed
    /\ pc \in {"rest", "insert", "fail"} => dropped = {} /\ ~ failed
    /\ batch # {} => Cardinality(batch) <= BatchSize
    /\ \A a \in Amr : IsNextAmr(a) =>
          \A f \in batch : AmrOf[f] = a /\ Wp(f) = last[a]

\* What is already outside the queue's database when the transaction commits.
ExternalOK ==
    /\ pc = "insert" => batch \subseteq sent
    /\ pc = "commit" /\ ~ failed =>
          \A f \in dropped : /\ f \in sent
                             /\ \E d \in decision : d.amr = AmrOf[f] /\ d.wp = Wp(f)
    /\ pc = "commit" /\ failed =>
          /\ \A f \in dropped : f \in dlq /\ attempts[f] >= MaxAttempts
          /\ \A f \in batch \ dropped : attempts[f] + 1 > MaxAttempts => f \in dlqFailed

\* A row in the queue has no fate yet, and a frame is enqueued once, when paired.
QueueOK ==
    /\ \A f \in queue : fate[f] = "none" /\ frame[f] # "unpaired"
    /\ \A f \in Frame : fate[f] # "none" => frame[f] # "unpaired"

Safety == /\ ProcessedWasDecided /\ DeadRowsKept /\ RetriesBounded
          /\ DecisionsCoherent /\ DiscardFollowsBatch

IInv == TypeOK /\ LoopOK /\ ClaimOK /\ ExternalOK /\ QueueOK /\ Safety

\* The inductive invariant holds of the fresh system.
LEMMA InitIInv == Init => IInv
<1> SUFFICES ASSUME Init PROVE IInv
    OBVIOUS
<1>1. TypeOK /\ LoopOK
  BY InitTypeOK
<1>2. ClaimOK /\ ExternalOK /\ QueueOK
  BY PoolerAssumption DEF Init, ClaimOK, ExternalOK, QueueOK
<1>3. Safety
  BY PoolerAssumption DEF Init, Safety, ProcessedWasDecided, DeadRowsKept, RetriesBounded,
     DecisionsCoherent, DiscardFollowsBatch
<1> QED BY <1>1, <1>2, <1>3 DEF IInv

\* No step of the Poller, a fault or the gateway leaves the types.
LEMMA NextTypeOK == IInv /\ [Next]_vars => TypeOK' /\ LoopOK'
<1> SUFFICES ASSUME IInv, [Next]_vars PROVE TypeOK' /\ LoopOK'
    OBVIOUS
<1> USE PoolerAssumption
    DEF IInv, TypeOK, LoopOK, Pc, Fault, source, records
<1>1. ASSUME NEW f \in Frame, PairFrame(f) PROVE TypeOK' /\ LoopOK'
  <2>1. frame' \in [Frame -> {"unpaired", "paired", "purged"}]
    BY <1>1 DEF PairFrame
  <2>2. CASE Wp(f) = NoWp
    BY <2>1, <2>2, <1>1 DEF PairFrame
  <2>3. CASE Wp(f) # NoWp
    <3>1. /\ queue' = queue \cup {f}
          /\ enqueuedAt' = [enqueuedAt EXCEPT ![f] = clock]
          /\ clock' = clock + 1
      BY <2>3, <1>1 DEF PairFrame
    <3>2. enqueuedAt' \in [Frame -> Nat]
      BY <3>1
    <3> QED BY <2>1, <3>1, <3>2, <1>1 DEF PairFrame
  <2> QED BY <2>2, <2>3
<1>2. ASSUME NEW f \in Frame, PurgeSource(f) PROVE TypeOK' /\ LoopOK'
  BY <1>2 DEF PurgeSource
<1>3. CASE TimePasses
  BY <1>3 DEF TimePasses
<1>4. CASE FetchCurrent
  BY <1>4 DEF FetchCurrent
<1>5. CASE FetchFails
  BY <1>5 DEF FetchFails
<1>6. ASSUME NEW a \in Amr, SameWaypoint(a) PROVE TypeOK' /\ LoopOK'
  BY <1>6 DEF SameWaypoint
<1>7. ASSUME NEW a \in Amr, ClaimBatch(a) PROVE TypeOK' /\ LoopOK'
  BY <1>7 DEF ClaimBatch, ClaimOK
<1>8. CASE RestSucceeds
  BY <1>8 DEF RestSucceeds
<1>9. CASE RestFails
  <2>1. faults' \in 0..MaxFaults
    BY <1>9 DEF RestFails
  <2>2. sent' \in SUBSET Frame
    BY <1>9 DEF RestFails
  <2> QED BY <2>1, <2>2, <1>9 DEF RestFails
<1>10. ASSUME NEW a \in Amr, IsNextAmr(a), NEW r \in batch, InsertDecision(a, r)
       PROVE  decision' \in SUBSET DecisionRecord
  <2>1. Wp(r) \in Waypoint
    BY <1>10 DEF Wp, ClaimOK
  <2> QED BY <2>1, <1>10, InsertDecisionType
<1>11. ASSUME NEW a \in Amr, InsertSucceeds(a) PROVE TypeOK' /\ LoopOK'
  <2>1. decision' \in SUBSET DecisionRecord
    BY <1>10, <1>11 DEF InsertSucceeds
  <2> QED BY <2>1, <1>11 DEF InsertSucceeds
<1>12. ASSUME NEW a \in Amr, InsertFails(a) PROVE TypeOK' /\ LoopOK'
  <2>1. decision' \in SUBSET DecisionRecord
    BY <1>10, <1>12 DEF InsertFails
  <2>2. faults' \in 0..MaxFaults
    BY <1>12 DEF InsertFails
  <2> QED BY <2>1, <2>2, <1>12 DEF InsertFails
<1>13. CASE HandleFailure
  <2>1. faults' \in 0..MaxFaults
    BY <1>13 DEF HandleFailure
  <2>2. dropped' \in SUBSET batch /\ dlq' \in SUBSET Frame /\ dlqFailed' \in SUBSET Frame
    BY <1>13 DEF HandleFailure
  <2> QED BY <2>1, <2>2, <1>13 DEF HandleFailure
<1>14. ASSUME NEW a \in Amr, ApplyTransaction(a)
       PROVE  queue' \in SUBSET Frame /\ fate' \in [Frame -> Fate]
              /\ attempts' \in [Frame -> Nat]
  BY <1>14 DEF ApplyTransaction, Fate
<1>15. ASSUME NEW a \in Amr, Commit(a) PROVE TypeOK' /\ LoopOK'
  <2>1. last' \in [Amr -> Waypoint \cup {InitWp}]
    BY <1>15 DEF Commit, IsNextAmr
  <2> QED BY <1>14, <2>1, <1>15 DEF Commit, CloseTransaction
<1>16. ASSUME NEW a \in Amr, TransactionFails(a) PROVE TypeOK' /\ LoopOK'
  <2>1. queue' \in SUBSET Frame /\ fate' \in [Frame -> Fate] /\ attempts' \in [Frame -> Nat]
    BY <1>14, <1>16 DEF TransactionFails
  <2>2. faults' \in 0..MaxFaults
    BY <1>16 DEF TransactionFails
  <2> QED BY <2>1, <2>2, <1>16 DEF TransactionFails, CloseTransaction, Nowhere
<1>17. CASE EndOfLoop
  BY <1>17 DEF EndOfLoop, Nowhere
<1>18. CASE SweepStale
  <2>1. faults' \in 0..MaxFaults
    BY <1>18 DEF SweepStale
  <2>2. queue' \in SUBSET Frame /\ fate' \in [Frame -> Fate]
    BY <1>18 DEF SweepStale, Remove, Fate
  <2> QED BY <2>1, <2>2, <1>18 DEF SweepStale
<1>19. CASE Crash
  <2>1. faults' \in 0..MaxFaults
    BY <1>19 DEF Crash
  <2> QED BY <2>1, <1>19 DEF Crash, CloseTransaction, Nowhere
<1>20. CASE Restart
  <2>1. queue' \in SUBSET Frame /\ fate' \in [Frame -> Fate]
    BY <1>20 DEF Restart, Remove, Fate
  <2> QED BY <2>1, <1>20 DEF Restart
<1>21. CASE UNCHANGED vars
  BY <1>21 DEF vars
<1> QED BY <1>1, <1>2, <1>3, <1>4, <1>5, <1>6, <1>7, <1>8, <1>9, <1>11, <1>12, <1>13,
           <1>15, <1>16, <1>17, <1>18, <1>19, <1>20, <1>21
        DEF Next, PollerStep, FaultStep, GatewayStep

\* The rows of a claim, as ClaimOK needs them.
LEMMA ClaimedRows ==
    ASSUME IInv, NEW a \in Amr, NEW w, NEW R, IsBatch(a, w, R)
    PROVE  /\ R \subseteq queue /\ Cardinality(R) <= BatchSize
           /\ \A f \in R : AmrOf[f] = a /\ Wp(f) = w
BY DEF IsBatch, Matching, RowsOf

\* Every step keeps the claim: its rows stay locked in the queue until the
\* transaction ends (_process_waypoint_batch).
LEMMA NextClaimOK == IInv /\ [Next]_vars => ClaimOK'
<1> SUFFICES ASSUME IInv, [Next]_vars PROVE ClaimOK'
    OBVIOUS
<1> USE DEF IInv, ClaimOK, IsNextAmr, source, records
<1>1. ASSUME NEW f \in Frame, PairFrame(f) \/ PurgeSource(f) PROVE ClaimOK'
  BY <1>1 DEF PairFrame, PurgeSource
<1>2. CASE TimePasses \/ FetchCurrent \/ FetchFails \/ EndOfLoop
  BY <1>2 DEF TimePasses, FetchCurrent, FetchFails, EndOfLoop
<1>3. ASSUME NEW a \in Amr, SameWaypoint(a) PROVE ClaimOK'
  BY <1>3 DEF SameWaypoint
<1>4. ASSUME NEW a \in Amr, ClaimBatch(a) PROVE ClaimOK'
  <2>1. PICK R : IsBatch(a, last[a], R) /\ batch' = R /\ pc' \in {"commit", "rest"}
    BY <1>4 DEF ClaimBatch
  <2>2. /\ R \subseteq queue /\ Cardinality(R) <= BatchSize
        /\ \A f \in R : AmrOf[f] = a /\ Wp(f) = last[a]
    BY <2>1, ClaimedRows
  <2>3. \A b \in Amr : IsNextAmr(b) => b = a
    BY <1>4, PoolerAssumption DEF ClaimBatch
  <2>4. dropped = {} /\ ~ failed
    BY <1>4 DEF ClaimBatch, TypeOK
  <2> QED BY <2>1, <2>2, <2>3, <2>4, <1>4 DEF ClaimBatch
<1>5. CASE RestSucceeds \/ RestFails \/ HandleFailure
  BY <1>5 DEF RestSucceeds, RestFails, HandleFailure
<1>6. ASSUME NEW a \in Amr, InsertSucceeds(a) \/ InsertFails(a) PROVE ClaimOK'
  BY <1>6 DEF InsertSucceeds, InsertFails
<1>7. ASSUME NEW a \in Amr, Commit(a) \/ TransactionFails(a) PROVE ClaimOK'
  BY <1>7 DEF Commit, TransactionFails, CloseTransaction
<1>8. CASE SweepStale \/ Restart
  BY <1>8 DEF SweepStale, Restart, Remove
<1>9. CASE Crash
  BY <1>9 DEF Crash, CloseTransaction
<1>10. CASE UNCHANGED vars
  BY <1>10 DEF vars
<1> QED BY <1>1, <1>2, <1>3, <1>4, <1>5, <1>6, <1>7, <1>8, <1>9, <1>10
        DEF Next, PollerStep, FaultStep, GatewayStep

\* A decision record of the AMR and the waypoint of r exists once the INSERT for
\* r has run: a record with its dust_id carries the AMR and waypoint of that dust.
LEMMA DecidedAfterInsert ==
    ASSUME IInv, NEW a \in Amr, IsNextAmr(a), NEW r \in batch, InsertDecision(a, r)
    PROVE  \E d \in decision' : d.amr = a /\ d.wp = last[a]
<1>1. AmrOf[r] = a /\ Wp(r) = last[a] /\ r \in Frame
  BY DEF IInv, TypeOK, ClaimOK
<1>2. CASE \E d \in decision : d.dust = DustOf[r]
  <2>1. PICK d \in decision : d.dust = DustOf[r]
    BY <1>2
  <2>2. PICK f \in d.frames : DustOf[f] = d.dust
    BY DEF IInv, Safety, DecisionsCoherent
  <2>3. AmrOf[f] = d.amr /\ Wp(f) = d.wp /\ f \in Frame
    BY DEF IInv, Safety, DecisionsCoherent, TypeOK, DecisionRecord
  <2>4. AmrOf[f] = AmrOf[r] /\ Wp(f) = Wp(r)
    BY <1>1, <2>1, <2>2, <2>3, OneAmrPerReading DEF Wp
  <2> QED BY <1>1, <1>2, <2>3, <2>4 DEF InsertDecision
<1>3. CASE ~ \E d \in decision : d.dust = DustOf[r]
  <2> DEFINE rec == [dust |-> DustOf[r], amr |-> a, wp |-> Wp(r), frames |-> batch]
  <2>1. rec \in decision'
    BY <1>3 DEF InsertDecision
  <2>2. rec.amr = a /\ rec.wp = last[a]
    BY <1>1
  <2> QED BY <2>1, <2>2
<1> QED BY <1>2, <1>3

\* What other databases have received is never taken back.
LEMMA RecordsGrow ==
    IInv /\ [Next]_vars => /\ sent \subseteq sent' /\ decision \subseteq decision'
                           /\ dlq \subseteq dlq' /\ dlqFailed \subseteq dlqFailed'
BY DEF Next, PollerStep, FaultStep, GatewayStep, PairFrame, PurgeSource, TimePasses,
   FetchCurrent, FetchFails, SameWaypoint, ClaimBatch, RestSucceeds, RestFails,
   InsertSucceeds, InsertFails, InsertDecision, HandleFailure, Commit,
   TransactionFails, EndOfLoop, SweepStale, Crash, Restart, vars, records

\* REST, INSERT and DLQ come before the deletion in every step order, also when a
\* reply is lost (_process_batch_rows, _handle_failure).
LEMMA NextExternalOK == IInv /\ [Next]_vars => ExternalOK'
<1> SUFFICES ASSUME IInv, [Next]_vars PROVE ExternalOK'
    OBVIOUS
<1> USE DEF IInv, ExternalOK, source, records
<1>1. ASSUME NEW f \in Frame, PairFrame(f) \/ PurgeSource(f) PROVE ExternalOK'
  BY <1>1 DEF PairFrame, PurgeSource
<1>2. CASE TimePasses \/ FetchCurrent \/ FetchFails \/ EndOfLoop
  BY <1>2 DEF TimePasses, FetchCurrent, FetchFails, EndOfLoop
<1>3. ASSUME NEW a \in Amr, SameWaypoint(a) PROVE ExternalOK'
  BY <1>3 DEF SameWaypoint
<1>4. ASSUME NEW a \in Amr, ClaimBatch(a) PROVE ExternalOK'
  <2>1. dropped = {} /\ ~ failed
    BY <1>4 DEF ClaimBatch, ClaimOK, TypeOK
  <2> QED BY <2>1, <1>4 DEF ClaimBatch
<1>5. CASE RestSucceeds \/ RestFails
  BY <1>5 DEF RestSucceeds, RestFails
<1>6. ASSUME NEW a \in Amr, InsertSucceeds(a) PROVE ExternalOK'
  <2>1. /\ dropped' = batch /\ ~ failed /\ batch \subseteq sent
        /\ \E d \in decision' : d.amr = a /\ d.wp = last[a]
    BY <1>6, DecidedAfterInsert DEF InsertSucceeds, ClaimOK
  <2>2. \A f \in batch : AmrOf[f] = a /\ Wp(f) = last[a]
    BY <1>6 DEF InsertSucceeds, ClaimOK
  <2> QED BY <2>1, <2>2, <1>6 DEF InsertSucceeds
<1>7. ASSUME NEW a \in Amr, InsertFails(a) PROVE ExternalOK'
  BY <1>7 DEF InsertFails
<1>8. CASE HandleFailure
  <2>1. PICK kept \in SUBSET {f \in batch : Exhausted(f)} :
            /\ dropped' = {f \in batch : Exhausted(f)} \ kept
            /\ dlq' = dlq \cup ({f \in batch : Exhausted(f)} \ kept)
            /\ dlqFailed' = dlqFailed \cup kept
    BY <1>8 DEF HandleFailure
  <2>2. \A f \in batch : attempts[f] \in Nat
    BY DEF TypeOK
  <2>3. \A f \in batch : Exhausted(f) => attempts[f] >= MaxAttempts
    BY <2>2, PoolerAssumption DEF Exhausted
  <2> QED BY <2>1, <2>3, <1>8 DEF HandleFailure, Exhausted
<1>9. ASSUME NEW a \in Amr, Commit(a) \/ TransactionFails(a) PROVE ExternalOK'
  BY <1>9 DEF Commit, TransactionFails
<1>10. CASE SweepStale \/ Restart \/ Crash
  BY <1>10 DEF SweepStale, Restart, Crash
<1>11. CASE UNCHANGED vars
  BY <1>11 DEF vars
<1> QED BY <1>1, <1>2, <1>3, <1>4, <1>5, <1>6, <1>7, <1>8, <1>9, <1>10, <1>11
        DEF Next, PollerStep, FaultStep, GatewayStep

\* Rows leave the queue by the commit of a claim, or removed as a set.
Removes(rows, how) ==
    /\ rows \subseteq queue /\ how \in {"swept", "cleared"}
    /\ Remove(rows, how) /\ UNCHANGED <<frame, attempts>>

Commits(a) ==
    /\ pc = "commit" /\ IsNextAmr(a)
    /\ ApplyTransaction(a) /\ UNCHANGED frame

\* The steps that touch the fate of a row: pairing and cleaning leave it alone, a
\* commit, a sweep or a clearing decides it, nothing else does.
LEMMA FateSteps ==
    ASSUME [Next]_vars
    PROVE  \/ UNCHANGED <<fate, attempts, frame>> /\ queue' = queue
           \/ \E f \in Frame : PairFrame(f) \/ PurgeSource(f)
           \/ \E rows, how : Removes(rows, how)
           \/ \E a \in Amr : Commits(a)
<1> USE DEF source, records
<1>1. CASE SweepStale
  <2>1. Stale \subseteq queue
    BY DEF Stale
  <2> QED BY <2>1, <1>1 DEF SweepStale, Removes
<1>2. CASE Restart
  BY <1>2 DEF Restart, Removes
<1>3. ASSUME NEW a \in Amr, Commit(a) \/ TransactionFails(a)
      PROVE  (UNCHANGED <<fate, attempts, frame>> /\ queue' = queue) \/ Commits(a)
  BY <1>3 DEF Commit, TransactionFails, Commits
<1>4. ASSUME NEW a \in Amr, SameWaypoint(a) \/ ClaimBatch(a) \/ InsertSucceeds(a) \/ InsertFails(a)
      PROVE  UNCHANGED <<fate, attempts, frame>> /\ queue' = queue
  BY <1>4 DEF SameWaypoint, ClaimBatch, InsertSucceeds, InsertFails
<1>5. ASSUME \/ TimePasses \/ FetchCurrent \/ FetchFails \/ EndOfLoop \/ RestSucceeds
             \/ RestFails \/ HandleFailure \/ Crash \/ UNCHANGED vars
      PROVE  UNCHANGED <<fate, attempts, frame>> /\ queue' = queue
  BY <1>5 DEF TimePasses, FetchCurrent, FetchFails, EndOfLoop, RestSucceeds, RestFails,
     HandleFailure, Crash, vars
<1> QED BY <1>1, <1>2, <1>3, <1>4, <1>5 DEF Next, PollerStep, FaultStep, GatewayStep

\* A row in the queue has no fate, whatever step is taken.
LEMMA NextQueueOK == IInv /\ [Next]_vars => QueueOK'
<1> SUFFICES ASSUME IInv, [Next]_vars PROVE QueueOK'
    OBVIOUS
<1> USE DEF IInv, QueueOK
<1>0. queue \subseteq Frame /\ fate \in [Frame -> Fate]
      /\ frame \in [Frame -> {"unpaired", "paired", "purged"}]
  BY DEF TypeOK
<1>1. CASE UNCHANGED <<fate, attempts, frame>> /\ queue' = queue
  BY <1>1
<1>2. ASSUME NEW f \in Frame, PairFrame(f) PROVE QueueOK'
  BY <1>0, <1>2 DEF PairFrame
<1>3. ASSUME NEW f \in Frame, PurgeSource(f) PROVE QueueOK'
  BY <1>0, <1>3 DEF PurgeSource
<1>4. ASSUME NEW rows, NEW how, Removes(rows, how) PROVE QueueOK'
  BY <1>0, <1>4 DEF Removes, Remove
<1>5. ASSUME NEW a \in Amr, Commits(a) PROVE QueueOK'
  <2>1. dropped \cup Remainder(a) \subseteq queue
    BY DEF ClaimOK, TypeOK, Remainder, Matching, RowsOf
  <2>2. queue' = queue \ (dropped \cup Remainder(a)) /\ UNCHANGED frame
    BY <1>5 DEF Commits, ApplyTransaction
  <2>3. \A f \in Frame : f \notin dropped \cup Remainder(a) => fate'[f] = fate[f]
    BY <1>5 DEF Commits, ApplyTransaction
  <2> QED BY <1>0, <2>1, <2>2, <2>3
<1> QED BY <1>1, <1>2, <1>3, <1>4, <1>5, FateSteps

\* The commit decides the fate of the claimed and of the purged rows only.
LEMMA CommitFate ==
    ASSUME IInv, NEW a \in Amr, Commits(a)
    PROVE  /\ \A f \in dropped : fate'[f] = IF failed THEN "dead" ELSE "processed"
           /\ \A f \in Frame \ dropped :
                 \/ fate'[f] = fate[f]
                 \/ fate'[f] = "discarded" /\ f \in Remainder(a)
           /\ \A f \in Frame :
                 attempts'[f] = IF failed /\ f \in batch \ dropped THEN attempts[f] + 1
                                                                   ELSE attempts[f]
           /\ dropped \subseteq batch /\ batch \subseteq Frame
           /\ \A f \in batch : AmrOf[f] = a /\ Wp(f) = last[a]
BY DEF IInv, TypeOK, ClaimOK, Commits, ApplyTransaction

\* The INSERT keeps the records coherent; no other step writes one.
LEMMA NextDecisionsCoherent == IInv /\ [Next]_vars => DecisionsCoherent'
<1> SUFFICES ASSUME IInv, [Next]_vars, decision' # decision PROVE DecisionsCoherent'
    BY DEF IInv, Safety, DecisionsCoherent
<1>1. PICK a \in Amr, r \in batch :
          /\ pc = "insert" /\ IsNextAmr(a)
          /\ IsRepresentative(r, batch) /\ InsertDecision(a, r)
  BY DEF Next, PollerStep, FaultStep, GatewayStep, PairFrame, PurgeSource, TimePasses,
     FetchCurrent, FetchFails, SameWaypoint, ClaimBatch, RestSucceeds, RestFails,
     InsertSucceeds, InsertFails, HandleFailure, Commit,
     TransactionFails, EndOfLoop, SweepStale, Crash, Restart, vars, records
<1> DEFINE rec == [dust |-> DustOf[r], amr |-> a, wp |-> Wp(r), frames |-> batch]
<1>2. /\ decision' = decision \cup {rec}
      /\ ~ \E d \in decision : d.dust = DustOf[r]
  BY <1>1 DEF InsertDecision
<1>3. \A f \in batch : /\ AmrOf[f] = a /\ Wp(f) = Wp(r)
                       /\ ValueOf[DustOf[f]] <= ValueOf[DustOf[r]]
  <2>1. \A f \in batch : ValueOf[DustOf[f]] \in Int
    BY PoolerAssumption DEF IInv, TypeOK
  <2> QED BY <1>1, <2>1 DEF IsRepresentative, IInv, ClaimOK
<1>4. Cardinality(batch) <= BatchSize
  BY DEF IInv, ClaimOK
<1>5. \A d \in decision : d.dust # rec.dust
  BY <1>2
<1>6. ASSUME NEW d \in decision'
      PROVE  /\ \A e \in decision' : d.dust = e.dust => d = e
             /\ \A f \in d.frames : AmrOf[f] = d.amr /\ Wp(f) = d.wp
             /\ Cardinality(d.frames) <= BatchSize
             /\ \E f \in d.frames : DustOf[f] = d.dust
             /\ \A f \in d.frames : ValueOf[DustOf[f]] <= ValueOf[d.dust]
  <2>1. CASE d \in decision
    BY <1>2, <1>5, <2>1 DEF IInv, Safety, DecisionsCoherent
  <2>2. CASE d = rec
    BY <1>2, <1>3, <1>4, <1>5, <2>2
  <2> QED BY <1>2, <2>1, <2>2
<1> QED BY <1>6 DEF DecisionsCoherent

\* Each safety property survives the commit because of ClaimOK and ExternalOK,
\* every other step because fates and attempts stay.
LEMMA NextSafety == IInv /\ [Next]_vars => Safety'
<1> SUFFICES ASSUME IInv, [Next]_vars PROVE Safety'
    OBVIOUS
<1>0. DecisionsCoherent'
  BY NextDecisionsCoherent
<1>1. /\ sent \subseteq sent' /\ decision \subseteq decision'
      /\ dlq \subseteq dlq' /\ dlqFailed \subseteq dlqFailed'
  BY RecordsGrow
<1>2. /\ queue \subseteq Frame /\ fate \in [Frame -> Fate]
      /\ attempts \in [Frame -> Nat] /\ MaxAttempts \in Nat
  BY PoolerAssumption DEF IInv, TypeOK
<1> USE DEF IInv, Safety, ProcessedWasDecided, DeadRowsKept, RetriesBounded,
            DiscardFollowsBatch
<1>3. CASE UNCHANGED <<fate, attempts>>
  BY <1>0, <1>1, <1>2, <1>3
<1>4. ASSUME NEW rows, NEW how, Removes(rows, how) PROVE Safety'
  <2>1. attempts' = attempts
    BY <1>4 DEF Removes
  <2>2. \A f \in Frame : fate'[f] = fate[f] \/ fate'[f] \in {"swept", "cleared"}
    BY <1>4, <1>2 DEF Removes, Remove
  <2>3. \A f \in Frame : fate[f] # "none" => fate'[f] = fate[f]
    BY <1>4, <1>2 DEF Removes, Remove, QueueOK
  <2> QED BY <1>0, <1>1, <2>1, <2>2, <2>3
<1>5. ASSUME NEW a \in Amr, Commits(a) PROVE Safety'
  <2>1. pc = "commit"
    BY <1>5 DEF Commits
  <2>2. \A f \in dropped : /\ fate'[f] = IF failed THEN "dead" ELSE "processed"
                           /\ fate[f] = "none" /\ f \in Frame
    BY <1>5, <1>2, CommitFate DEF QueueOK, ClaimOK
  <2>3. ProcessedWasDecided'
    BY <1>1, <1>5, <2>1, <2>2, CommitFate DEF ExternalOK
  <2>4. DeadRowsKept'
    <3>1. \A f \in Frame : attempts'[f] >= attempts[f]
      BY <1>2, <1>5, CommitFate
    <3>2. \A f \in Frame : attempts[f] \in Nat /\ attempts'[f] \in Nat
      BY <1>2, <1>5, CommitFate
    <3> QED BY <1>1, <1>2, <1>5, <2>1, <2>2, <3>1, <3>2, CommitFate DEF ExternalOK
  <2>5. RetriesBounded'
    BY <1>1, <1>2, <1>5, <2>1, CommitFate DEF ExternalOK
  <2>6. DiscardFollowsBatch'
    <3>1. ASSUME NEW f \in Frame, fate'[f] = "discarded", f \in Remainder(a)
          PROVE  \E g \in Frame : /\ fate'[g] \in {"processed", "dead"}
                                  /\ AmrOf[g] = AmrOf[f] /\ Wp(g) = Wp(f)
      <4>1. PICK g \in dropped : TRUE
        BY <3>1 DEF Remainder
      <4>2. AmrOf[f] = a /\ Wp(f) = last[a]
        BY <3>1 DEF Remainder, Matching, RowsOf
      <4> QED BY <4>1, <4>2, <1>5, <2>2, CommitFate
    <3>2. ASSUME NEW f \in Frame, fate[f] = "discarded"
          PROVE  \E g \in Frame : /\ fate'[g] \in {"processed", "dead"}
                                  /\ AmrOf[g] = AmrOf[f] /\ Wp(g) = Wp(f)
      <4>1. PICK g \in Frame : /\ fate[g] \in {"processed", "dead"}
                               /\ AmrOf[g] = AmrOf[f] /\ Wp(g) = Wp(f)
        BY <3>2
      <4>2. g \notin dropped /\ g \notin Remainder(a)
        BY <4>1, <2>2 DEF QueueOK, Remainder, Matching, RowsOf
      <4> QED BY <4>1, <4>2, <1>5, CommitFate
    <3>3. \A f \in dropped : fate'[f] # "discarded"
      BY <2>2
    <3> QED BY <3>1, <3>2, <3>3, <1>5, CommitFate
  <2> QED BY <1>0, <2>3, <2>4, <2>5, <2>6
<1>6. ASSUME NEW f \in Frame, PairFrame(f) \/ PurgeSource(f)
      PROVE  UNCHANGED <<fate, attempts>>
  BY <1>6 DEF PairFrame, PurgeSource
<1> QED BY <1>3, <1>4, <1>5, <1>6, FateSteps

\* The inductive invariant holds in every reachable state.
THEOREM Inductive == Spec => []IInv
<1>1. IInv /\ [Next]_vars => IInv'
  BY NextTypeOK, NextClaimOK, NextExternalOK, NextQueueOK, NextSafety DEF IInv
<1> QED BY <1>1, InitIInv, PTL DEF Spec

-----------------------------------------------------------------------------
(* The theorems *)

\* Every reachable state is well typed, for any frames, AMRs, waypoints, batch
\* size and retry cap, and any number of faults.
THEOREM TypeCorrect == Spec => []TypeOK
<1>1. IInv => TypeOK
  BY DEF IInv
<1> QED BY <1>1, Inductive, PTL

\* No row is deleted as processed before REST has it and a decision is recorded.
THEOREM NothingProcessedUndecided == Spec => []ProcessedWasDecided
<1>1. IInv => ProcessedWasDecided
  BY DEF IInv, Safety
<1> QED BY <1>1, Inductive, PTL

\* A row given up on is in the DLQ and has used up its attempts.
THEOREM DeadRowsAreInDlq == Spec => []DeadRowsKept
<1>1. IInv => DeadRowsKept
  BY DEF IInv, Safety
<1> QED BY <1>1, Inductive, PTL

\* Beyond the cap only rows whose DLQ write failed are retried.
THEOREM RetryCap == Spec => []RetriesBounded
<1>1. IInv => RetriesBounded
  BY DEF IInv, Safety
<1> QED BY <1>1, Inductive, PTL

\* Decision records are one per reading and mix neither AMRs nor waypoints.
THEOREM RecordsCoherent == Spec => []DecisionsCoherent
<1>1. IInv => DecisionsCoherent
  BY DEF IInv, Safety
<1> QED BY <1>1, Inductive, PTL

\* Overflow is discarded only with a batch of its waypoint that left the queue.
THEOREM DiscardsFollow == Spec => []DiscardFollowsBatch
<1>1. IInv => DiscardFollowsBatch
  BY DEF IInv, Safety
<1> QED BY <1>1, Inductive, PTL

\* A row that left the queue is never enqueued again and keeps its fate.
THEOREM FateIsFinal == Spec => GoneForGood
<1>1. ASSUME IInv, IInv', [Next]_vars, NEW f \in Frame, fate[f] # "none"
      PROVE  fate'[f] = fate[f] /\ f \notin queue'
  <2>1. f \notin queue /\ frame[f] # "unpaired" /\ queue \subseteq Frame
        /\ fate \in [Frame -> Fate]
    BY <1>1 DEF IInv, QueueOK, TypeOK
  <2>2. ASSUME NEW rows, NEW how, Removes(rows, how)
        PROVE  fate'[f] = fate[f] /\ f \notin queue'
    BY <2>1, <2>2 DEF Removes, Remove
  <2>3. ASSUME NEW a \in Amr, Commits(a)
        PROVE  fate'[f] = fate[f] /\ f \notin queue'
    <3>1. f \notin dropped \cup Remainder(a)
      BY <1>1, <2>1 DEF IInv, ClaimOK, TypeOK, Remainder, Matching, RowsOf
    <3> QED BY <2>1, <2>3, <3>1 DEF Commits, ApplyTransaction
  <2>4. ASSUME NEW g \in Frame, PairFrame(g) \/ PurgeSource(g)
        PROVE  fate'[f] = fate[f] /\ f \notin queue'
    BY <2>1, <2>4 DEF PairFrame, PurgeSource
  <2> QED BY <1>1, <2>1, <2>2, <2>3, <2>4, FateSteps
<1>2. IInv /\ IInv' /\ [Next]_vars =>
         [\A f \in Frame : fate[f] # "none" => fate'[f] = fate[f] /\ f \notin queue']_vars
  BY <1>1
<1> QED BY <1>2, Inductive, PTL DEF Spec, GoneForGood
=============================================================================
