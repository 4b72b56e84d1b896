----------------------------- MODULE PoolerTran -----------------------------
(***************************************************************************)
(* PoolerTran: the consumer of gateway_db.cctv_transfer_queue.             *)
(*                                                                         *)
(* The Correlator pairs a CCTV frame with a dust reading; a trigger of the *)
(* same transaction enqueues the frame.  The Poller watches, per AMR, the  *)
(* waypoint of the newest queue row; when it differs from the waypoint it  *)
(* remembers, the rows of the remembered waypoint are claimed in one       *)
(* gateway transaction, sent in one REST call, turned into one             *)
(* decision_record of another database and deleted.                        *)
(*                                                                         *)
(* Abstractions: image files, JSON bodies and scores are left out (a       *)
(* decision record keeps which rows it was computed from); enqueued_at is  *)
(* a logical clock; the age threshold of the sweep is `horizon', the       *)
(* newest enqueued_at that is already too old.                             *)
(***************************************************************************)
EXTENDS Integers, FiniteSets

CONSTANTS
    Frame,        \* cctv_frame.id: naturals, the tie-break of the row order
    Dust,         \* dust_inspection.id
    Amr,          \* amr_id: naturals standing for the order of the strings
    Waypoint,     \* waypoint_id
    NoWp,         \* SQL NULL where a waypoint_id is expected
    InitWp,       \* PT_INIT_WAYPOINT_ID, a waypoint no AMR visits
    AmrOf,        \* cctv_frame.amr_id of a frame
    DustOf,       \* the reading the Correlator pairs a frame with
    WpOf,         \* dust_inspection.waypoint_id of a reading
    ValueOf,      \* dust_inspection.dust_value of a reading
    BatchSize,    \* PT_BATCH_SIZE
    MaxAttempts,  \* PT_MAX_ATTEMPTS
    ClearOnStart, \* PT_CLEAR_QUEUE_ON_START
    SweepEnabled, \* PT_QUEUE_MAX_AGE_SEC > 0
    MaxFaults,    \* bound: failures and crashes in one behaviour
    Cleanable     \* bound: frames the cleaner may reach

ASSUME PoolerAssumption ==
    /\ Frame \subseteq Nat /\ IsFiniteSet(Frame) /\ Amr \subseteq Nat
    /\ NoWp \notin Waypoint /\ InitWp \notin Waypoint /\ InitWp # NoWp
    /\ AmrOf \in [Frame -> Amr]
    /\ DustOf \in [Frame -> Dust]
    /\ WpOf \in [Dust -> Waypoint \cup {NoWp}]
    /\ ValueOf \in [Dust -> Int]
    /\ BatchSize \in Nat \ {0} /\ MaxAttempts \in Nat /\ MaxFaults \in Nat
    /\ Cleanable \subseteq Frame
    /\ ClearOnStart \in BOOLEAN /\ SweepEnabled \in BOOLEAN

\* A reading belongs to the one AMR that carries the sensor.
ASSUME OneAmrPerReading ==
    \A f, g \in Frame : DustOf[f] = DustOf[g] => AmrOf[f] = AmrOf[g]

VARIABLES
    frame,       \* cctv_frame: unpaired, paired or deleted by the cleaner
    queue,       \* frame_ids with a row in cctv_transfer_queue
    enqueuedAt,  \* cctv_transfer_queue.enqueued_at
    attempts,    \* cctv_transfer_queue.attempts
    clock,       \* clock_timestamp() of the next enqueue
    horizon,     \* rows enqueued at or before it are older than the threshold
    pc,          \* where the Poller's loop is
    last,        \* _last_waypoint_by_amr
    current,     \* the map fetch_current_waypoints returned
    todo,        \* AMRs of `current' the loop has still to look at
    batch,       \* rows claimed by the open gateway transaction
    dropped,     \* claimed rows the open transaction has deleted
    failed,      \* the open transaction went through _handle_failure
    sent,        \* frames the REST service has received
    decision,    \* decision_record rows written by DecisionProducer
    dlq,         \* frame_ids in decision_db.transfer_dlq
    dlqFailed,   \* history: rows for which a DLQ write raised
    fate,        \* history: how a row left the queue
    faults       \* failures and crashes so far

source  == <<frame, enqueuedAt, clock>>
records == <<sent, decision, dlq, dlqFailed>>
vars == <<frame, queue, enqueuedAt, attempts, clock, horizon, pc, last, current,
          todo, batch, dropped, failed, sent, decision, dlq, dlqFailed, fate,
          faults>>

Fate == {"none", "processed", "dead", "discarded", "swept", "cleared"}
Pc   == {"wait", "loop", "rest", "insert", "fail", "commit", "sweep", "down"}
DecisionRecord == [dust : Dust, amr : Amr, wp : Waypoint, frames : SUBSET Frame]

TypeOK ==
    /\ frame \in [Frame -> {"unpaired", "paired", "purged"}]
    /\ queue \in SUBSET Frame
    /\ enqueuedAt \in [Frame -> Nat]
    /\ attempts \in [Frame -> Nat]
    /\ clock \in Nat /\ horizon \in Nat
    /\ pc \in Pc
    /\ last \in [Amr -> Waypoint \cup {InitWp}]
    /\ current \in [Amr -> Waypoint \cup {NoWp}]
    /\ todo \in SUBSET Amr
    /\ batch \in SUBSET Frame /\ dropped \in SUBSET batch /\ failed \in BOOLEAN
    /\ sent \in SUBSET Frame
    /\ decision \in SUBSET DecisionRecord
    /\ dlq \in SUBSET Frame /\ dlqFailed \in SUBSET Frame
    /\ fate \in [Frame -> Fate]
    /\ faults \in 0..MaxFaults

-----------------------------------------------------------------------------
(* Reading the queue *)

Wp(f) == WpOf[DustOf[f]]

\* ORDER BY q.enqueued_at, q.frame_id
Before(f, g) ==
    \/ enqueuedAt[f] < enqueuedAt[g]
    \/ enqueuedAt[f] = enqueuedAt[g] /\ f < g

\* Rows of an AMR that the joins with cctv_frame and dust_inspection return.
RowsOf(a) == {f \in queue : frame[f] = "paired" /\ AmrOf[f] = a}

\* _CURRENT_WAYPOINTS: the waypoint of the newest row of the AMR, if any.
IsCurrent(a, w) ==
    IF RowsOf(a) = {}
    THEN w = NoWp
    ELSE \E f \in RowsOf(a) :
            /\ \A g \in RowsOf(a) \ {f} : Before(g, f)
            /\ w = Wp(f)

\* The filter shared by _SELECT_BATCH_FOR_WAYPOINT and
\* _PURGE_WAYPOINT_REMAINDER.
Matching(a, w) == {f \in RowsOf(a) : Wp(f) = w}

\* The oldest BatchSize rows of the AMR at the waypoint.
IsBatch(a, w, R) ==
    /\ R \subseteq Matching(a, w)
    /\ \A f \in R, g \in Matching(a, w) \ R : Before(f, g)
    /\ Cardinality(R) <= BatchSize
    /\ R # Matching(a, w) => Cardinality(R) = BatchSize

\* _representative_row: the first row with the greatest dust_value.
IsRepresentative(r, R) ==
    /\ r \in R
    /\ \A g \in R \ {r} :
          \/ ValueOf[DustOf[g]] < ValueOf[DustOf[r]]
          \/ ValueOf[DustOf[g]] = ValueOf[DustOf[r]] /\ Before(r, g)

-----------------------------------------------------------------------------
\* `current' is local to _check_waypoint_transition.
Nowhere == [a \in Amr |-> NoWp]

Init ==
    /\ frame = [f \in Frame |-> "unpaired"]
    /\ queue = {}
    /\ enqueuedAt = [f \in Frame |-> 0]
    /\ attempts = [f \in Frame |-> 0]
    /\ clock = 1 /\ horizon = 0
    /\ pc = "wait"
    /\ last = [a \in Amr |-> InitWp]
    /\ current = Nowhere
    /\ todo = {}
    /\ batch = {} /\ dropped = {} /\ failed = FALSE
    /\ sent = {} /\ decision = {} /\ dlq = {} /\ dlqFailed = {}
    /\ fate = [f \in Frame |-> "none"]
    /\ faults = 0

Fault == faults < MaxFaults /\ faults' = faults + 1

(* The gateway side: pairing with its trigger, the cleaner, time *)

\* Mutant: the trigger fires on every UPDATE of the frame.
PairFrameAgain(f) ==
    /\ frame[f] # "purged"
    /\ frame' = [frame EXCEPT ![f] = "paired"]
    /\ queue' = queue \cup {f}
    /\ enqueuedAt' = [enqueuedAt EXCEPT ![f] = clock]
    /\ clock' = clock + 1 /\ clock < 9
    /\ UNCHANGED <<attempts, horizon, pc, last, current, todo, batch, dropped,
                   failed, records, fate, faults>>

\* The Correlator's UPDATE fires enqueue_cctv_transfer: the row is inserted in
\* the same transaction, unless the reading names no waypoint.
PairFrame(f) ==
    /\ frame[f] = "unpaired"
    /\ frame' = [frame EXCEPT ![f] = "paired"]
    /\ IF Wp(f) = NoWp
       THEN UNCHANGED <<queue, enqueuedAt, clock>>
       ELSE /\ queue' = queue \cup {f}
            /\ enqueuedAt' = [enqueuedAt EXCEPT ![f] = clock]
            /\ clock' = clock + 1
    /\ UNCHANGED <<attempts, horizon, pc, last, current, todo, batch, dropped,
                   failed, records, fate, faults>>

\* The cleaner deletes a cctv_frame row; the queue has no foreign key.
PurgeSource(f) ==
    /\ f \in Cleanable /\ frame[f] # "purged"
    /\ frame' = [frame EXCEPT ![f] = "purged"]
    /\ UNCHANGED <<queue, enqueuedAt, attempts, clock, horizon, pc, last,
                   current, todo, batch, dropped, failed, records, fate, faults>>

\* Rows cross the age threshold as time passes, oldest first.
TimePasses ==
    /\ SweepEnabled
    /\ horizon + 1 < clock
    /\ horizon' = horizon + 1
    /\ UNCHANGED <<source, queue, attempts, pc, last, current, todo, batch,
                   dropped, failed, records, fate, faults>>

-----------------------------------------------------------------------------
(* The Poller *)

\* _wait returns (timeout or NOTIFY) and _check_waypoint_transition reads the
\* current waypoint of every AMR.
FetchCurrent ==
    /\ pc = "wait"
    /\ \E cur \in [Amr -> Waypoint \cup {NoWp}] :
          /\ \A a \in Amr : IsCurrent(a, cur[a])
          /\ current' = cur
          /\ todo' = {a \in Amr : cur[a] # NoWp}
    /\ pc' = "loop"
    /\ UNCHANGED <<source, queue, attempts, horizon, last, batch, dropped,
                   failed, records, fate, faults>>

FetchFails ==
    /\ pc = "wait" /\ Fault
    /\ pc' = "sweep"
    /\ UNCHANGED <<source, queue, attempts, horizon, last, current, todo, batch,
                   dropped, failed, records, fate>>

\* The AMR the loop is looking at: current.items() is ordered by amr_id.
IsNextAmr(a) == a \in todo /\ \A b \in todo : a <= b

\* Mutant: an unchanged waypoint ends the loop instead of going to the next AMR.
SameWaypointReturns(a) ==
    /\ pc = "loop" /\ IsNextAmr(a)
    /\ current[a] = last[a]
    /\ todo' = {}
    /\ UNCHANGED <<source, queue, attempts, horizon, pc, last, current, batch,
                   dropped, failed, records, fate, faults>>

SameWaypoint(a) ==
    /\ pc = "loop" /\ IsNextAmr(a)
    /\ current[a] = last[a]
    /\ todo' = todo \ {a}
    /\ UNCHANGED <<source, queue, attempts, horizon, pc, last, current, batch,
                   dropped, failed, records, fate, faults>>

\* The waypoint changed: open the transaction and claim the rows of the
\* remembered one.  With no rows there is nothing to send.
ClaimBatch(a) ==
    /\ pc = "loop" /\ IsNextAmr(a)
    /\ current[a] # last[a]
    /\ \E R \in SUBSET queue :
          /\ IsBatch(a, last[a], R)
          /\ batch' = R
          /\ pc' = IF R = {} THEN "commit" ELSE "rest"
    /\ UNCHANGED <<source, queue, attempts, horizon, last, current, todo,
                   dropped, failed, records, fate, faults>>

RestSucceeds ==
    /\ pc = "rest"
    /\ sent' = sent \cup batch
    /\ pc' = "insert"
    /\ UNCHANGED <<source, queue, attempts, horizon, last, current, todo, batch,
                   dropped, failed, decision, dlq, dlqFailed, fate, faults>>

\* Mutant: the status of the REST reply is not looked at.
RestFailureIgnored ==
    /\ pc = "rest" /\ Fault
    /\ pc' = "insert"
    /\ UNCHANGED <<source, queue, attempts, horizon, last, current, todo, batch,
                   dropped, failed, records, fate>>

\* An error status or a timeout; after a timeout the service may have the batch.
RestFails ==
    /\ pc = "rest" /\ Fault
    /\ \E got \in {{}, batch} : sent' = sent \cup got
    /\ pc' = "fail"
    /\ UNCHANGED <<source, queue, attempts, horizon, last, current, todo, batch,
                   dropped, failed, decision, dlq, dlqFailed, fate>>

\* Mutant: the INSERT has no ON CONFLICT and dust_id is not UNIQUE.
InsertTwice(a, r) ==
    decision' = decision \cup {[dust |-> DustOf[r], amr |-> a, wp |-> Wp(r),
                                frames |-> batch]}

\* INSERT ... ON CONFLICT (dust_id) DO NOTHING of the batch's record, for the
\* representative row r, committed on its own in decision_db.
InsertDecision(a, r) ==
    decision' =
        IF \E d \in decision : d.dust = DustOf[r]
        THEN decision
        ELSE decision \cup {[dust |-> DustOf[r], amr |-> a, wp |-> Wp(r),
                             frames |-> batch]}

InsertSucceeds(a) ==
    /\ pc = "insert" /\ IsNextAmr(a)
    /\ \E r \in batch : IsRepresentative(r, batch) /\ InsertDecision(a, r)
    /\ dropped' = batch
    /\ pc' = "commit"
    /\ UNCHANGED <<source, queue, attempts, horizon, last, current, todo, batch,
                   failed, sent, dlq, dlqFailed, fate, faults>>

\* The thresholds or the INSERT raise; a lost reply hides an INSERT that
\* committed.
InsertFails(a) ==
    /\ pc = "insert" /\ IsNextAmr(a) /\ Fault
    /\ \/ UNCHANGED decision
       \/ \E r \in batch : IsRepresentative(r, batch) /\ InsertDecision(a, r)
    /\ pc' = "fail"
    /\ UNCHANGED <<source, queue, attempts, horizon, last, current, todo, batch,
                   dropped, failed, sent, dlq, dlqFailed, fate>>

\* Mutant: the cap is compared one attempt early.
ExhaustedEarly(f) == attempts[f] + 1 >= MaxAttempts

\* attempts = row.attempts + 1; attempts > self._max_attempts
Exhausted(f) == attempts[f] + 1 > MaxAttempts

\* _handle_failure for every claimed row: an exhausted row goes to the DLQ and
\* is deleted, unless the DLQ write raises; every other row is bumped, which
\* the transaction applies at its commit.
HandleFailure ==
    /\ pc = "fail"
    /\ LET exhausted == {f \in batch : Exhausted(f)}
       IN \E kept \in SUBSET exhausted :
            /\ dropped' = exhausted \ kept
            /\ dlq' = dlq \cup (exhausted \ kept)
            /\ dlqFailed' = dlqFailed \cup kept
            /\ IF kept = {} THEN UNCHANGED faults ELSE Fault
    /\ failed' = TRUE
    /\ pc' = "commit"
    /\ UNCHANGED <<source, queue, attempts, horizon, last, current, todo, batch,
                   sent, decision, fate>>

\* Mutant: the overflow is purged whether or not the batch made progress.
RemainderAlways(a) ==
    IF Cardinality(batch) = BatchSize THEN Matching(a, last[a]) \ dropped ELSE {}

\* purge_waypoint_remainder runs when the claim was full and something left.
Remainder(a) ==
    IF Cardinality(batch) = BatchSize /\ dropped # {}
    THEN Matching(a, last[a]) \ dropped
    ELSE {}

\* What the COMMIT makes visible: the deletes, the bumps and the purge.
ApplyTransaction(a) ==
    /\ queue' = queue \ (dropped \cup Remainder(a))
    /\ fate' = [f \in Frame |->
                  CASE f \in dropped -> IF failed THEN "dead" ELSE "processed"
                    [] f \in Remainder(a) \ dropped -> "discarded"
                    [] OTHER -> fate[f]]
    /\ attempts' = [f \in Frame |->
                      IF failed /\ f \in batch \ dropped THEN attempts[f] + 1
                                                         ELSE attempts[f]]

CloseTransaction == batch' = {} /\ dropped' = {} /\ failed' = FALSE

\* COMMIT succeeds; _last_waypoint_by_amr advances, whatever became of the rows.
Commit(a) ==
    /\ pc = "commit" /\ IsNextAmr(a)
    /\ ApplyTransaction(a)
    /\ CloseTransaction
    /\ last' = [last EXCEPT ![a] = current[a]]
    /\ todo' = todo \ {a}
    /\ pc' = "loop"
    /\ UNCHANGED <<source, horizon, current, records, faults>>

\* The gateway connection fails at the claim, a statement or the COMMIT: the
\* exception leaves the loop before the assignment to _last_waypoint_by_amr.
\* When only the reply to the COMMIT is lost, the transaction has happened.
TransactionFails(a) ==
    /\ IsNextAmr(a) /\ Fault
    /\ \/ /\ pc = "loop" /\ current[a] # last[a]
          /\ UNCHANGED <<queue, fate, attempts>>
       \/ /\ pc = "commit"
          /\ \/ UNCHANGED <<queue, fate, attempts>>
             \/ ApplyTransaction(a)
    /\ CloseTransaction
    /\ todo' = {} /\ current' = Nowhere
    /\ pc' = "sweep"
    /\ UNCHANGED <<source, horizon, last, records>>

EndOfLoop ==
    /\ pc = "loop" /\ todo = {}
    /\ pc' = "sweep"
    /\ current' = Nowhere
    /\ UNCHANGED <<source, queue, attempts, horizon, last, todo, batch,
                   dropped, failed, records, fate, faults>>

\* A set of rows is deleted from the queue outside a batch.
Remove(rows, how) ==
    /\ queue' = queue \ rows
    /\ fate' = [f \in Frame |-> IF f \in rows THEN how ELSE fate[f]]

Stale == {f \in queue : SweepEnabled /\ enqueuedAt[f] <= horizon}

\* _sweep_stale, then _wait.  An error of the DELETE is only logged.
SweepStale ==
    /\ pc = "sweep"
    /\ \/ Remove(Stale, "swept") /\ UNCHANGED faults
       \/ Stale # {} /\ Fault /\ UNCHANGED <<queue, fate>>
    /\ pc' = "wait"
    /\ UNCHANGED <<source, attempts, horizon, last, current, todo, batch,
                   dropped, failed, records>>

\* The process ends at any point: an open transaction rolls back.
Crash ==
    /\ pc # "down" /\ Fault
    /\ CloseTransaction
    /\ todo' = {} /\ current' = Nowhere
    /\ pc' = "down"
    /\ UNCHANGED <<source, queue, attempts, horizon, last, records, fate>>

\* main.run: the queue is cleared if so configured, the waypoint map is empty.
Restart ==
    /\ pc = "down"
    /\ IF ClearOnStart THEN Remove(queue, "cleared") ELSE UNCHANGED <<queue, fate>>
    /\ last' = [a \in Amr |-> InitWp]
    /\ pc' = "wait"
    /\ UNCHANGED <<source, attempts, horizon, current, todo, batch, dropped,
                   failed, records, faults>>

-----------------------------------------------------------------------------
PollerStep ==
    \/ FetchCurrent \/ EndOfLoop \/ RestSucceeds \/ HandleFailure \/ SweepStale
    \/ \E a \in Amr : \/ SameWaypoint(a) \/ ClaimBatch(a)
                      \/ InsertSucceeds(a) \/ Commit(a)

FaultStep ==
    \/ FetchFails \/ RestFails \/ Crash
    \/ \E a \in Amr : InsertFails(a) \/ TransactionFails(a)

GatewayStep ==
    \/ \E f \in Frame : PairFrame(f) \/ PurgeSource(f)
    \/ TimePasses

Next == PollerStep \/ FaultStep \/ GatewayStep \/ Restart

Spec == Init /\ [][Next]_vars

\* The event loop keeps running the coroutine and the container is restarted;
\* nothing obliges the robot to move, frames to arrive or faults to happen.
Fairness == WF_vars(PollerStep) /\ WF_vars(Restart)

FairSpec == Spec /\ Fairness

-----------------------------------------------------------------------------
(* Properties *)

\* REST, then INSERT, then DELETE (_process_batch_rows): a row deleted as
\* processed was received by the REST service and a decision_record exists for
\* its AMR and waypoint, across lost replies, rollbacks, crashes and retries.
ProcessedWasDecided ==
    \A f \in Frame : fate[f] = "processed" =>
        /\ f \in sent
        /\ \E d \in decision : d.amr = AmrOf[f] /\ d.wp = Wp(f)

\* _handle_failure: a row leaves as dead only when the DLQ has it and it failed
\* MaxAttempts times before.
DeadRowsKept ==
    \A f \in Frame : fate[f] = "dead" => f \in dlq /\ attempts[f] >= MaxAttempts

\* _handle_failure: a row is retried past the cap only because a DLQ write for
\* it failed.
RetriesBounded ==
    \A f \in Frame : attempts[f] > MaxAttempts => f \in dlqFailed

\* decision_record.dust_id is UNIQUE, and a record mixes neither AMRs nor
\* waypoints, holds at most one batch, and carries the reading with the
\* greatest dust_value of its rows (fetch_batch_for_waypoint,
\* _representative_row, insert_decision).
DecisionsCoherent ==
    \A d \in decision :
        /\ \A e \in decision : d.dust = e.dust => d = e
        /\ \A f \in d.frames : AmrOf[f] = d.amr /\ Wp(f) = d.wp
        /\ Cardinality(d.frames) <= BatchSize
        /\ \E f \in d.frames : DustOf[f] = d.dust
        /\ \A f \in d.frames : ValueOf[DustOf[f]] <= ValueOf[d.dust]

\* The overflow of a waypoint is discarded only together with a full batch of
\* the same AMR and waypoint that left the queue (purge_waypoint_remainder).
DiscardFollowsBatch ==
    \A f \in Frame : fate[f] = "discarded" =>
        \E g \in Frame : /\ fate[g] \in {"processed", "dead"}
                         /\ AmrOf[g] = AmrOf[f] /\ Wp(g) = Wp(f)

\* A row that left the queue never comes back, and its fate is final: the
\* trigger fires once per frame (enqueue_cctv_transfer).
GoneForGood ==
    [][\A f \in Frame : fate[f] # "none" => fate'[f] = fate[f] /\ f \notin queue']_vars

\* The Poller never sits forever on the rows of the waypoint it remembers while
\* it sees the AMR somewhere else (_check_waypoint_transition).
LeftWaypointHandled ==
    \A f \in Frame :
        ~ <>[](/\ f \in queue /\ frame[f] = "paired"
               /\ last[AmrOf[f]] = Wp(f)
               /\ ~ IsCurrent(AmrOf[f], Wp(f)))
=============================================================================
