------------------------------- MODULE Egress -------------------------------
(***************************************************************************)
(* The Egress Gateway: judged decision_record rows become rows of the      *)
(* LOAS table t_inspection.                                                *)
(*                                                                         *)
(* Three stores take part and share no transaction: decision_db (sent_at), *)
(* the SQLite outbox and the MariaDB sink, which has no unique key.  A     *)
(* decision goes through them in the order outbox, sink, outbox, sent_at,  *)
(* and the process may stop between any two of them.                       *)
(*                                                                         *)
(* Abstractions: the 26 columns of a row are left out (a decision and its  *)
(* reading no longer change once judged, so the outbox payload equals what *)
(* the Poller would build again); outbox.attempts is left out, nothing     *)
(* reads it.                                                               *)
(***************************************************************************)
EXTENDS Integers, FiniteSets

CONSTANTS
    Decision,    \* decision_record.id: naturals, in the order of decided_at
    NoDecision,  \* no decision is being sent
    EventOf,     \* event_id of the decision, from its final_decision
    NoReading,   \* decisions without a dust_inspection row
    Poison,      \* decisions whose INSERT LOAS always refuses
    Filters,     \* values EGW_EVENT_ID_FILTER may have at a start
    BatchSize,   \* EGW_BATCH_SIZE
    MaxFaults    \* bound: failures and crashes in one behaviour

EventId == 0..3

ASSUME EgressAssumption ==
    /\ Decision \subseteq Nat /\ NoDecision \notin Decision
    /\ EventOf \in [Decision -> EventId]
    /\ NoReading \subseteq Decision /\ Poison \subseteq Decision
    /\ Filters # {} /\ Filters \subseteq SUBSET EventId
    /\ BatchSize \in Nat \ {0} /\ MaxFaults \in Nat

VARIABLES
    judged,    \* decisions whose final_decision is no longer 'pending'
    sentAt,    \* decisions with a sent_at
    outbox,    \* outbox_id of the decision's outbox row, 0 without one
    outboxSeq, \* the AUTOINCREMENT sequence of the outbox
    rows,      \* rows of the decision in t_inspection
    allowed,   \* event_ids of the running process' filter
    pc,        \* where the process is
    mode,      \* draining the outbox of an earlier run, or polling
    todo,      \* decisions of the drain or of the tick not looked at yet
    item,      \* the decision being sent
    faults     \* failures and crashes so far

vars == <<judged, sentAt, outbox, outboxSeq, rows, allowed, pc, mode, todo,
          item, faults>>

\* next: between two decisions; write, remove, mark: before that step of _write
Pc == {"down", "idle", "next", "write", "remove", "mark"}

TypeOK ==
    /\ judged \in SUBSET Decision /\ sentAt \in SUBSET Decision
    /\ outbox \in [Decision -> Nat] /\ outboxSeq \in Nat
    /\ rows \in [Decision -> Nat]
    /\ allowed \in SUBSET EventId
    /\ pc \in Pc /\ mode \in {"drain", "poll"}
    /\ todo \in SUBSET Decision
    /\ item \in Decision \cup {NoDecision}
    /\ item = NoDecision <=> pc \in {"down", "idle", "next"}
    /\ faults \in 0..MaxFaults

Init ==
    /\ judged = {} /\ sentAt = {}
    /\ outbox = [d \in Decision |-> 0] /\ outboxSeq = 0
    /\ rows = [d \in Decision |-> 0]
    /\ allowed \in Filters
    /\ pc = "down" /\ mode = "drain"
    /\ todo = {} /\ item = NoDecision
    /\ faults = 0

Fault == faults < MaxFaults /\ faults' = faults + 1

InOutbox == {d \in Decision : outbox[d] > 0}

\* Mutant: newest first.
IsNextNewest(d) ==
    /\ d \in todo
    /\ \A e \in todo : IF mode = "drain" THEN outbox[d] <= outbox[e] ELSE d >= e

\* The decision the loop looks at next: the drain goes by outbox_id, a tick by
\* decided_at.
IsNext(d) ==
    /\ d \in todo
    /\ \A e \in todo : IF mode = "drain" THEN outbox[d] <= outbox[e] ELSE d <= e

\* Mutant: the event_id filter is not looked at.
DeliverableUnfiltered(d) == d \notin NoReading

\* send_record builds a row of this decision for LOAS.
Deliverable(d) == d \notin NoReading /\ EventOf[d] \in allowed

-----------------------------------------------------------------------------
\* The Decision Agent or its administrator judges; commits may come in another
\* order than decided_at.
Judge(d) ==
    /\ d \notin judged
    /\ judged' = judged \cup {d}
    /\ UNCHANGED <<sentAt, outbox, outboxSeq, rows, allowed, pc, mode, todo,
                   item, faults>>

\* main.run up to _drain_outbox, which lists the outbox once.
Start ==
    /\ pc = "down"
    /\ allowed' \in Filters
    /\ pc' = "next" /\ mode' = "drain"
    /\ todo' = InOutbox
    /\ UNCHANGED <<judged, sentAt, outbox, outboxSeq, rows, item, faults>>

\* The drain or the tick is over: its list is exhausted.
LoopDone ==
    /\ pc = "next" /\ todo = {}
    /\ pc' = "idle" /\ mode' = "poll"
    /\ UNCHANGED <<judged, sentAt, outbox, outboxSeq, rows, allowed, todo, item,
                   faults>>

\* Mutant: the WHERE clause lacks sent_at IS NULL.
PendingAnySent == judged

Pending == judged \ sentAt

\* _tick: the BatchSize oldest judged decisions without sent_at.
FetchPending ==
    /\ pc = "idle"
    /\ \E R \in SUBSET Pending :
          /\ R # {}
          /\ \A d \in R, e \in Pending \ R : d < e
          /\ Cardinality(R) <= BatchSize
          /\ R # Pending => Cardinality(R) = BatchSize
          /\ todo' = R
    /\ pc' = "next"
    /\ UNCHANGED <<judged, sentAt, outbox, outboxSeq, rows, allowed, mode, item,
                   faults>>

\* send_record marks a decision it does not deliver as sent.
Skip(d) ==
    /\ pc = "next" /\ mode = "poll" /\ IsNext(d)
    /\ ~ Deliverable(d)
    /\ sentAt' = sentAt \cup {d}
    /\ todo' = todo \ {d}
    /\ UNCHANGED <<judged, outbox, outboxSeq, rows, allowed, pc, mode, item,
                   faults>>

\* send_record: INSERT OR IGNORE into the outbox before the sink is touched.
AddToOutbox(d) ==
    /\ pc = "next" /\ mode = "poll" /\ IsNext(d)
    /\ Deliverable(d)
    /\ IF outbox[d] > 0
       THEN UNCHANGED <<outbox, outboxSeq>>
       ELSE /\ outbox' = [outbox EXCEPT ![d] = outboxSeq + 1]
            /\ outboxSeq' = outboxSeq + 1
    /\ item' = d
    /\ pc' = "write"
    /\ UNCHANGED <<judged, sentAt, rows, allowed, mode, todo, faults>>

\* The drain takes the row as it stands in the outbox.
Replay(d) ==
    /\ pc = "next" /\ mode = "drain" /\ IsNext(d)
    /\ item' = d
    /\ pc' = "write"
    /\ UNCHANGED <<judged, sentAt, outbox, outboxSeq, rows, allowed, mode, todo,
                   faults>>

InsertRow(d) == rows' = [rows EXCEPT ![d] = @ + 1]

WriteSucceeds(d) ==
    /\ pc = "write" /\ item = d /\ d \notin Poison
    /\ InsertRow(d)
    /\ pc' = "remove"
    /\ UNCHANGED <<judged, sentAt, outbox, outboxSeq, allowed, mode, todo, item,
                   faults>>

\* The drain and the tick stop at the first decision that is not written.
Break == todo' = {} /\ item' = NoDecision /\ pc' = "idle" /\ mode' = "poll"

\* Mutant: the error of the INSERT is logged and the decision goes on.
WriteFailureIgnored(d) ==
    /\ pc = "write" /\ item = d
    /\ IF d \in Poison THEN UNCHANGED faults ELSE Fault
    /\ pc' = "remove"
    /\ UNCHANGED <<judged, sentAt, outbox, outboxSeq, rows, allowed, mode, todo,
                   item>>

\* LOAS refuses the row, or the connection fails; in the second case the
\* INSERT may have committed.
WriteFails(d) ==
    /\ pc = "write" /\ item = d
    /\ \/ d \in Poison /\ UNCHANGED <<rows, faults>>
       \/ /\ Fault
          /\ UNCHANGED rows \/ (d \notin Poison /\ InsertRow(d))
    /\ Break
    /\ UNCHANGED <<judged, sentAt, outbox, outboxSeq, allowed>>

\* Mutant: the row stays in the outbox.
RemoveForgotten(d) ==
    /\ pc = "remove" /\ item = d
    /\ pc' = "mark"
    /\ UNCHANGED <<judged, sentAt, outbox, outboxSeq, rows, allowed, mode, todo,
                   item, faults>>

RemoveFromOutbox(d) ==
    /\ pc = "remove" /\ item = d
    /\ outbox' = [outbox EXCEPT ![d] = 0]
    /\ pc' = "mark"
    /\ UNCHANGED <<judged, sentAt, outboxSeq, rows, allowed, mode, todo, item,
                   faults>>

MarkSent(d) ==
    /\ pc = "mark" /\ item = d
    /\ sentAt' = sentAt \cup {d}
    /\ todo' = todo \ {d}
    /\ item' = NoDecision
    /\ pc' = "next"
    /\ UNCHANGED <<judged, outbox, outboxSeq, rows, allowed, mode, faults>>

\* A statement on decision_db, gateway_db or the outbox raises.  Poller.run logs
\* it and waits for the next tick; nothing catches it in the drain, and the
\* process ends.  The UPDATE of sent_at may have committed.
StatementFails ==
    /\ pc \in {"next", "remove", "mark"} /\ Fault
    /\ IF pc = "mark" THEN \E S \in {{}, {item}} : sentAt' = sentAt \cup S
                      ELSE UNCHANGED sentAt
    /\ todo' = {} /\ item' = NoDecision
    /\ pc' = IF mode = "drain" THEN "down" ELSE "idle"
    /\ UNCHANGED <<judged, outbox, outboxSeq, rows, allowed, mode>>

\* The process ends at any point, between any two commits.
Crash ==
    /\ pc # "down" /\ Fault
    /\ todo' = {} /\ item' = NoDecision /\ pc' = "down"
    /\ UNCHANGED <<judged, sentAt, outbox, outboxSeq, rows, allowed, mode>>

-----------------------------------------------------------------------------
GatewayStep ==
    \/ Start \/ LoopDone \/ FetchPending
    \/ \E d \in Decision :
          \/ Skip(d) \/ AddToOutbox(d) \/ Replay(d)
          \/ WriteSucceeds(d) \/ (d \in Poison /\ WriteFails(d))
          \/ RemoveFromOutbox(d) \/ MarkSent(d)

Next ==
    \/ GatewayStep
    \/ \E d \in Decision : Judge(d) \/ WriteFails(d)
    \/ StatementFails \/ Crash

Spec == Init /\ [][Next]_vars

\* The polling loop runs for ever and the container is restarted; judging,
\* failures and crashes are up to the environment.
FairSpec == Spec /\ WF_vars(GatewayStep)

-----------------------------------------------------------------------------
(* Properties *)

\* A decision that some filter of the deployment, or the lack of a reading,
\* keeps from LOAS (send_record).
Excludable == {d \in Decision : d \in NoReading \/ \E F \in Filters : EventOf[d] \notin F}

\* sent_at is set only after the row reached LOAS or because the decision is not
\* to be delivered (_write, send_record): no crash or lost reply loses one.
SentWasDelivered == \A d \in sentAt : rows[d] > 0 \/ d \in Excludable

\* Duplicates have a cause: a decision has at most one row more in t_inspection
\* than there were failures and crashes (_write removes and marks at once).
DuplicatesNeedFaults == \A d \in Decision : rows[d] <= 1 + faults

\* No row is inserted again once sent_at is set, so a decision with sent_at has no
\* outbox row that a later drain could replay (_write removes before it marks).
NothingLeftToReplay == \A d \in sentAt : outbox[d] = 0

\* With one filter for the whole deployment the gateway is an at-least-once
\* delivery: the stores and steps in between are not visible to LOAS.
Promise == INSTANCE Delivery WITH settled <- sentAt, Excluded <- Excludable
AtLeastOnce == Promise!Spec

\* Every judged decision is eventually settled, unless a decision LOAS refuses
\* stands before it (_tick breaks at the first failure, fetch_pending limits).
EventuallySettled ==
    \A d \in Decision :
        (d \in judged) ~> (\/ d \in sentAt
                           \/ \E p \in Poison : p \in judged /\ p <= d)
=============================================================================
