----------------------------- MODULE FrameStore -----------------------------
(***************************************************************************)
(* Camera images: a JPEG file and a row of cctv_frame each.                *)
(*                                                                         *)
(* The LOAS CCTV handler of the Ingestion Gateway writes the file and then *)
(* the row, one coroutine per connection and one connection per frame.     *)
(* The Cleaner, another process, unlinks files and then deletes their      *)
(* rows: oldest first under disk pressure, all of them when an operator    *)
(* presses the button of the Admin UI (NOTIFY cleanup_trigger).            *)
(*                                                                         *)
(* Abstractions: every image takes one unit of disk; frames the gate       *)
(* rejects never start; the retention of video, sensor_sample and          *)
(* ingestion_log touches neither these files nor these rows; the caps on   *)
(* the number of batches of a pass (1000, 100000) are never reached.       *)
(***************************************************************************)
EXTENDS Integers, FiniteSets

CONSTANTS
    Frame,          \* frames: naturals, by received_at
    Path,           \* file paths
    PathOf,         \* the path of a frame: target_id and millisecond
    Stuck,          \* paths whose file the Cleaner may not unlink
    BatchSize,      \* batch_size of the Cleaner
    Threshold,      \* emergency_purge_at_percent, in images
    Target,         \* emergency_target_percent, in images
    MaxConnections, \* bound: frames in flight together
    MaxPresses,     \* bound: presses of the button in one behaviour
    MaxFaults       \* bound: failures and crashes in one behaviour

ASSUME StoreAssumption ==
    /\ Frame \subseteq Nat /\ IsFiniteSet(Frame) /\ IsFiniteSet(Path)
    /\ PathOf \in [Frame -> Path] /\ Stuck \subseteq Path
    /\ BatchSize \in Nat \ {0} /\ MaxConnections \in Nat \ {0}
    /\ Threshold \in Nat /\ Target \in Nat /\ Target < Threshold
    /\ MaxPresses \in Nat /\ MaxFaults \in Nat

VARIABLES
    files,     \* paths with a file on disk
    row,       \* frames with a row in cctv_frame
    hstep,     \* where on_frame is with a frame
    cpc,       \* where the Cleaner is
    mode,      \* which pass it runs
    batch,     \* selected rows whose file it has not looked at yet
    gone,      \* successful_ids of the batch
    trigger,   \* the asyncio.Event of the Cleaner
    listener,  \* the LISTEN connection; "deaf": dropped and not noticed
    presses,   \* presses of the button so far
    asked,     \* history: rows a press that was heard found in the table
    faults     \* failures and crashes so far

handler == <<files, row, hstep>>
pass    == <<cpc, mode, batch, gone>>
button  == <<trigger, listener, presses, asked>>
vars    == <<files, row, hstep, cpc, mode, batch, gone, trigger, listener,
             presses, asked, faults>>

\* write, insert, unlink: before that step of on_frame
HandlerStep == {"new", "write", "insert", "unlink", "done"}
Pc == {"sleep", "check", "measure", "select", "unlink", "delete", "down"}

TypeOK ==
    /\ files \in SUBSET Path /\ row \in SUBSET Frame
    /\ hstep \in [Frame -> HandlerStep]
    /\ cpc \in Pc /\ mode \in {"none", "emergency", "manual"}
    /\ batch \in SUBSET Frame /\ gone \in SUBSET Frame
    /\ batch \cap gone = {}
    /\ mode = "none" <=> cpc \in {"sleep", "down"}
    /\ cpc \notin {"unlink", "delete"} => batch = {} /\ gone = {}
    /\ trigger \in BOOLEAN /\ listener \in {"off", "on", "deaf"}
    /\ presses \in 0..MaxPresses /\ asked \in SUBSET Frame
    /\ faults \in 0..MaxFaults

Init ==
    /\ files = {} /\ row = {}
    /\ hstep = [f \in Frame |-> "new"]
    /\ cpc = "sleep" /\ mode = "none"
    /\ batch = {} /\ gone = {}
    /\ trigger = FALSE /\ listener = "off" /\ presses = 0 /\ asked = {}
    /\ faults = 0

Fault == faults < MaxFaults /\ faults' = faults + 1

-----------------------------------------------------------------------------
(* LoasCctvHandler.on_frame *)

InFlight == {f \in Frame : hstep[f] \notin {"new", "done"}}

GoTo(f, s) == hstep' = [hstep EXCEPT ![f] = s]

\* The gate is open; `now' and the path are fixed.
Receive(f) ==
    /\ hstep[f] = "new" /\ \A g \in Frame : g < f => hstep[g] # "new"
    /\ Cardinality(InFlight) < MaxConnections
    /\ GoTo(f, "write")
    /\ UNCHANGED <<files, row, pass, button, faults>>

\* A file of the same path is overwritten.
WriteFile(f) ==
    /\ hstep[f] = "write"
    /\ files' = files \cup {PathOf[f]}
    /\ GoTo(f, "insert")
    /\ UNCHANGED <<row, pass, button, faults>>

\* OSError: the frame is dropped; open(path, "wb") may have left a file.
WriteFails(f) ==
    /\ hstep[f] = "write" /\ Fault
    /\ \E P \in {{}, {PathOf[f]}} : files' = files \cup P
    /\ GoTo(f, "done")
    /\ UNCHANGED <<row, pass, button>>

InsertRow(f) ==
    /\ hstep[f] = "insert"
    /\ row' = row \cup {f}
    /\ GoTo(f, "done")
    /\ UNCHANGED <<files, pass, button, faults>>

\* The INSERT raises; when its reply was lost, the row is there.
InsertFails(f) ==
    /\ hstep[f] = "insert" /\ Fault
    /\ \E R \in {{}, {f}} : row' = row \cup R
    /\ GoTo(f, "unlink")
    /\ UNCHANGED <<files, pass, button>>

UnlinkOwn(f) ==
    /\ hstep[f] = "unlink"
    /\ \/ files' = files \ {PathOf[f]} /\ UNCHANGED faults
       \/ Fault /\ UNCHANGED files
    /\ GoTo(f, "done")
    /\ UNCHANGED <<row, pass, button>>

\* The process ends and the open connections with it.  A file being written
\* and a row being inserted may or may not make it.
IngestCrash ==
    /\ InFlight # {} /\ Fault
    /\ \E W \in SUBSET {f \in InFlight : hstep[f] = "write"},
          R \in SUBSET {f \in InFlight : hstep[f] = "insert"} :
          /\ files' = files \cup {PathOf[f] : f \in W}
          /\ row' = row \cup R
    /\ hstep' = [f \in Frame |-> IF f \in InFlight THEN "done" ELSE hstep[f]]
    /\ UNCHANGED <<pass, button>>

-----------------------------------------------------------------------------
(* The Cleaner: one pass *)

Used == Cardinality(files)

\* _OLDEST_CCTV_FRAME_SELECT_SQL: the BatchSize oldest rows.
IsOldest(R) ==
    /\ R \subseteq row
    /\ \A f \in R, g \in row \ R : f < g
    /\ Cardinality(R) <= BatchSize
    /\ R # row => Cardinality(R) = BatchSize

\* Mutant: the event is cleared after the pass.
EndPassClears ==
    cpc' = "sleep" /\ mode' = "none" /\ batch' = {} /\ gone' = {} /\ trigger' = FALSE

EndPass ==
    cpc' = "sleep" /\ mode' = "none" /\ batch' = {} /\ gone' = {} /\ UNCHANGED trigger

\* The main loop wakes up: the timeout, or the trigger, which it clears.
Wake ==
    /\ cpc = "sleep"
    /\ mode' = IF trigger THEN "manual" ELSE "emergency"
    /\ cpc' = IF trigger THEN "select" ELSE "check"
    /\ trigger' = FALSE
    /\ UNCHANGED <<handler, batch, gone, listener, presses, asked, faults>>

\* Disk usage below the threshold: no emergency.
NoPressure ==
    /\ cpc = "check" /\ Used < Threshold
    /\ EndPass
    /\ UNCHANGED <<handler, listener, presses, asked, faults>>

Pressure ==
    /\ cpc = "check" /\ Used >= Threshold
    /\ cpc' = "measure"
    /\ UNCHANGED <<handler, mode, batch, gone, button, faults>>

TargetReached ==
    /\ cpc = "measure" /\ Used <= Target
    /\ EndPass
    /\ UNCHANGED <<handler, listener, presses, asked, faults>>

AboveTarget ==
    /\ cpc = "measure" /\ Used > Target
    /\ cpc' = "select"
    /\ UNCHANGED <<handler, mode, batch, gone, button, faults>>

NoRows ==
    /\ cpc = "select" /\ row = {}
    /\ EndPass
    /\ UNCHANGED <<handler, listener, presses, asked, faults>>

SelectOldest ==
    /\ cpc = "select" /\ row # {}
    /\ \E R \in SUBSET row : IsOldest(R) /\ batch' = R
    /\ cpc' = "unlink"
    /\ UNCHANGED <<handler, mode, gone, button, faults>>

\* Mutant: the first failure ends the batch.
UnlinkImageOrStop(f) ==
    /\ cpc = "unlink" /\ f \in batch /\ \A g \in batch : f <= g
    /\ IF PathOf[f] \in files \cap Stuck
       THEN batch' = {} /\ UNCHANGED <<files, gone>>
       ELSE /\ batch' = batch \ {f}
            /\ files' = files \ {PathOf[f]} /\ gone' = gone \cup {f}
    /\ cpc' = IF batch' = {} THEN "delete" ELSE "unlink"
    /\ UNCHANGED <<row, hstep, mode, button, faults>>

\* os.unlink(file_path): a missing file counts as a success, any other
\* OSError leaves the row for a retry.
UnlinkImage(f) ==
    /\ cpc = "unlink" /\ f \in batch /\ \A g \in batch : f <= g
    /\ batch' = batch \ {f}
    /\ IF PathOf[f] \in files \cap Stuck
       THEN UNCHANGED <<files, gone>>
       ELSE files' = files \ {PathOf[f]} /\ gone' = gone \cup {f}
    /\ cpc' = IF batch' = {} THEN "delete" ELSE "unlink"
    /\ UNCHANGED <<row, hstep, mode, button, faults>>

\* Mutant: the emergency pass measures once.
NextBatchUnmeasured == cpc' = "select" /\ gone' = {}

\* Mutant: the list of deleted rows is not started anew.
NextBatchKeepsGone ==
    /\ cpc' = IF mode = "emergency" THEN "measure" ELSE "select"
    /\ UNCHANGED gone

\* After a batch the emergency pass measures again, the manual one goes on.
NextBatch ==
    /\ cpc' = IF mode = "emergency" THEN "measure" ELSE "select"
    /\ gone' = {}

\* Mutant: rows are deleted whether or not their file could be unlinked.
DeleteRowsAnyway ==
    /\ cpc = "delete"
    /\ \E R \in SUBSET row : IsOldest(R) /\ row' = row \ R
    /\ NextBatch
    /\ UNCHANGED <<files, hstep, mode, batch, button, faults>>

\* Mutant: one file that cannot be unlinked keeps all rows of the batch.
DeleteRowsAllOrNone ==
    /\ cpc = "delete" /\ gone # {}
    /\ row' = IF Cardinality(gone) = BatchSize THEN row \ gone ELSE row
    /\ NextBatch
    /\ UNCHANGED <<files, hstep, mode, batch, button, faults>>

DeleteRows ==
    /\ cpc = "delete" /\ gone # {}
    /\ row' = row \ gone
    /\ NextBatch
    /\ UNCHANGED <<files, hstep, mode, batch, button, faults>>

\* The whole batch failed to unlink: the pass gives up.
NoProgress ==
    /\ cpc = "delete" /\ gone = {}
    /\ EndPass
    /\ UNCHANGED <<handler, listener, presses, asked, faults>>

\* A manual pass that ends early has not done what was asked.
Forget == asked' = IF mode = "manual" THEN {} ELSE asked

\* A statement raises, or the disk cannot be measured: the main loop logs it
\* and sleeps.  The DELETE may have committed.
PassFails ==
    /\ cpc \in {"check", "measure", "select", "delete"} /\ Fault
    /\ \E R \in {{}, gone} : row' = row \ R
    /\ EndPass /\ Forget
    /\ UNCHANGED <<files, hstep, listener, presses>>

CleanerCrash ==
    /\ cpc # "down" /\ Fault
    /\ cpc' = "down" /\ mode' = "none" /\ batch' = {} /\ gone' = {}
    /\ trigger' = FALSE /\ listener' = "off" /\ asked' = {}
    /\ UNCHANGED <<handler, presses>>

CleanerRestart ==
    /\ cpc = "down"
    /\ cpc' = "sleep"
    /\ UNCHANGED <<handler, mode, batch, gone, button, faults>>

-----------------------------------------------------------------------------
(* The button *)

\* _listen_for_triggers: connect and LISTEN.
Listen ==
    /\ cpc # "down" /\ listener = "off"
    /\ listener' = "on"
    /\ UNCHANGED <<handler, pass, trigger, presses, asked, faults>>

\* The connection drops while the listener awaits the stop event.
ListenerDrops ==
    /\ listener = "on" /\ Fault
    /\ listener' = "deaf"
    /\ UNCHANGED <<handler, pass, trigger, presses, asked>>

\* NOTIFY cleanup_trigger reaches the sessions that listen.
Press ==
    /\ presses < MaxPresses
    /\ presses' = presses + 1
    /\ IF listener = "on"
       THEN trigger' = TRUE /\ asked' = asked \cup row
       ELSE UNCHANGED <<trigger, asked>>
    /\ UNCHANGED <<handler, pass, listener, faults>>

-----------------------------------------------------------------------------
HandlerNext(f) == WriteFile(f) \/ InsertRow(f) \/ UnlinkOwn(f)

CleanerNext ==
    \/ Wake \/ NoPressure \/ Pressure \/ TargetReached \/ AboveTarget
    \/ NoRows \/ SelectOldest \/ DeleteRows \/ NoProgress
    \/ \E f \in Frame : UnlinkImage(f)

Next ==
    \/ \E f \in Frame :
          Receive(f) \/ HandlerNext(f) \/ WriteFails(f) \/ InsertFails(f)
    \/ CleanerNext \/ Listen \/ Press
    \/ IngestCrash \/ PassFails \/ ListenerDrops \/ CleanerCrash \/ CleanerRestart

Spec == Init /\ [][Next]_vars

\* Coroutines that were started finish, the Cleaner's loop runs and its
\* container is restarted; no frame has to come and no button to be pressed.
Fairness ==
    /\ \A f \in Frame : WF_vars(HandlerNext(f))
    /\ WF_vars(CleanerNext) /\ WF_vars(CleanerRestart)

FairSpec == Spec /\ Fairness

-----------------------------------------------------------------------------
(* Properties *)

\* Files without a row, which no pass of the Cleaner will ever find.
Orphans ==
    {p \in files : \A f \in Frame : PathOf[f] = p =>
                      f \notin row /\ hstep[f] \notin {"insert", "unlink"}}

\* An image on disk belongs to a row, or to a frame whose INSERT is still to
\* come; what a failure leaves behind is bounded by the frames that were in
\* flight (on_frame writes before it inserts, the Cleaner unlinks before it
\* deletes).
OrphansNeedFaults == Cardinality(Orphans) <= faults * MaxConnections

Shared(f) == \E g \in Frame \ {f} : PathOf[g] = PathOf[f]

\* Rows whose image is gone although no other frame used its path.
Imageless ==
    {f \in row \ gone : PathOf[f] \notin files /\ ~ Shared(f)}

\* A row has its image unless the Cleaner is about to delete it; one failure
\* breaks at most one batch of rows (successful_ids, the undo of on_frame).
ImagelessNeedFaults == Cardinality(Imageless) <= faults * BatchSize

\* The emergency pass stops at its target: it never frees more than the batch
\* that crosses it, whatever the handler adds or undoes meanwhile
\* (emergency_purge measures before every batch).
TargetRespected ==
    mode = "emergency" /\ cpc \in {"unlink", "delete"}
        => Used + Cardinality(gone) + faults > Target

Unpurgeable(f) ==
    \/ PathOf[f] \in Stuck
    \/ Cardinality({g \in row : g < f /\ PathOf[g] \in Stuck}) >= BatchSize

\* A press that was heard is never lost, even when it comes during a pass: every
\* row it found is deleted, or a failure ended the pass, or files that cannot
\* be unlinked fill the batch (trigger.clear before the pass, no_progress).
PressServed ==
    \A f \in Frame :
        (f \in asked) ~> (f \notin row \/ f \notin asked \/ Unpurgeable(f))

\* Disk pressure is relieved, unless the oldest rows cannot be unlinked or no
\* row is left (emergency_purge goes on while some unlink of a batch succeeds).
PressureRelieved ==
    (Used >= Threshold) ~>
        (Used < Threshold \/ \A R \in SUBSET row :
                                IsOldest(R) => \A f \in R : PathOf[f] \in Stuck)
=============================================================================
