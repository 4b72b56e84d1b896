---------------------------- MODULE StationSync ----------------------------
(***************************************************************************)
(* The Dumopro poller as the keeper of one StationTask per station, and    *)
(* the part of the API that resolves re-registrations.                     *)
(*                                                                         *)
(* Candles in Redis are keyed by the NAME of a station; samples in the     *)
(* database by its ID.  When a name comes back with another id, a task     *)
(* must not go on with the old candles unless a user says so: the poller   *)
(* records a conflict, the user answers carry_over or start_fresh.         *)
(*                                                                         *)
(* A reconciliation is a coroutine: `doing' is the call it awaits, and a   *)
(* task, a request, or run() on its way out may act in between.  When a    *)
(* loop raises, asyncio.gather ends run() and leaves the other loop alone: *)
(* it goes on to reconcile beside the exit, which takes no lock.           *)
(*                                                                         *)
(* Abstractions: data[n] is the set of ids whose samples are in the keys   *)
(* of n, or may be written back by a task that read them.  Of these keys   *)
(* the poller's probe sees the cursor and the frozen index only, visible:  *)
(* live samples come first, so a task cut short leaves what it misses.  A  *)
(* task is its id; one that died stays in the map and writes no more.  The *)
(* timer and the sync channel start the same reconciliation, at any time   *)
(* when none runs (reconcile_lock); names are visited in any order.  The   *)
(* old id of a conflict is only shown, so a conflict is its new id.  The   *)
(* process is killed by SIGTERM too; the ways out of a Ctrl-C are left out.*)
(***************************************************************************)
EXTENDS Integers, FiniteSets

CONSTANTS
    Name,       \* station_name
    Id,         \* station_id
    Nobody,     \* no station, no task, no marker
    Admin,      \* requests that resolve conflicts together
    MaxEdits,   \* bound: changes of the station view in one behaviour
    MaxFailures   \* bound: failures and crashes in one behaviour

ASSUME SyncAssumption ==
    Nobody \notin Id /\ Nobody \notin Name /\ MaxEdits \in Nat /\ MaxFailures \in Nat

VARIABLES
    db,        \* the station view: name -> id
    edits,     \* changes of it so far
    doing,     \* what the boot or the reconciliation awaits
    at,        \* the name it is at
    curr,      \* curr of _reconcile_once: the view as it was fetched
    gone,      \* names in prev and not in curr
    todo,      \* names it still has to visit
    loops,     \* sync loop and trigger listener that have not raised
    exiting,   \* run() is in its finally block
    leaving,   \* names of list(running) the exit has still to stop
    listed,    \* Redis: names in stations:list
    removed,   \* Redis: stations:removed
    conflict,  \* Redis: new_id of pending_conflict:*
    data,      \* Redis: whose samples the keys of a name hold
    visible,   \* Redis: there is a cursor or a frozen index
    running,   \* the StationTaskMap
    ending,    \* the task each caller of _stop_task has popped and waits for
    adm,       \* requests of resolve_conflict in progress
    allowed,   \* history: ids that may go on with the data of a name: a user
               \* said so (CarryOver) or nobody was asked (StartTask, Leftover)
    failures     \* failures and crashes so far

edit   == <<db, edits>>
sweep  == <<doing, at, curr, gone, todo>>
out    == <<loops, exiting, leaving>>
keys   == <<data, visible>>
stored == <<listed, removed, conflict, keys>>
tasks  == <<running, ending>>
syncVars == <<edit, sweep, out, stored, tasks, adm, allowed, failures>>

MaybeId == Id \cup {Nobody}
Stopper == {"loop", "exit"}
NoStop  == [name |-> Nobody, id |-> Nobody, step |-> "none"]
Stop    == [name : Name, id : Id, step : {"remember", "wait"}]
NoCall  == [step |-> "none", name |-> Nobody, new |-> Nobody]
\* carry_over: read, carry; start_fresh: cursor, keys, marker; both: clear
Call    == [step : {"read", "carry", "cursor", "keys", "marker", "clear"}, name : Name,
            new : MaybeId]

SyncTypeOK ==
    /\ db \in [Name -> MaybeId] /\ edits \in 0..MaxEdits
    /\ doing \in {"down", "boot", "bootclear", "idle", "sync", "marker", "remnant",
                  "flag", "clear", "stop", "drift"}
    /\ at \in Name \cup {Nobody} /\ curr \in [Name -> MaybeId]
    /\ gone \in SUBSET Name /\ todo \in SUBSET Name
    /\ loops \in 0..2 /\ exiting \in BOOLEAN /\ leaving \in SUBSET Name
    /\ listed \in SUBSET Name
    /\ removed \in [Name -> MaybeId] /\ conflict \in [Name -> MaybeId]
    /\ data \in [Name -> SUBSET Id] /\ visible \in [Name -> BOOLEAN]
    /\ running \in [Name -> MaybeId]
    /\ ending \in [Stopper -> Stop \cup {NoStop}]
    /\ adm \in [Admin -> Call \cup {NoCall}]
    /\ allowed \in [Name -> SUBSET Id]
    /\ failures \in 0..MaxFailures

Nowhere == [n \in Name |-> Nobody]

SyncInit ==
    /\ db \in [Name -> MaybeId] /\ edits = 0
    /\ doing = "down" /\ at = Nobody /\ curr = Nowhere /\ gone = {} /\ todo = {}
    /\ loops = 0 /\ exiting = FALSE /\ leaving = {}
    /\ listed = {} /\ removed = Nowhere /\ conflict = Nowhere
    /\ data = [n \in Name |-> {}] /\ visible = [n \in Name |-> FALSE]
    /\ running = Nowhere /\ ending = [s \in Stopper |-> NoStop]
    /\ adm = [a \in Admin |-> NoCall]
    /\ allowed = [n \in Name |-> {}]
    /\ failures = 0

Failure == failures < MaxFailures /\ failures' = failures + 1

Running(n) == running[n] # Nobody
Ending(n)  == {ending[s].id : s \in {r \in Stopper : ending[r].name = n}}
\* Whose tasks of the name may still write.
Tasks(n)   == Ending(n) \cup ({running[n]} \ {Nobody})
Present(view) == {n \in Name : view[n] # Nobody}
Set(f, n, v) == [f EXCEPT ![n] = v]
Add(f, n, S) == [f EXCEPT ![n] = @ \cup S]

\* Somebody registers, removes or re-registers a station.
EditStations ==
    /\ edits < MaxEdits /\ edits' = edits + 1
    /\ \E n \in Name, i \in MaybeId : db[n] # i /\ db' = Set(db, n, i)
    /\ UNCHANGED <<sweep, out, stored, tasks, adm, allowed, failures>>

-----------------------------------------------------------------------------
(* Starting and stopping a task *)

\* The reconciliation is over.
Forget ==
    doing' = "idle" /\ at' = Nobody /\ curr' = Nowhere /\ gone' = {} /\ todo' = {}

\* It goes on with the names that are left, if any.
Return(rest) ==
    IF rest = {} THEN Forget
    ELSE doing' = "sync" /\ at' = Nobody /\ todo' = rest /\ UNCHANGED <<curr, gone>>

\* What is awaited while the poller is at n.
Await(n, call) == doing' = call /\ at' = n /\ todo' = todo \ {n} /\ UNCHANGED <<curr, gone>>

\* _start_task up to its await: the task is in the map.  Nobody is asked when
\* it finds samples of others that its starter does not look at (blind), or a
\* task of another id that has not ended yet.
StartTask(n, blind) ==
    /\ running' = Set(running, n, curr[n])
    /\ allowed' = Add(allowed, n,
          (IF blind /\ ~(data[n] \subseteq {curr[n]}) THEN {curr[n]} ELSE {})
          \cup (IF Ending(n) \subseteq {curr[n]} THEN {} ELSE Ending(n) \cup {curr[n]}))

\* A marker of another id that _start_task should have deleted stays.
Leftover == Add(allowed, at, {removed[at]} \ {Nobody, curr[at]})

\* The rest of _start_task: a failure to delete the marker is only logged.
ClearMarker ==
    /\ doing \in {"clear", "bootclear"}
    /\ \/ removed' = Set(removed, at, Nobody) /\ UNCHANGED <<allowed, failures>>
       \/ Failure /\ allowed' = Leftover /\ UNCHANGED removed
    /\ IF doing = "clear" THEN Return(todo)
       ELSE doing' = "boot" /\ at' = Nobody /\ UNCHANGED <<curr, gone, todo>>
    /\ UNCHANGED <<edit, out, listed, conflict, keys, tasks, adm>>

\* _stop_task: the name leaves the map at once, its task goes on.
Pop(s, n) ==
    /\ running' = Set(running, n, Nobody)
    /\ ending' = Set(ending, s, [name |-> n, id |-> running[n], step |-> "remember"])

\* The id is remembered, unless Redis fails, and the task is told to stop.
Remember(s) ==
    /\ ending[s].step = "remember" /\ ending' = [ending EXCEPT ![s].step = "wait"]
    /\ \/ removed' = Set(removed, ending[s].name, ending[s].id) /\ UNCHANGED failures
       \/ Failure /\ UNCHANGED removed
    /\ UNCHANGED <<edit, sweep, out, listed, conflict, keys, running, adm, allowed>>

\* It ended by itself or was cancelled after five seconds.
EndStop(s) ==
    /\ ending[s].step = "wait" /\ ending' = Set(ending, s, NoStop)
    /\ IF s = "exit" THEN UNCHANGED sweep
       ELSE IF doing = "drift" THEN doing' = "flag" /\ UNCHANGED <<at, curr, gone, todo>>
       ELSE Return(todo)
    /\ UNCHANGED <<edit, out, stored, running, adm, allowed, failures>>

-----------------------------------------------------------------------------
(* run(): the boot *)

Boot ==
    /\ doing = "down"
    /\ doing' = "boot" /\ curr' = db /\ listed' = Present(db) /\ todo' = Present(db)
    /\ UNCHANGED <<edit, at, gone, out, removed, conflict, keys, tasks, adm, allowed, failures>>

BootSkip(n) ==
    /\ doing = "boot" /\ n \in todo /\ conflict[n] # Nobody
    /\ todo' = todo \ {n}
    /\ UNCHANGED <<edit, doing, at, curr, gone, out, stored, tasks, adm, allowed, failures>>

\* Neither the marker nor the data of the name is looked at.
BootStart(n) ==
    /\ doing = "boot" /\ n \in todo /\ conflict[n] = Nobody
    /\ StartTask(n, TRUE)
    /\ Await(n, "bootclear")
    /\ UNCHANGED <<edit, out, stored, ending, adm, failures>>

\* The background tasks start: sync loop and trigger listener.
BootDone ==
    /\ doing = "boot" /\ todo = {}
    /\ doing' = "idle" /\ curr' = Nowhere /\ loops' = 2
    /\ UNCHANGED <<edit, at, gone, todo, exiting, leaving, stored, tasks, adm, allowed, failures>>

-----------------------------------------------------------------------------
(* _reconcile_once *)

\* The view is fetched, compared with stations:list, and written there.
Reconcile ==
    /\ doing = "idle" /\ loops > 0
    /\ doing' = "sync" /\ curr' = db
    /\ gone' = listed \ Present(db)
    /\ listed' = Present(db)
    /\ todo' = listed \cup Present(db) \cup {n \in Name : Running(n)}
    /\ UNCHANGED <<edit, at, out, removed, conflict, keys, tasks, adm, allowed, failures>>

Visiting(n) == doing = "sync" /\ n \in todo

\* 1) Not in the view any more, and 2) under a conflict: no task may run.
VisitStop(n) ==
    /\ Visiting(n) /\ Running(n)
    /\ \/ curr[n] = Nobody /\ n \in gone
       \/ curr[n] # Nobody /\ conflict[n] # Nobody
    /\ Pop("loop", n)
    /\ Await(n, "stop")
    /\ UNCHANGED <<edit, out, stored, adm, allowed, failures>>

\* Nothing to do for the name.
VisitNothing(n) ==
    /\ Visiting(n)
    /\ \/ curr[n] = Nobody /\ ~(n \in gone /\ Running(n))
       \/ curr[n] # Nobody /\ conflict[n] # Nobody /\ ~Running(n)
       \/ curr[n] # Nobody /\ conflict[n] = Nobody /\ running[n] = curr[n]
    /\ Return(todo \ {n})
    /\ UNCHANGED <<edit, out, stored, tasks, adm, allowed, failures>>

\* 3) In the view and no task.
VisitLook(n) ==
    /\ Visiting(n) /\ curr[n] # Nobody /\ conflict[n] = Nobody /\ ~Running(n)
    /\ Await(n, "marker")
    /\ UNCHANGED <<edit, out, stored, tasks, adm, allowed, failures>>

\* Mutant: the conflict is recorded before the task has ended.
VisitDriftFlags(n) ==
    /\ Visiting(n) /\ curr[n] # Nobody /\ conflict[n] = Nobody
    /\ Running(n) /\ running[n] # curr[n]
    /\ Pop("loop", n)
    /\ Await(n, "stop") /\ conflict' = Set(conflict, n, curr[n])
    /\ UNCHANGED <<edit, out, listed, removed, keys, adm, allowed, failures>>

\* 4) A task of another id runs: it is stopped, then the conflict is recorded.
VisitDrift(n) ==
    /\ Visiting(n) /\ curr[n] # Nobody /\ conflict[n] = Nobody
    /\ Running(n) /\ running[n] # curr[n]
    /\ Pop("loop", n)
    /\ Await(n, "drift")
    /\ UNCHANGED <<edit, out, stored, adm, allowed, failures>>

\* get_removed_station_id: a marker of another id (3a), of this one, or none.
ReadMarker ==
    /\ doing = "marker"
    /\ IF removed[at] = curr[at]
       THEN StartTask(at, FALSE) /\ doing' = "clear"
       ELSE /\ doing' = (IF removed[at] = Nobody THEN "remnant" ELSE "flag")
            /\ UNCHANGED <<running, allowed>>
    /\ UNCHANGED <<edit, at, curr, gone, todo, out, stored, ending, adm, failures>>

\* Mutant: data without a marker goes unnoticed.
HasMarkedRemnant(n) == visible[n] /\ removed[n] # Nobody

\* has_station_remnant_data: cursor and frozen index, not the live keys.
HasRemnant(n) == visible[n]

\* 3b) Data without a marker, 3c) a new station.
ReadRemnant ==
    /\ doing = "remnant"
    /\ IF HasRemnant(at)
       THEN doing' = "flag" /\ UNCHANGED <<running, allowed>>
       ELSE StartTask(at, ~visible[at]) /\ doing' = "clear"
    /\ UNCHANGED <<edit, at, curr, gone, todo, out, stored, ending, adm, failures>>

Flag ==
    /\ doing = "flag"
    /\ conflict' = Set(conflict, at, curr[at])
    /\ Return(todo)
    /\ UNCHANGED <<edit, out, listed, removed, keys, tasks, adm, allowed, failures>>

\* There was no name at all.
SyncDone ==
    /\ doing = "sync" /\ todo = {} /\ Forget
    /\ UNCHANGED <<edit, out, stored, tasks, adm, allowed, failures>>

-----------------------------------------------------------------------------
(* Failures of the poller and its way out *)

\* fetch_stations failed: nothing happens until the next reconciliation.
FetchFails ==
    /\ doing = "idle" /\ loops > 0 /\ Failure
    /\ UNCHANGED <<edit, sweep, out, stored, tasks, adm, allowed>>

\* A loop raises: gather does, and the exit begins with list(running).
Raise ==
    /\ loops' = loops - 1 /\ exiting' = TRUE
    /\ leaving' = IF exiting THEN leaving ELSE {n \in Name : Running(n)}

\* Redis fails in a reconciliation, or between two: the lock is free again.
\* The conflict it was to record may be there all the same.
LoopFails ==
    /\ doing \in {"idle", "sync", "marker", "remnant", "flag"} /\ loops > 0
    /\ Failure /\ Raise /\ Forget
    /\ \/ UNCHANGED conflict
       \/ doing = "flag" /\ conflict' = Set(conflict, at, curr[at])
    /\ UNCHANGED <<edit, listed, removed, keys, tasks, adm, allowed>>

\* The loop that does not reconcile raises; the other goes on.
OtherLoopFails ==
    /\ loops = 2 /\ doing # "idle" /\ Failure /\ Raise
    /\ UNCHANGED <<edit, sweep, stored, tasks, adm, allowed>>

ExitStop(n) ==
    /\ exiting /\ ending["exit"] = NoStop /\ n \in leaving
    /\ leaving' = leaving \ {n}
    /\ IF Running(n) THEN Pop("exit", n) ELSE UNCHANGED tasks
    /\ UNCHANGED <<edit, sweep, loops, exiting, stored, adm, allowed, failures>>

\* Whatever the process does ends with it.
Reset ==
    /\ doing' = "down" /\ at' = Nobody /\ curr' = Nowhere /\ gone' = {} /\ todo' = {}
    /\ loops' = 0 /\ exiting' = FALSE /\ leaving' = {}
    /\ running' = Nowhere /\ ending' = [s \in Stopper |-> NoStop]
    /\ allowed' = IF doing \in {"clear", "bootclear"} THEN Leftover ELSE allowed

\* asyncio.run cancels what is left.
ExitDone ==
    /\ exiting /\ leaving = {} /\ ending["exit"] = NoStop /\ Reset
    /\ UNCHANGED <<edit, stored, adm, failures>>

\* The process is killed.
Crash ==
    /\ doing # "down" /\ Failure /\ Reset
    /\ UNCHANGED <<edit, stored, adm>>

-----------------------------------------------------------------------------
(* The tasks: what StationTask does to the state above *)

\* Any write of a cold start or a tick: live keys come before the cursor, and
\* frozen ones at any time, so what was written need not be visible.
TaskWrites(n, i) ==
    /\ i \in Tasks(n)
    /\ data' = Add(data, n, {i})
    /\ \E v \in {visible[n], TRUE} : visible' = Set(visible, n, v)
    /\ UNCHANGED <<edit, sweep, out, listed, removed, conflict, tasks, adm, allowed, failures>>

-----------------------------------------------------------------------------
(* resolve_conflict of the API *)

ResolveBegin(a) ==
    /\ adm[a] = NoCall
    /\ \E n \in Name, x \in {"read", "cursor"} :
          /\ conflict[n] # Nobody
          /\ adm' = [adm EXCEPT ![a] = [step |-> x, name |-> n, new |-> Nobody]]
    /\ UNCHANGED <<edit, sweep, out, stored, tasks, allowed, failures>>

\* carry_over looks the new id up.  Another request may have cleared the
\* conflict in between, which is bounded as a failure is.
ResolveRead(a) ==
    /\ adm[a].step = "read"
    /\ adm' = [adm EXCEPT ![a].step = "carry", ![a].new = conflict[adm[a].name]]
    /\ IF conflict[adm[a].name] = Nobody THEN Failure ELSE UNCHANGED failures
    /\ UNCHANGED <<edit, sweep, out, stored, tasks, allowed>>

Go(a, step) == adm' = [adm EXCEPT ![a].step = step, ![a].new = Nobody]

\* Mutant: carry_over forgets to acknowledge the new id.
CarryOverUnmarked(a) ==
    /\ adm[a].step = "carry" /\ Go(a, "clear")
    /\ allowed' = Add(allowed, adm[a].name, {adm[a].new} \ {Nobody})
    /\ UNCHANGED <<edit, sweep, out, stored, tasks, failures>>

CarryOver(a) ==
    /\ adm[a].step = "carry" /\ Go(a, "clear")
    /\ removed' = IF adm[a].new = Nobody THEN removed ELSE Set(removed, adm[a].name, adm[a].new)
    /\ allowed' = Add(allowed, adm[a].name, {adm[a].new} \ {Nobody})
    /\ UNCHANGED <<edit, sweep, out, listed, conflict, keys, tasks, failures>>

\* delete_station_data: the cursor first,
DeleteCursor(a) ==
    /\ adm[a].step = "cursor"
    /\ \E v \in {visible[adm[a].name], FALSE} : visible' = Set(visible, adm[a].name, v)
    /\ Go(a, "keys")
    /\ UNCHANGED <<edit, sweep, out, listed, removed, conflict, data, tasks, allowed, failures>>

\* then live and frozen keys and the frozen index; a task that has read some
\* of them may write them back,
DeleteKeys(a) ==
    LET n == adm[a].name
    IN /\ adm[a].step = "keys" /\ Go(a, "marker")
       /\ \/ data' = Set(data, n, {}) /\ visible' = Set(visible, n, FALSE)
          \/ Tasks(n) # {} /\ UNCHANGED keys
       /\ UNCHANGED <<edit, sweep, out, listed, removed, conflict, tasks, allowed, failures>>

\* and the marker.  What was decided holds on for the tasks of the name only.
DeleteMarker(a) ==
    LET n == adm[a].name
    IN /\ adm[a].step = "marker" /\ Go(a, "clear")
       /\ removed' = Set(removed, n, Nobody)
       /\ allowed' = Set(allowed, n, allowed[n] \cap Tasks(n))
       /\ UNCHANGED <<edit, sweep, out, listed, conflict, keys, tasks, failures>>

ResolveClear(a) ==
    /\ adm[a].step = "clear"
    /\ conflict' = Set(conflict, adm[a].name, Nobody)
    /\ adm' = [adm EXCEPT ![a] = NoCall]
    /\ UNCHANGED <<edit, sweep, out, listed, removed, keys, tasks, allowed, failures>>

\* The request dies half-way.
ResolveLost(a) ==
    /\ adm[a] # NoCall /\ Failure
    /\ adm' = [adm EXCEPT ![a] = NoCall]
    /\ UNCHANGED <<edit, sweep, out, stored, tasks, allowed>>

-----------------------------------------------------------------------------
BootStep == Boot \/ BootDone \/ \E n \in Name : BootSkip(n) \/ BootStart(n)

VisitStep ==
    \E n \in Name : VisitStop(n) \/ VisitNothing(n) \/ VisitLook(n) \/ VisitDrift(n)

LoopStep ==
    \/ Reconcile \/ VisitStep \/ ReadMarker \/ ReadRemnant \/ Flag \/ ClearMarker
    \/ Remember("loop") \/ EndStop("loop") \/ SyncDone

ExitStep ==
    \/ Remember("exit") \/ EndStop("exit") \/ ExitDone
    \/ \E n \in Name : ExitStop(n)

TasksStep == \E n \in Name, i \in Id : TaskWrites(n, i)

Resolving(a) ==
    \/ ResolveRead(a) \/ CarryOver(a) \/ DeleteCursor(a) \/ DeleteKeys(a)
    \/ DeleteMarker(a) \/ ResolveClear(a)

ApiStep == \E a \in Admin : ResolveBegin(a) \/ Resolving(a) \/ ResolveLost(a)

SyncNext ==
    \/ EditStations \/ BootStep \/ LoopStep \/ ExitStep \/ TasksStep \/ ApiStep
    \/ FetchFails \/ LoopFails \/ OtherLoopFails \/ Crash

SyncSpec == SyncInit /\ [][SyncNext]_syncVars

\* The poller's coroutines go on and its container is restarted; a user
\* answers every conflict, and a request that began goes on.
SyncFairSpec ==
    /\ SyncSpec /\ WF_syncVars(BootStep \/ LoopStep) /\ WF_syncVars(ExitStep)
    /\ \A a \in Admin : WF_syncVars(ResolveBegin(a) \/ Resolving(a))

-----------------------------------------------------------------------------
\* A station with a pending conflict has no task, whatever order the poller,
\* its tasks, restarts and the API act in (set_pending_conflict: "Poller
\* refuses to start a new StationTask for this name until the conflict is
\* cleared"), and the reconciliation that records one has waited for the task
\* it stopped.  Only a task that run() stops on its way out, beside a loop
\* that goes on, may still be ending.
NoTaskUnderConflict ==
    \A n \in Name : conflict[n] # Nobody => ~Running(n) /\ ending["loop"].name # n

\* A task goes on with candles of another station only if a user decided so,
\* or nobody could be asked: the boot started it or a marker was left that
\* should have gone, the probe could not see the samples, or two tasks of the
\* name overlapped in an exit.
MixingDecided ==
    \A n \in Name :
        Running(n) /\ ~(data[n] \subseteq {running[n]})
            => running[n] \in allowed[n]

\* Once the stations stay as they are, every one of them comes to have the
\* task of its id and no other task runs, however often the poller, a request
\* or Redis failed before.
SyncSettles == <>[](\A n \in Name : running[n] = db[n])
=============================================================================
