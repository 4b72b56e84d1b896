# Formal models of Dust-Monitoring

TLA+ specifications of the dust-monitoring pipeline: a robot (AMR) drives past
waypoints, streams camera frames and dust readings to a gateway, the frames of a
waypoint are scored as one batch, a rule table turns the scores into an alarm
level, and the level is written to the customer's system (LOAS).  The models
follow the code in `src/`; the runs check them on small instances with TLC, the
theorems hold for every value of the constants and are checked by TLAPS.

## 1. Inventory

| Component | State it keeps | Operations | Talks to |
|---|---|---|---|
| Ingestion Gateway, LOAS mode (`SocketDaim/ingestion_gateway`) | `waypoint_gate.allow_save`, `target_id` (module globals); rows of `dust_inspection`, `cctv_frame`; JPEG files | `LoasDustHandler.on_frame`, `LoasCctvHandler.on_frame`, `FrameCorrelator.tick` | gateway_db, disk |
| Ingestion Gateway, standard mode | `VideoBuffer`s per connection; `video`, `sensor_sample`, `station_request`; video files | `handle_chunk`, `handle_complete`, `SensorHandler.handle`, heartbeats | gateway_db, disk, senders |
| gw_proto | connections and their session ids | framing, TCP client with back-off and heartbeat, TCP servers | ingestion, senders |
| Cleaner (`SocketDaim/cleaner`) | trigger event, schedule | retention sweep, emergency purge, manual purge, trigger listener | gateway_db, disk |
| SocketDaim Admin UI | `station`, `station_request` | approve, reject, restore; create, patch, delete, seed stations; cleanup button | gateway_db, NOTIFY |
| PoolerTran | `cctv_transfer_queue`; `_last_waypoint_by_amr` | trigger, transition loop, batch, retry, DLQ, purge, sweep, clear | gateway_db, REST service, decision_db |
| Decision Agent | `alarm_mapping`, `role_mapping`, caches of both; `final_decision` | judge, reload, PATCH, force | decision_db |
| Egress Gateway | SQLite outbox, `sent_at` | drain, tick, send, mark | decision_db, gateway_db, LOAS |
| Dumopro poller | `running`; cursor, live and frozen candles, markers and conflicts in Redis; `GraceFreezer.pending` | boot, reconcile, start and stop tasks; backfill, tick, freeze | gateway_db, Redis |
| Dumopro API | pumps and queues of the `Broadcaster` | conflict resolution, charts, SSE fan-out | Redis, browsers |

The three databases share no transaction.  A frame crosses all of them:

    dust, frames -> gateway_db -> queue -> PoolerTran -> REST -> decision_db
                 -> Decision Agent -> Egress outbox -> t_inspection at LOAS

What is hard in this code, component by component (every hazard with its line is
in `PROJECT.json`; five have no property there, because the code does what the hazard
says or accepts it, and their notes say so):

* PoolerTran: a REST call and an INSERT into another database inside a gateway
  transaction; lost replies; retries that are capped; a waypoint map that lives in
  memory and advances whatever became of the batch; overflow that is deleted.
  Correct means: nothing leaves the queue without a cause one can name, a reading
  is decided once, a record mixes neither robots nor waypoints, nothing returns.
* Decision Agent: two caches beside the loop and the API, reloaded by a SELECT
  whose reply is applied after an await.  Correct means: one decision per record,
  made by one version of each table, and a cache that catches up.
* Egress: four commits in three stores.  Correct means: at-least-once delivery,
  duplicates only after failures, nothing replayed once it is settled.
* Ingestion, LOAS mode, and Cleaner: file and row are written and removed in two
  steps by processes that do not know of each other.  Correct means: a row has its
  image, an image has its row, unless a failure explains it; what is purged is the
  oldest; a frame is paired once and with a reading of its time window.
* Standard mode and gw_proto: file, row and reply of a video are three steps, the
  sender may hang up, try again or take a heartbeat for its reply.  Correct means: a
  row has a whole file, ACK means stored, a file its row does not name needs a cause.
* Admin UI: requests are approved, rejected and restored over awaits, stations are
  looked up by a name that nothing makes unique.  Correct means: one station per name
  and every reading under it, unless an administrator caused something else.
* Dumopro poller: candles are kept by name, samples by id; tasks are started and
  stopped by boot, reconciliation and shutdown while users resolve conflicts; a bucket
  is frozen by a timer that lives in memory.  Correct means: no station continues the
  candles of another unasked, a frozen candle holds all samples of its bucket, every
  station comes to have its task.
* Dumopro API: one pump per topic, bounded queues, clients that vanish at any await.
  Correct means: a client gets the newest events in order, and pumps end with their
  last client.


## 2. Modules and code

| Module | Models | Checked by | Proved in |
|---|---|---|---|
| `Ingest` | `waypoint_gate.py`, `loas_dust_handler.py`, `loas_cctv_handler.py`, `correlator.py`, `_run_loas` | `ingest_pair` | `Ingest_proofs` |
| `FrameStore` | `loas_cctv_handler.py` step by step, `cleanup.py`, `cleaner/main.py`, the cleanup button of the Admin UI | `frames_purge` | `FrameStore_proofs` |
| `PoolerTran` | `poller.py`, `queue_repo.py`, `decision_producer.py`, `main.py`, the enqueue trigger | `pooler_route`, `pooler_two` | `PoolerTran_proofs` |
| `DecisionAgent` | `poller.py`, `judge.py`, `role_resolver.py`, `decision_repo.py`, the PATCH, reload and force routes of `admin/app.py` | `agent_judge` | `DecisionAgent_proofs` |
| `Egress` | `main.py`, `poller.py`, `sender.py`, `outbox.py`, `sink.py` | `egress_deliver` | `Egress_proofs` |
| `Delivery` | what the Egress Gateway promises: at-least-once | as the property `AtLeastOnce` | `Egress_proofs` |
| `StationAdmin` | the station and request routes of `admin_ui/app.py`, `request_repo.py`, `station_repo.py`; lookup, upsert and INSERT of `sensor_handler.py` | `station_names`, `station_taken` | `StationAdmin_proofs` |
| `VideoSession` | `send_video.py`, `gw_proto` client and server, `video_handler.py`, `session.py`, `sensor_handler.py`, `control_handler.py`, `_purge_videos` | `video_transfer` | `VideoSession_proofs` |
| `StationSync` | `apps/poller/main.py`, `resolve_conflict`, the markers, conflicts and `stations:list` of `redis_client.py` | `sync_settle` | `Dumopro_proofs` |
| `StationTask` | `station_task.py`, `backfill.py`, `freezer.py`, the candles of `redis_client.py`, `_get_live` of `chart.py` | `task_freeze` | `Dumopro_proofs` |
| `Broadcaster` | `sse_broadcaster.py`, `stream.py` | `sse_fanout` | `Dumopro_proofs` |

`MC*` modules give the constants of a specification their values for TLC.
Definitions written beside a mapped one and commented "Mutant:" are plausible
bugs of that code; replacing the definition by one of them breaks a property.
They are in no specification.  The three modules of Dumopro are proved in one, so
their names are kept apart: `StationSync` has `SyncInit`, `SyncNext`, `SyncSpec`,
`Broadcaster` has `SseInit`, `SseNext`, `SseSpec`.

The modules meet in the tables they share.  `Ingest` ends where a frame gets its
`dust_inspection_id`; `PoolerTran` starts with that UPDATE (`PairFrame`, with the
trigger in it) and ends with a `decision_record`; `DecisionAgent` starts with
that row (`Arrive`) and ends with `final_decision`; `Egress` starts there
(`Judge`).  What one module takes as an arbitrary input is a step of another.
On the other branch `StationAdmin` decides which station a name means, which is the
`station` of `VideoSession` (`EditStation`) and the view of `StationSync`
(`EditStations`).  A task of `StationSync` is a `StationTask`, of which it keeps the
id and any prefix of its writes (`TaskWrites`); the events `StationTask` publishes are
the `Publish` of `Broadcaster`.

### State and steps

* **Ingest.**  `dstep`, `fstep` say where `on_frame` is with a message, `dustAt`,
  `frameAt`, `pair`, `pairedAt` are columns, `gate` is `allow_save`.  There is one
  clock.  `due` is when the Correlator wakes up; `Advance` may not pass it, because
  `wait_for` returns at its timeout.  `Tick` is `_PAIR_SQL`: all frames of the
  lookback without a reading are paired at once, each with a nearest candidate.
* **FrameStore.**  A frame's `hstep` walks through `on_frame`: write, INSERT, and
  the unlink after a failed INSERT.  The Cleaner has one program counter; a batch
  is selected, unlinked file by file and then deleted, so the handler can run
  between any two.  One image is one unit of disk.  Files in `Stuck` raise an
  `OSError` other than `FileNotFoundError`.
* **PoolerTran.**  `queue`, `enqueuedAt`, `attempts` are the table; `last` is
  `_last_waypoint_by_amr`; `batch` and `dropped` are the open gateway transaction,
  which a failure rolls back while `sent`, `decision` and `dlq`, in other systems,
  stay.  `fate` is a history variable: it names the statement that removed a row.
* **DecisionAgent.**  `roleMap`, `alarm` are the tables, `roleCache`, `alarmCache`
  the copies in memory.  `step[q]` and `reply[q]` follow a reload from its SELECT to
  the moment the coroutine resumes.  `roles` is the snapshot of a tick.  `roleLog`,
  `alarmLog`, `byAgent` are history variables.
* **Egress.**  `outbox`, `rows`, `sentAt` are the three stores; every commit is a
  step, and a crash or a failure can follow each.
* **StationAdmin.**  `name[s]`, `inactive` and `request` are columns; `Free` and `Gone`
  are the names of an id before and after its row.  `call[a]` is what a request of an
  administrator has read and not yet committed, `handler[g]` what a handler has looked
  up and not yet used: everything may happen between the two.  `edited` and `crossed`
  are history: the names whose twins have a cause.
* **VideoSession.**  `up[k]`, `down[k]` are the bytes of connection k in both
  directions, as messages.  `buf[k]` is its `VideoBuffer`, `work[k]` where
  `handle_complete` is: the file is opened (which empties it), filled by a thread, the
  row inserted, the reply written.  The path depends on the day, hence `Midnight`.
  The sender takes any message for its reply (`TakeReply`), as `send_video.py` does.
* **StationSync.**  `doing` is what the boot or the reconciliation awaits, `at` the
  name it is at, `todo` the names it still has to visit; every await is a step, above
  all the two of `_stop_task` (`Pop`, `Remember`, `EndStop`).  The exit of `run()`
  (`exiting`, `leaving`) is a second caller of `_stop_task`, with its own entry in
  `ending`: when a loop raises, `gather` does not cancel the other one (`loops`), which
  goes on to reconcile while the exit, without the lock, stops tasks.  A task that was
  popped writes until `EndStop`.  `removed`, `conflict` and `listed` are Redis;
  `data[n]` is the set of station ids whose samples the keys of a name hold, `visible[n]`
  whether `has_station_remnant_data` sees any of them: live keys come before the cursor
  in `cold_start` and `_tick`, so a task cut short can leave data that is not visible.
  `adm[a]` is a request at one of its awaits; `start_fresh` deletes cursor, keys and
  marker one after the other.  `allowed[n]` is history: the ids that may go on with the
  data of the name, because a user said so or because the code could not ask.
* **StationTask.**  A candle is the set of samples its statistics were computed from,
  a bucket an ordered number.  A tick is cut at every Redis call: add, cursor,
  recompute, freeze.  `PartOf` lists what a failed call may have done; the tick is then
  repeated with the old `last_id`, as in the code.  `Ripen` is the end of a grace
  period.
* **Broadcaster.**  An event is its position in `log`.  `inbox[t]` is what Redis has
  sent to a pump, `queue[c]` the bounded queue of a client, `stage[c]` its request:
  subscribed but not begun, streaming, leaked.

### Abstractions

Image data, XML, JSON bodies, scores and the 26 columns of `t_inspection` are
left out: no property depends on their values.  Time stamps are a clock or an order.
`PairFrame` enqueues one frame at a time although the Correlator pairs many in one
UPDATE: the rows of an UPDATE are enqueued in an arbitrary order, and more
interleavings are allowed than the code has.  The caps on the batches of one
Cleaner pass (1000 and 100000) are not modelled.  A statement that commits while
its reply is lost is a step of its own (`InsertFails`, `StatementFails`,
`TickFails`, `PassFails`), because its caller behaves as if it had failed.

In `StationSync` `data` is an upper bound: it also holds ids whose samples a task has
read and may write back after a deletion.  A task that gave up stays in `running` and
writes no more, so it is an id like any other.  SIGTERM kills the process (`Crash`); the
ways out of a Ctrl-C, and a health server that fails, are left out.

## 3. What the runs show

| Run | Instance | What it shows |
|---|---|---|
| `ingest_pair` | 3 readings, 2 frames, clock to 6, interval 2, lookback 6, window -2..+1, 1 fault | a pair is the nearest reading stored before the tick; it is made by its deadline, one interval later after a failed tick; only observations are paired |
| `frames_purge` | 4 frames on 3 paths, 1 stuck file, batches of 2, threshold 3, target 1, 1 press, 2 faults | files and rows stay together but for what a failure explains; the emergency pass stops at its target and relieves the pressure; a press that was heard is served |
| `pooler_route` | 1 robot, 5 frames at 2 waypoints, batches of 2, cap 1, 2 faults, 1 frame the cleaner may take | what leaves the queue was decided, dead-lettered or discarded for a cause |
| `pooler_two` | 2 robots, 5 frames, a reading without a waypoint, sweep and clearing restart, 1 fault | nothing returns to the queue; the rows of a left waypoint do not wait for ever |
| `agent_judge` | 2 records, one without a row in the truth table, 2 edits, 1 request beside the refresh loop, 1 fault | one decision, by one version of each table, eventually; the role cache catches up |
| `egress_deliver` | 5 decisions (one excluded, one refused, one without a reading), batches of 2, 2 faults | implements `Delivery`; duplicates need faults; everything before a refused decision is settled |
| `station_names` | 2 names, 3 ids, 2 administrators, 1 sender, 1 edit by hand, 2 faults | two stations of a name, an approved name without one and scattered readings all need a cause |
| `sync_settle` | 1 name, 2 ids, 2 requests, 2 changes of the view, 1 fault (a failing loop, a crash, a lost request, ...) | no task under a conflict but one the exit is stopping; old candles continued only by decision or where the code cannot ask; in the end the task of the right id runs |
| `task_freeze` | 3 samples on 3 times, 1 of them late, 2 units of which one freezes, batches of 2, cap 2, 2 faults | frozen candles are whole, hidden ones explained, passed buckets freeze |
| `sse_fanout` | 1 station and the topic of all, 2 clients, queues of 1 and 2, 3 events, 1 dead pump | the newest events in order, once; one pump per topic with clients; it ends after them |
| `video_transfer` | 2 attempts of 2 chunks, 2 days, 1 heartbeat, 1 reading, 1 edit of the station, 1 fault | a row has a whole file; ACK means stored; a file is the one its row names, or a second attempt's on another day |

`station_taken` shows the code doing something else than its text: the docstring of
`approve` (`request_repo.py:98`) and the handler at `app.py:286` count on a unique
`station_name`, which `init_db.sql:44` does not declare.  TLC's counterexample is four
steps: two administrators read the pending request, both commit, and there are two
stations.  `TwinsExplained` says what remains true.

### Other disagreements met while reading

These are findings of `PROJECT.json`, each with the text it contradicts:

* `PoolerTran/poller.py:282`: the waypoint map advances although the batch failed, so
  "retried on the next poll" (`queue_repo.py:234`) is not true of the left waypoint.
* `PoolerTran/poller.py:401`: a repeated batch can have another representative, hence
  another `dust_id`; the UNIQUE constraint does not absorb it.
* `PoolerTran/poller.py:331`: a full batch that is dead-lettered counts as progress,
  and the overflow it was to protect is discarded.
* `egress_gateway/sink.py:73`, `sender.py:109`: no key absorbs a duplicate at LOAS; the
  drain at start-up does not look at the filter.
* `decision_agent/judge.py:91`: two PATCHes whose replies cross leave the older truth
  table cached.
* `apps/poller/main.py:264`: the boot looks at neither marker nor candles, so a station
  re-registered while the poller was down continues the old candles.
* `redis_client.py:253`: the probe for remnant data sees cursor and frozen indexes, not
  live keys, which are written first; a station registered on what a crash left there is
  started as a new one.
* `apps/poller/main.py:310`: when one loop raises, the other goes on during the exit,
  which takes no lock: a conflict can be recorded, and another task of the name started,
  beside a task that still writes for up to five seconds.
* `freezer.py:11`: hour buckets are never frozen; every hour leaves a live key behind,
  of which the chart shows the last.
* `stream.py:54`: a request dropped before its generator begins leaks queue and pump.
* `video_handler.py:137`: a stored video that is sent again is truncated, rewritten and
  answered ERROR; sent again after midnight it leaves a file on the new day that no row
  names and nothing purges.

And these are smaller:

* `PoolerTran/docs/PoolerTran_설계.md:397` says the backlog survives a restart; `main.py:49` clears
  it unless `PT_CLEAR_QUEUE_ON_START` is off.
* `correlator.py:16` says the nearest reading wins; a frame paired early keeps its
  reading when a nearer one is stored later.  `NearestSoFar` says what does hold.
* `cleaner/main.py:79` says the listener reconnects so that a transient database
  failure does not silence the button; only a failing connect is retried, a
  connection that drops later is not noticed (`ListenerDrops`).
* `loas_cctv_handler.py:15` announces that the Cleaner will remove orphan files; it
  still visits only files that have a row, so `OrphansNeedFaults` bounds what stays.
* `admin/app.py:50` offers "danger" for a forced decision; `decision_repo.py:27`
  refuses it.
* `judge.py:3` and `seed_mapping.sql:2` speak of twelve rows; eight are seeded.
* `egress_gateway/main.py:127` promises the drain a retry at the next tick; the
  drain runs once per start, and a tick sends the decision anew from its record.
* An approved request of a station that was deleted or made inactive never shows as
  pending again: `upsert` keeps its status while the sender is refused.
* `reject` takes an approved request too; restored and approved again it makes a second
  station (`request_repo.py:59`).
* A `StationTask` that gave up stays in `running`: reconciliation takes it for alive,
  and `stations.py:49` answers `"offline": False`.  A cold start that raises never sets
  its signal, so the poller never declares itself ready.
* Of two requests that resolve one conflict the later `start_fresh` deletes candles the
  new task has begun to write.
* A `carry_over` whose conflict another request cleared after its first look (`stations.py:84`)
  finds no new id, acknowledges nothing, and clears a conflict recorded since.
* The freezer's pending buckets are only in memory and `force_freeze_all` has no caller:
  a restart in the grace period leaves the bucket live for ever (`lost` in the model).
* A sample that arrives after its bucket was frozen re-creates the bucket; if it freezes
  again, the candle is overwritten by one of the late samples only (`torn`).
* A pump that ended with an error stays in `_pumps`, so no later client restarts it.
* `registry.drop` (`session.py:65`) has no caller: buffers of lost connections stay in
  memory.  A video without `captured_at` is never purged, and `_purge_videos` deletes
  the row of a file it could not unlink.

### Bounds

Bounds are constants whose comment starts with "bound:".  `MaxFaults` (`MaxFailures`
in `StationSync`, `MaxDeaths` in `Broadcaster`) counts failures and crashes together; two
are enough where repetition matters, because a second failure already finds the state the
first one left (a row in the outbox, a rolled-back transaction, an orphan).  Where one
is given, one failure reaches every hazard listed, and the theorems hold for any number.  Batches of two make a batch that is full, one
that is not and an overflow with five frames.  Two robots are needed for the loop
over robots, one for the rest.  In `Ingest` the clock runs to six because interval,
lookback and window fit into it three, one and two times; the run does not check
for deadlock because the clock stops there.  `Egress` is not checked for deadlock
because its loop does nothing when nothing is left to send.

In `StationAdmin` three ids allow a name to get two stations and another one its own;
two names are enough for a mix-up.  Its ids and administrators are interchangeable and
the run has no liveness, so symmetry is sound.  In `StationSync` names do not interact
but through the poller's position, so one name with two ids shows every order of
re-registration; two changes of the view are enough for A-B-A, and two requests for a
stale resolution.  One failure is enough for the exit beside a loop that goes on (the
failing loop) and for live keys without a cursor (the crash); a `carry_over` that finds
its conflict gone is counted as one too, or two requests could go round for ever without
a conflict being answered.  `StationTask` needs two units because only some freeze, and three
times for a second boundary during a grace period.  `Broadcaster` needs three events for
queues of one and two to overflow.  `VideoSession` needs two attempts for a retry beside
the thread of the first and two days for the two paths.  In these modules but
`StationSync` everything may come to rest, so they are not checked for deadlock.

### Fairness

* `PoolerTran`: weak fairness of the loop and of the restart.  The event loop
  resumes a coroutine that can run, and the container has `restart: unless-stopped`.
  No frame has to arrive, no robot to move, no failure to end.
* `FrameStore`: weak fairness of every coroutine under way, of the Cleaner's loop and
  its restart.  Connecting the listener is not fair: no property needs it.
* `DecisionAgent`: weak fairness of the loop, of the refresh loop, of every reload
  under way and of the restart; edits, presses and forced decisions are free.
* `Egress`: weak fairness of the gateway's own steps.
* `StationSync`: weak fairness of the poller's coroutine (boot with the restart of its
  container, loop), of the exit, and of each request, which begins when there is a
  conflict and goes on: a user answers.  Changes of the view and failures are bounded, so
  both stop; tasks need not write.
* `StationTask`: weak fairness of the task with its start, and of the clock (`Ripen`).
* `Broadcaster`: weak fairness of a response that was accepted, which begins or is
  dropped, and of the stream finding its client gone, at the latest at the next ping.
  Pumps and events are free.
* `Ingest` has no liveness property: `PairedInTime` is a bound on the clock.
  `StationAdmin` and `VideoSession` have none either: whether an administrator answers
  or a sender tries again is nobody's promise.

Weak fairness suffices because no other actor can disable these steps for ever.

## 4. What is proved

TLAPS checks, for all values of the constants under the named assumptions:

* **PoolerTran** (`PoolerAssumption`, `OneAmrPerReading`): `TypeOK`,
  `ProcessedWasDecided`, `DeadRowsKept`, `RetriesBounded`, `DecisionsCoherent`,
  `DiscardFollowsBatch` and the action property `GoneForGood`.  None is inductive.
  `LoopOK` ties the loop's position to the AMRs left and the open transaction,
  `ClaimOK` says a claimed batch is rows of one AMR and one waypoint that are still
  in the queue, `ExternalOK` that what comes after the REST call or the INSERT finds
  its frames sent and its record written, `QueueOK` that fate and queue exclude each
  other.  `OneAmrPerReading` holds because a gateway process stamps all its frames
  with one `loas_amr_id`.
* **Egress** (`EgressAssumption`): `SentWasDelivered`, `DuplicatesNeedFaults`, and,
  when one filter serves all runs (`SameFilterAlways`), that every step is a step of
  `Delivery` or a stutter, and that nothing is left to replay.  `ListOK` and `ItemOK`
  say what the list and the item in hand are at each step; `Budget` counts the rows a
  decision may still get before and after its INSERT.
* **Ingest** (`IngestAssumption`): `PairedInTime`, `NearestSoFar`,
  `PairsAreObservations`.  `TickOK` is the strengthening of the deadline: as long as a
  frame and a reading are unmatched, the next tick comes before their deadline; a
  failed tick moves both by one interval, an outage moves both by its length.
* **DecisionAgent** (`AgentAssumption`): `TypeOK`, `JudgedByOneVersion`,
  `DecidedOnce`.  `VersionsOK`, `RepliesOK` and `VerdictOK` say that a cache, a reply
  on its way, the tick's snapshot and the verdict in hand belong to versions the
  tables have had.

* **StationAdmin** (`AdminAssumption`): `TwinsExplained`, `ApprovedHasStation`,
  `ReadingsTogether`.  `CallsOK` says that a name under approval that nobody edited or
  approved twice has no station yet and no second approval; `StationsApproved` that such
  a station's request is approved, which is why no new approval of it can begin;
  `HandlersOK` and `RowsOK` carry the name from lookup to row.
* **StationSync** (`SyncAssumption`): `NoTaskUnderConflict`, `MixingDecided`.
  `PollerOK` says what the poller awaits given its position: a name it is about to start
  is in the view and has no task, the task its loop is stopping is at that name.
  `NoTaskUnderConflict` is inductive with it, since only the poller records conflicts
  and starts tasks.  `MixingDecided` needs `TasksOK`: each task of a name that may still
  write, running or ending, is allowed, or the only one whose samples are or can come
  there; and `MarkersOK`, the same for the id a marker would let start, unless
  `_start_task` is about to delete the marker.  `start_fresh` cuts `allowed` back to the
  tasks of the name, and takes the marker in the same step.
* **VideoSession** (`VideoAssumption`): `StoredWhole`, `AckMeansStored`.  `CompleteIsLast`
  and `WorkIsLast` say that nothing of a video follows its VIDEO_COMPLETE on a
  connection, `FilledWhole` that what is about to be recorded is whole, `InStep` that
  without heartbeats messages, work in progress and replies are together exactly what
  the sender waits for.
  For `NoOrphans`, `FilesInHand` follows a file from the connection that opened it to
  its row: without a failure or an edit somebody works on it, or it is whole and
  recorded.  `OpenedOnce` says that a connection opens one file and its row has that
  path, hence a file of the recorded connection is the one the row names;
  `CleanerIsLate` and `FilesCleaned` that the Cleaner, after every attempt is over,
  removes it with the row.
* **FrameStore** (`StoreAssumption`): `OrphansNeedFaults`, `ImagelessNeedFaults`,
  `TargetRespected`.  The bounds are about the elements of sets, and a step may add an
  element long after the failure that made it possible.  `LooseOK` counts the files no
  row refers to once the rows in `gone` are deleted, `BareOK` the rows without an image
  once the handlers under `unlink` have undone theirs: with these counted in advance
  only a failure raises the left side, and it raises the right side by as much.
  `PassOK` lets the handlers undo files during a pass, each paid for by a failure.
* **StationTask** (`TaskAssumption`; its `UnitList` is the non-empty constant of
  `buckets.py`): `FrozenWhole`, `HiddenExplained`.  The hard part is the tick that
  failed and is repeated with the old `last_id`, over candles it has half changed:
  `OwnOK` says a candle holds samples of its own bucket, `SeenOK` that it holds what the
  cursor passed and no more than was fetched, `Covered` and `Whole` that in every bucket
  whose samples came in order nothing processed is missing, `KeysOK` and `PendingOK`
  what `last_bucket` and the freezer know, `OpenOK` that a live bucket which is neither
  pending, lost nor frozen is the latest, or will be visited again.  `Kept` collects
  what a failed tick leaves true wherever it was cut.  A batch is the pairs of sample
  and unit in the order of the loops; `PairsOf` proves, by division with remainder, that
  the sequence of `Fetch` is that.
* **Broadcaster** (`BroadcasterAssumption`): `PumpsFollowQueues`, once every request
  that is not over is known to have a topic (`Asked`), and `NewestInOrder`.  `InboxOK`
  says an inbox holds the newest events of its topic, `SubsOK` that each client a live
  pump feeds is `Fed`: what it was sent, what is queued and what is in the inbox are
  three consecutive ascending pieces, the last two without gaps, and nothing is missing
  as long as no more events than `Cap` have left the inbox.  A lemma for each of
  publish, fan-out and send shows that `Fed` survives it for any sequences.

The type invariant of every component is proved too.

Only model-checked: every liveness property (`LeftWaypointHandled`, `PressServed`,
`PressureRelieved`, `RoleCacheConverges`, `EventuallyDecided`, `EventuallySettled`,
`SyncSettles`, `BucketsFreeze`, `PumpsStop`), because the prover has neither ENABLED
nor fairness, and `station_taken`, which is a counterexample.  Every other property of
the runs is a theorem.

## 5. What is not modelled, and the plan

Left for later, in the order of their importance:

1. `Pipeline`: `Ingest`, `PoolerTran`, `DecisionAgent` and `Egress` composed through
   their tables, with the promise of the whole: an observed, judged waypoint reaches
   LOAS at least once.
2. `StationSync` with `StationTask` as its tasks instead of arbitrary writes: which
   candles a tick that runs on while `start_fresh` deletes its keys leaves wrong.
3. Box statistics (`candles.py`) against a reference definition; they are arithmetic on
   floating-point percentiles, which TLA+ can only state over scaled integers.

Not modelled for good:

* codecs and parsers, data without state; the back-off of `TcpClient.connect`, time
  without a choice; `reconnect`, which nothing calls;
* labels of videos and waypoints in the Admin UI and thresholds in the Decision Agent,
  each one UPDATE that no other step depends on; browsing, charts of raw data,
  regression and residuals, which only read or are read by nobody here;
* the retention of samples and logs, single DELETE statements; the settings of the
  Dumopro API, one hash (`config:runtime`) that only its own route writes and reads;
* the web front ends, health endpoints, logging and deployment files;
* the REST service and LOAS themselves: they appear as what the code does with their
  answers.
