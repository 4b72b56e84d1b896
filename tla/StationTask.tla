---------------------------- MODULE StationTask ----------------------------
(***************************************************************************)
(* One StationTask of the Dumopro poller: samples of a station become      *)
(* candles of every unit, live while their bucket lasts, frozen once a     *)
(* grace period has passed since the next bucket began.                    *)
(*                                                                         *)
(* Abstractions: a sample is its id, and ids have no gaps; a candle is the *)
(* set of samples its statistics were computed from; buckets are numbered  *)
(* in the order of their keys.  A whole bucket of a cold start is written  *)
(* in one step.  The wall clock only says that a grace period is over.     *)
(* Any Redis call may fail with or without its effect; `Fault' bounds how  *)
(* often.  Stopping, cancelling and killing the task all end it where it   *)
(* is: the task that follows only has what is in Redis.                    *)
(***************************************************************************)
EXTENDS Integers, Sequences, SequencesExt

CONSTANTS
    UnitList,    \* UNIT_LIST, in its order
    Freezable,   \* UNITS of the freezer
    Time,        \* sampled_at
    BucketOf,    \* bucket_key: unit -> time -> bucket
    Limit,       \* poll_batch_limit
    FailCap,     \* consecutive_failure_cap
    None,
    MaxSample,   \* bound: samples of one behaviour
    MaxLate,     \* bound: samples stored after a newer one
    MaxFaults    \* bound: failed calls and ends of the task

Unit   == ToSet(UnitList)
Bucket == UNION {{BucketOf[u][t] : t \in Time} : u \in Unit}

ASSUME TaskAssumption ==
    /\ UnitList \in Seq(Unit) /\ UnitList # <<>>
    /\ Time \subseteq Nat /\ BucketOf \in [Unit -> [Time -> Nat]]
    /\ \A u \in Unit, s, t \in Time : s <= t => BucketOf[u][s] <= BucketOf[u][t]
    /\ Freezable \subseteq Unit /\ None \notin Nat
    /\ Limit \in Nat \ {0} /\ FailCap \in Nat \ {0}
    /\ MaxSample \in Nat /\ MaxLate \in Nat /\ MaxFaults \in Nat

VARIABLES
    stamp,     \* the station's samples: sampled_at of sample i
    late,      \* how many of them came after a newer one
    cursor,    \* Redis: last_id, 0 when there is no cursor
    raw,       \* Redis: live:raw of unit and bucket
    live,      \* Redis: live:stats
    frozen,    \* Redis: frozen and its index
    pc,        \* what the task does
    lastId,    \* last_id of run()
    upTo,      \* samples[-1].id of this tick
    batch,     \* pairs of sample and unit that _tick still has to add
    lastKey,   \* _last_bucket_keys
    pending,   \* pending of the freezer
    ripe,      \* freezable units whose ready_at has passed
    due,       \* the rest of due()
    dirty,     \* _dirty
    fails,     \* _consecutive_failures
    torn,      \* history: candles one of whose samples was added again
    lost,      \* history: buckets the freezer no longer knows of
    faults

redis == <<cursor, raw, live, frozen>>
tick  == <<upTo, batch, due>>
freezer == <<pending, ripe, lost>>
vars  == <<stamp, late, cursor, raw, live, frozen, pc, lastId, upTo, batch,
           lastKey, pending, ripe, due, dirty, fails, torn, lost, faults>>

Pair == Unit \X Bucket
Candles == [Unit -> [Bucket -> SUBSET (1..MaxSample)]]

TypeOK ==
    /\ stamp \in Seq(Time) /\ Len(stamp) <= MaxSample /\ late \in 0..MaxLate
    /\ cursor \in 0..Len(stamp)
    /\ raw \in Candles /\ live \in Candles /\ frozen \in Candles
    /\ pc \in {"down", "cold", "poll", "add", "cursor", "recompute",
               "freeze", "dead"}
    /\ lastId \in 0..Len(stamp) /\ upTo \in 0..Len(stamp)
    /\ batch \in Seq((1..MaxSample) \X Unit)
    /\ lastKey \in [Unit -> Bucket \cup {None}]
    /\ pending \in [Unit -> Bucket \cup {None}]
    /\ ripe \subseteq Freezable /\ due \subseteq Freezable
    /\ dirty \subseteq Pair /\ fails \in 0..FailCap
    /\ torn \subseteq Pair /\ lost \subseteq Pair /\ faults \in 0..MaxFaults

Empty   == [u \in Unit |-> [b \in Bucket |-> {}]]
NoKeys  == [u \in Unit |-> None]
Put(candles, u, b, S) == [candles EXCEPT ![u][b] = S]
Fault   == faults < MaxFaults /\ faults' = faults + 1
KeyOf(u, i) == BucketOf[u][stamp[i]]
Samples(u, b, n) == {i \in 1..n : KeyOf(u, i) = b}
Keys(u, n) == {KeyOf(u, i) : i \in 1..n}
Least(m, n) == IF m <= n THEN m ELSE n

Init ==
    /\ stamp = <<>> /\ late = 0
    /\ cursor = 0 /\ raw = Empty /\ live = Empty /\ frozen = Empty
    /\ pc = "down" /\ lastId = 0 /\ upTo = 0 /\ batch = <<>>
    /\ lastKey = NoKeys /\ pending = NoKeys /\ ripe = {} /\ due = {}
    /\ dirty = {} /\ fails = 0 /\ torn = {} /\ lost = {} /\ faults = 0

\* The gateway stores a sample; it may be an older one that was delayed.
Arrive(t) ==
    /\ Len(stamp) < MaxSample
    /\ IF \E i \in 1..Len(stamp) : stamp[i] > t
       THEN late < MaxLate /\ late' = late + 1
       ELSE late' = late
    /\ stamp' = Append(stamp, t)
    /\ UNCHANGED <<redis, pc, lastId, tick, lastKey, freezer, dirty, fails, torn, faults>>

-----------------------------------------------------------------------------
(* run() up to its loop *)

\* Mutant: a warm start does not seed the last bucket keys.
SeedNothing(i) == lastKey' = NoKeys

\* _seed_last_buckets
Seed(i) == lastKey' = [u \in Unit |-> KeyOf(u, i)]

WarmStart ==
    /\ pc = "down" /\ cursor > 0
    /\ pc' = "poll" /\ lastId' = cursor /\ Seed(cursor)
    /\ UNCHANGED <<stamp, late, redis, tick, freezer, dirty, fails, torn, faults>>

\* Without a cursor all samples there are become candles; if there are none
\* the loop starts with no cursor and no keys.
ColdStart ==
    /\ pc = "down" /\ cursor = 0
    /\ upTo' = Len(stamp)
    /\ pc' = IF stamp = <<>> THEN "poll" ELSE "cold"
    /\ batch' = IF stamp = <<>> THEN <<>> ELSE [k \in 1..Len(UnitList) |-> <<1, UnitList[k]>>]
    /\ UNCHANGED <<stamp, late, redis, lastId, due, lastKey, freezer, dirty,
                   fails, torn, faults>>

\* Mutant: the backfill freezes the last bucket too.
IsLatestNever(u, b) == FALSE

IsLatest(u, b) == \A c \in Keys(u, upTo) : c <= b

\* Of one unit, the buckets of B, which are frozen but for the latest one.
Backfill(u, B) ==
    LET old == {b \in B : ~IsLatest(u, b)}
        new == B \ old
        S(b) == Samples(u, b, upTo)
    IN /\ frozen' = [frozen EXCEPT ![u] =
             [b \in Bucket |-> IF b \in old THEN S(b) ELSE @[b]]]
       /\ raw' = [raw EXCEPT ![u] = [b \in Bucket |->
             IF b \in old THEN {} ELSE IF b \in new THEN @[b] \cup S(b) ELSE @[b]]]
       /\ live' = [live EXCEPT ![u] = [b \in Bucket |->
             IF b \in old THEN {} ELSE IF b \in new THEN S(b) ELSE @[b]]]

ColdUnit ==
    /\ pc = "cold" /\ batch # <<>>
    /\ Backfill(Head(batch)[2], Keys(Head(batch)[2], upTo))
    /\ batch' = Tail(batch)
    /\ UNCHANGED <<stamp, late, cursor, pc, lastId, upTo, due, lastKey, freezer,
                   dirty, fails, torn, faults>>

\* A failure, the older buckets being done first: the task is over.
ColdFails ==
    /\ pc = "cold" /\ batch # <<>> /\ Fault
    /\ \E k \in Bucket :
          LET u == Head(batch)[2]
          IN  Backfill(u, {b \in Keys(u, upTo) : b < k})
    /\ pc' = "dead"
    /\ UNCHANGED <<stamp, late, cursor, lastId, tick, lastKey, freezer, dirty,
                   fails, torn>>

ColdDone ==
    /\ pc = "cold" /\ batch = <<>>
    /\ \/ pc' = "poll" /\ cursor' = upTo /\ lastId' = upTo /\ Seed(upTo) /\ UNCHANGED faults
       \/ pc' = "dead" /\ Fault /\ cursor' \in {cursor, upTo} /\ UNCHANGED <<lastId, lastKey>>
    /\ UNCHANGED <<stamp, late, raw, live, frozen, tick, freezer, dirty, fails, torn>>

-----------------------------------------------------------------------------
(* _tick *)

\* Mutant: a tick without samples does not look for buckets to freeze.
FetchOrWait ==
    /\ pc = "poll" /\ Len(stamp) > lastId
    /\ upTo' = Least(Len(stamp), lastId + Limit)
    /\ batch' = [k \in 1..((upTo' - lastId) * Len(UnitList)) |->
                   <<lastId + 1 + ((k - 1) \div Len(UnitList)),
                     UnitList[1 + ((k - 1) % Len(UnitList))]>>]
    /\ pc' = "add" /\ due' = {}
    /\ UNCHANGED <<stamp, late, redis, lastId, lastKey, freezer, dirty, fails,
                   torn, faults>>

\* fetch_samples_since: the next samples after last_id, as pairs in the
\* order in which they are added.
Fetch ==
    /\ pc = "poll"
    /\ upTo' = Least(Len(stamp), lastId + Limit)
    /\ batch' = [k \in 1..((upTo' - lastId) * Len(UnitList)) |->
                   <<lastId + 1 + ((k - 1) \div Len(UnitList)),
                     UnitList[1 + ((k - 1) % Len(UnitList))]>>]
    /\ pc' = IF batch' = <<>> THEN "freeze" ELSE "add"
    /\ due' = IF batch' = <<>> THEN ripe ELSE {}
    /\ UNCHANGED <<stamp, late, redis, lastId, lastKey, freezer, dirty, fails,
                   torn, faults>>

\* schedule of the freezer: at most one bucket of a unit waits.
Schedule(u, b) ==
    IF pending[u] = b THEN UNCHANGED <<pending, ripe, lost>>
    ELSE /\ pending' = [pending EXCEPT ![u] = b]
         /\ ripe' = ripe \ {u}
         /\ lost' = (IF pending[u] = None THEN lost
                     ELSE lost \cup {<<u, pending[u]>>}) \ {<<u, b>>}

\* A new bucket key schedules the bucket before it.
NoteKey(u, b) ==
    /\ IF lastKey[u] \in {None, b} THEN UNCHANGED <<pending, ripe, lost>>
       ELSE Schedule(u, lastKey[u])
    /\ lastKey' = [lastKey EXCEPT ![u] = b]

AddRaw(i, u) ==
    LET b == KeyOf(u, i)
    IN /\ raw' = Put(raw, u, b, raw[u][b] \cup {i})
       /\ torn' = IF i \in frozen[u][b] THEN torn \cup {<<u, b>>} ELSE torn

AddSample ==
    /\ pc = "add"
    /\ LET i == Head(batch)[1]
           u == Head(batch)[2]
       IN  /\ NoteKey(u, KeyOf(u, i)) /\ AddRaw(i, u)
           /\ dirty' = dirty \cup {<<u, KeyOf(u, i)>>}
    /\ batch' = Tail(batch)
    /\ pc' = IF batch' = <<>> THEN "cursor" ELSE "add"
    /\ UNCHANGED <<stamp, late, cursor, live, frozen, lastId, upTo, due, fails, faults>>

\* Mutant: the cursor is where the next fetch begins.
SetCursorNext ==
    /\ pc = "cursor"
    /\ cursor' = upTo + 1 /\ pc' = "recompute"
    /\ UNCHANGED <<stamp, late, raw, live, frozen, lastId, tick, lastKey, freezer,
                   dirty, fails, torn, faults>>

SetCursor ==
    /\ pc = "cursor"
    /\ cursor' = upTo /\ pc' = "recompute"
    /\ UNCHANGED <<stamp, late, raw, live, frozen, lastId, tick, lastKey, freezer,
                   dirty, fails, torn, faults>>

\* The candles of D are computed anew; an empty bucket is skipped.
Computed(D) ==
    [u \in Unit |-> [b \in Bucket |->
        IF <<u, b>> \in D /\ raw[u][b] # {} THEN raw[u][b] ELSE live[u][b]]]

\* _recompute_dirty; then due() is decided once for the whole round.
RecomputeDirty ==
    /\ pc = "recompute"
    /\ live' = Computed(dirty) /\ dirty' = {}
    /\ pc' = "freeze" /\ due' = ripe
    /\ UNCHANGED <<stamp, late, cursor, raw, frozen, lastId, upTo, batch,
                   lastKey, freezer, fails, torn, faults>>

\* freeze_bucket, one transaction of Redis; an empty bucket is only dropped.
FreezeBucket(u, b) ==
    IF raw[u][b] = {} THEN UNCHANGED <<raw, live, frozen>>
    ELSE /\ frozen' = Put(frozen, u, b, raw[u][b])
         /\ raw' = Put(raw, u, b, {}) /\ live' = Put(live, u, b, {})

Freeze(u) ==
    /\ pc = "freeze" /\ u \in due
    /\ FreezeBucket(u, pending[u])
    /\ pending' = [pending EXCEPT ![u] = None] /\ ripe' = ripe \ {u}
    /\ due' = due \ {u}
    /\ UNCHANGED <<stamp, late, cursor, pc, lastId, upTo, batch, lastKey, lost,
                   dirty, fails, torn, faults>>

\* Only now does run() know the new last_id.
TickDone ==
    /\ pc = "freeze" /\ due = {}
    /\ lastId' = upTo /\ fails' = 0 /\ pc' = "poll"
    /\ UNCHANGED <<stamp, late, redis, tick, lastKey, freezer, dirty, torn, faults>>

-----------------------------------------------------------------------------
(* Failures *)

\* What the call that failed may have done, by where the tick was.
PartOf ==
    \/ pc = "poll" /\ UNCHANGED <<redis, lastKey, freezer, dirty, torn>>
    \/ pc = "add" /\ NoteKey(Head(batch)[2], KeyOf(Head(batch)[2], Head(batch)[1]))
       /\ (AddRaw(Head(batch)[1], Head(batch)[2]) \/ UNCHANGED <<raw, torn>>)
       /\ UNCHANGED <<cursor, live, frozen, dirty>>
    \/ pc = "cursor" /\ cursor' \in {cursor, upTo}
       /\ UNCHANGED <<raw, live, frozen, lastKey, freezer, dirty, torn>>
    \* the pairs of D are done, p is popped and its candle written or not
    \/ pc = "recompute" /\ \E D \in SUBSET dirty : \E p \in dirty \ D :
          /\ dirty' = dirty \ (D \cup {p})
          /\ live' \in {Computed(D), Computed(D \cup {p})}
          /\ UNCHANGED <<cursor, raw, frozen, lastKey, freezer, torn>>
    \* not frozen, frozen and still pending, or frozen and not published
    \/ pc = "freeze" /\ \E u \in due :
          /\ \/ UNCHANGED <<raw, live, frozen>> \/ FreezeBucket(u, pending[u])
          /\ \/ UNCHANGED <<pending, ripe>>
             \/ /\ raw'[u][pending[u]] = {}
                /\ pending' = [pending EXCEPT ![u] = None] /\ ripe' = ripe \ {u}
          /\ UNCHANGED <<cursor, lastKey, lost, dirty, torn>>

\* The tick raised: the same samples are fetched again, until it has failed
\* too often and the task says that it stalled and returns.
TickFails ==
    /\ pc \in {"poll", "add", "cursor", "recompute", "freeze"} /\ Fault /\ PartOf
    /\ fails' = fails + 1
    /\ pc' = IF fails' >= FailCap THEN "dead" ELSE "poll"
    /\ batch' = <<>> /\ due' = {} /\ upTo' = lastId
    /\ UNCHANGED <<stamp, late, lastId>>

\* The chart's reading of one unit: every frozen candle, and of the live ones
\* that of the greatest bucket key (_get_live).
Shown(u) ==
    LET current == {b \in Bucket : live[u][b] # {}}
    IN {b \in Bucket : frozen[u][b] # {}} \cup {b \in current : \A c \in current : c <= b}
Hidden(u) == {b \in Bucket : raw[u][b] # {}} \ Shown(u)

\* The task is stopped, cancelled or killed; the next one starts from Redis.
End ==
    /\ pc # "down" /\ Fault
    /\ pc' = "down" /\ lastId' = 0 /\ upTo' = 0 /\ batch' = <<>> /\ due' = {}
    /\ lastKey' = NoKeys /\ pending' = NoKeys /\ ripe' = {} /\ dirty' = {} /\ fails' = 0
    /\ lost' = lost \cup {p \in Pair : p[2] \in Hidden(p[1]) \/ pending[p[1]] = p[2]}
    /\ UNCHANGED <<stamp, late, redis, torn>>

\* The grace period of a unit's pending bucket is over.
Ripen(u) ==
    /\ pending[u] # None /\ u \notin ripe
    /\ ripe' = ripe \cup {u}
    /\ UNCHANGED <<stamp, late, redis, pc, lastId, tick, lastKey, pending, lost,
                   dirty, fails, torn, faults>>

-----------------------------------------------------------------------------
TaskStep ==
    \/ WarmStart \/ ColdStart \/ ColdUnit \/ ColdDone
    \/ Fetch \/ AddSample \/ SetCursor \/ RecomputeDirty \/ TickDone
    \/ \E u \in Unit : Freeze(u)

Next ==
    \/ \E t \in Time : Arrive(t)
    \/ TaskStep \/ ColdFails \/ TickFails \/ End
    \/ \E u \in Freezable : Ripen(u)

Spec == Init /\ [][Next]_vars

\* The loop goes on, the poller starts a task for the station, clocks run.
FairSpec == Spec /\ WF_vars(TaskStep) /\ \A u \in Freezable : WF_vars(Ripen(u))

-----------------------------------------------------------------------------
\* No sample of another bucket arrived on the wrong side of one of this one.
InOrder(u, b) ==
    \A i, j \in 1..Len(stamp) :
        i < j => (KeyOf(u, i) = b => KeyOf(u, j) >= b) /\ (KeyOf(u, j) = b => KeyOf(u, i) <= b)

\* A frozen candle holds every sample of its bucket, whatever was fetched
\* twice, started cold or warm, or failed half-way: unless a sample came out
\* of order, or a tick froze the bucket, failed and added its samples again.
FrozenWhole ==
    \A u \in Unit, b \in Bucket :
        frozen[u][b] # {} /\ InOrder(u, b) /\ <<u, b>> \notin torn
            => frozen[u][b] = Samples(u, b, Len(stamp))

\* After a tick without a failure the chart leaves out a bucket with samples
\* only while it waits to be frozen, when the freezer no longer knows of it
\* (the next boundary or a restart came first), when late samples concerned
\* it, or when it is of a unit the freezer does not freeze.
HiddenExplained ==
    pc = "poll" /\ fails = 0 =>
        \A u \in Freezable : \A b \in Hidden(u) :
            InOrder(u, b) => pending[u] = b \/ <<u, b>> \in lost

\* A bucket that a sample of a later bucket follows comes to be frozen,
\* unless the task died, the freezer lost it, or late samples concerned it.
Passed(u, b) ==
    \E i, j \in 1..Len(stamp) : i < j /\ KeyOf(u, i) = b /\ KeyOf(u, j) > b
BucketsFreeze ==
    \A u \in Freezable, b \in Bucket :
        Passed(u, b) ~>
            (frozen[u][b] # {} \/ <<u, b>> \in lost \/ pc = "dead" \/ ~InOrder(u, b))
=============================================================================
