------------------------------- MODULE Ingest -------------------------------
(***************************************************************************)
(* The Ingestion Gateway in LOAS mode: dust readings and camera frames     *)
(* arrive on independent connections; the Correlator pairs the stored      *)
(* frames with the stored readings of their time window.                   *)
(*                                                                         *)
(* The latest reading opens or closes a gate for the frames: nothing is    *)
(* kept while the robot drives.  received_at of a reading is the clock of  *)
(* its INSERT, received_at of a frame the clock before its file is         *)
(* written; both clocks are one here.                                      *)
(*                                                                         *)
(* Abstractions: file and row of a frame are stored in one step (module    *)
(* FrameStore takes it apart); a pass of the Correlator takes no time.     *)
(***************************************************************************)
EXTENDS Integers, FiniteSets

CONSTANTS
    Reading,    \* dust XML messages: naturals, in the order they arrive
    Frame,      \* camera frames: naturals, in the order they arrive
    NoReading,  \* dust_inspection_id IS NULL
    Observing,  \* readings with a waypoint_id and a target_id, neither 0
    Ahead,      \* loas_window_before_sec
    After,      \* loas_window_after_sec
    Interval,   \* loas_correlator_interval_sec
    Lookback,   \* loas_lookback_sec
    MaxTime,    \* bound: the clock
    MaxFaults   \* bound: failures and crashes in one behaviour

ASSUME IngestAssumption ==
    /\ Reading \subseteq Nat /\ Frame \subseteq Nat /\ NoReading \notin Reading
    /\ Observing \subseteq Reading
    /\ Ahead \in Nat /\ After \in Nat
    /\ Interval \in Nat \ {0} /\ Lookback \in Nat \ {0}
    /\ MaxTime \in Nat /\ MaxFaults \in Nat

VARIABLES
    now,      \* the clock
    gate,     \* waypoint_gate.allow_save
    dstep,    \* where LoasDustHandler.on_frame is with a reading
    dustAt,   \* dust_inspection.received_at, 0 without a row
    fstep,    \* where LoasCctvHandler.on_frame is with a frame
    frameAt,  \* cctv_frame.received_at
    rowAt,    \* history: when the row of the frame was inserted
    pair,     \* cctv_frame.dust_inspection_id
    pairedAt, \* cctv_frame.paired_at
    up,       \* the process runs
    due,      \* when the Correlator ticks next
    down,     \* history: time without a process
    faults    \* failures and crashes so far

dust   == <<dstep, dustAt>>
frames == <<fstep, frameAt, rowAt>>
pairs  == <<pair, pairedAt>>
clocks == <<now, up, due, down>>
vars   == <<now, gate, dstep, dustAt, fstep, frameAt, rowAt, pair, pairedAt,
            up, due, down, faults>>

\* skipped: by the gate or the rule behind it; dropped: by a failure
HandlerStep == {"new", "saving", "stored", "skipped", "dropped"}

TypeOK ==
    /\ now \in 0..MaxTime /\ gate \in BOOLEAN
    /\ dstep \in [Reading -> HandlerStep] /\ dustAt \in [Reading -> 0..MaxTime]
    /\ fstep \in [Frame -> HandlerStep]
    /\ frameAt \in [Frame -> 0..MaxTime] /\ rowAt \in [Frame -> 0..MaxTime]
    /\ pair \in [Frame -> Reading \cup {NoReading}]
    /\ pairedAt \in [Frame -> 0..MaxTime]
    /\ \A f \in Frame : /\ pair[f] # NoReading => fstep[f] = "stored"
                        /\ fstep[f] = "stored" => frameAt[f] <= rowAt[f]
    /\ up \in BOOLEAN /\ due \in 0..(MaxTime + Interval) /\ down \in 0..MaxTime
    /\ ~ up => \A f \in Frame : fstep[f] # "saving"
    /\ faults \in 0..MaxFaults

Init ==
    /\ now = 0 /\ gate = TRUE
    /\ dstep = [d \in Reading |-> "new"] /\ dustAt = [d \in Reading |-> 0]
    /\ fstep = [f \in Frame |-> "new"]
    /\ frameAt = [f \in Frame |-> 0] /\ rowAt = [f \in Frame |-> 0]
    /\ pair = [f \in Frame |-> NoReading] /\ pairedAt = [f \in Frame |-> 0]
    /\ up = TRUE /\ due = 0 /\ down = 0
    /\ faults = 0

Fault == faults < MaxFaults /\ faults' = faults + 1

-----------------------------------------------------------------------------
(* The two handlers *)

\* Mutant: the reading of a driving robot closes the gate and is stored.
ReceiveDustAlways(d) ==
    /\ up /\ dstep[d] = "new" /\ \A e \in Reading : e < d => dstep[e] # "new"
    /\ gate' = (d \in Observing)
    /\ dstep' = [dstep EXCEPT ![d] = "saving"]
    /\ UNCHANGED <<dustAt, frames, pairs, clocks, faults>>

\* should_collect decides for the reading and for the frames that follow.
ReceiveDust(d) ==
    /\ up /\ dstep[d] = "new" /\ \A e \in Reading : e < d => dstep[e] # "new"
    /\ gate' = (d \in Observing)
    /\ dstep' = [dstep EXCEPT ![d] = IF gate' THEN "saving" ELSE "skipped"]
    /\ UNCHANGED <<dustAt, frames, pairs, clocks, faults>>

StoreDust(d) ==
    /\ dstep[d] = "saving"
    /\ dstep' = [dstep EXCEPT ![d] = "stored"]
    /\ dustAt' = [dustAt EXCEPT ![d] = now]
    /\ UNCHANGED <<gate, frames, pairs, clocks, faults>>

\* The INSERT raises; the gate stays as the reading has set it.  (An INSERT that
\* commits and loses its reply leaves what StoreDust leaves.)
DustFails(d) ==
    /\ dstep[d] = "saving" /\ Fault
    /\ dstep' = [dstep EXCEPT ![d] = "dropped"]
    /\ UNCHANGED <<gate, dustAt, frames, pairs, clocks>>

CaptureFrame(f) ==
    /\ up /\ fstep[f] = "new" /\ \A g \in Frame : g < f => fstep[g] # "new"
    /\ fstep' = [fstep EXCEPT ![f] = IF gate THEN "saving" ELSE "skipped"]
    /\ frameAt' = [frameAt EXCEPT ![f] = now]
    /\ UNCHANGED <<gate, dust, rowAt, pairs, clocks, faults>>

StoreFrame(f) ==
    /\ fstep[f] = "saving"
    /\ fstep' = [fstep EXCEPT ![f] = "stored"]
    /\ rowAt' = [rowAt EXCEPT ![f] = now]
    /\ UNCHANGED <<gate, dust, frameAt, pairs, clocks, faults>>

FrameFails(f) ==
    /\ fstep[f] = "saving" /\ Fault
    /\ fstep' = [fstep EXCEPT ![f] = "dropped"]
    /\ UNCHANGED <<gate, dust, frameAt, rowAt, pairs, clocks>>

-----------------------------------------------------------------------------
(* The Correlator *)

Stored(d) == dstep[d] = "stored"

InWindow(f, d) ==
    dustAt[d] - Ahead <= frameAt[f] /\ frameAt[f] <= dustAt[d] + After

Distance(f, d) ==
    IF frameAt[f] >= dustAt[d] THEN frameAt[f] - dustAt[d]
                               ELSE dustAt[d] - frameAt[f]

Candidates(f) == {d \in Reading : Stored(d) /\ InWindow(f, d)}

\* Frames a pass looks at.
Unpaired ==
    {f \in Frame : /\ fstep[f] = "stored" /\ pair[f] = NoReading
                   /\ frameAt[f] > now - Lookback}

\* Mutant: DISTINCT ON without ORDER BY the distance.
IsAny(d, f) == d \in Candidates(f)

\* ORDER BY the distance in time; a tie is broken arbitrarily.
IsNearest(d, f) ==
    /\ d \in Candidates(f)
    /\ \A e \in Candidates(f) : Distance(f, d) <= Distance(f, e)

\* One UPDATE pairs them all.
Tick ==
    /\ up /\ now = due
    /\ LET F == {f \in Unpaired : Candidates(f) # {}}
       IN \E p \in [F -> Reading] :
            /\ \A f \in F : IsNearest(p[f], f)
            /\ pair' = [f \in Frame |-> IF f \in F THEN p[f] ELSE pair[f]]
            /\ pairedAt' = [f \in Frame |-> IF f \in F THEN now ELSE pairedAt[f]]
    /\ due' = now + Interval
    /\ UNCHANGED <<now, gate, dust, frames, up, down, faults>>

\* Mutant: a failed tick doubles the interval.
TickFailsBackOff ==
    /\ up /\ now = due /\ Fault
    /\ due' = now + 2 * Interval
    /\ UNCHANGED <<now, gate, dust, frames, pairs, up, down>>

TickFails ==
    /\ up /\ now = due /\ Fault
    /\ due' = now + Interval
    /\ UNCHANGED <<now, gate, dust, frames, pairs, up, down>>

-----------------------------------------------------------------------------
(* Time and the process *)

\* A tick that is due is not put off.
Advance ==
    /\ now < MaxTime
    /\ up => now < due
    /\ now' = now + 1
    /\ down' = IF up THEN down ELSE down + 1
    /\ UNCHANGED <<gate, dust, frames, pairs, up, due, faults>>

\* A listener or the Correlator dies, or the process is killed.
Crash ==
    /\ up /\ Fault
    /\ up' = FALSE
    /\ dstep' = [d \in Reading |-> IF dstep[d] = "saving" THEN "dropped" ELSE dstep[d]]
    /\ fstep' = [f \in Frame |-> IF fstep[f] = "saving" THEN "dropped" ELSE fstep[f]]
    /\ UNCHANGED <<now, gate, dustAt, frameAt, rowAt, pairs, due, down>>

\* The gate is open again and the Correlator ticks at once.
Restart ==
    /\ ~ up
    /\ up' = TRUE /\ gate' = TRUE /\ due' = now
    /\ UNCHANGED <<now, dust, frames, pairs, down, faults>>

Next ==
    \/ \E d \in Reading : ReceiveDust(d) \/ StoreDust(d) \/ DustFails(d)
    \/ \E f \in Frame : CaptureFrame(f) \/ StoreFrame(f) \/ FrameFails(f)
    \/ Tick \/ TickFails \/ Advance \/ Crash \/ Restart

Spec == Init /\ [][Next]_vars

-----------------------------------------------------------------------------
(* Properties *)

Later(a, b) == IF a >= b THEN a ELSE b

\* One interval after both are stored, one more for every failure, and the time
\* without a process.
Deadline(f, d) == Later(rowAt[f], dustAt[d]) + Interval * (1 + faults) + down

Unmatched(f, d) ==
    fstep[f] = "stored" /\ Stored(d) /\ InWindow(f, d) /\ pair[f] = NoReading

\* A frame and a reading of its window are paired by their deadline; only frames
\* that are older than the lookback by then may stay unpaired (_PAIR_SQL,
\* FrameCorrelator.run).
PairedInTime ==
    \A f \in Frame, d \in Reading :
        Unmatched(f, d) =>
            now <= Deadline(f, d) \/ Deadline(f, d) >= frameAt[f] + Lookback

\* When a frame was paired, no reading stored before was nearer: failed ticks and
\* restarts do not spoil the choice (DISTINCT ON ... ORDER BY the distance).
NearestSoFar ==
    \A f \in Frame, e \in Reading :
        pair[f] # NoReading /\ Stored(e) /\ dustAt[e] < pairedAt[f] /\ InWindow(f, e)
            => /\ InWindow(f, pair[f])
               /\ Distance(f, pair[f]) <= Distance(f, e)

\* No frame reaches the transfer queue with a reading of a driving robot
\* (should_collect decides before the INSERT, on which the queue's waypoint_id
\* and target_id rest).
PairsAreObservations ==
    \A f \in Frame : pair[f] # NoReading => pair[f] \in Observing
=============================================================================
