---------------------------- MODULE DecisionAgent ----------------------------
(***************************************************************************)
(* The Decision Agent: decision_record rows whose three channels have      *)
(* arrived are judged by the truth table alarm_mapping, read through the   *)
(* assignment role_mapping of detection roles to components.               *)
(*                                                                         *)
(* One process holds a cache of each table beside the polling loop and the *)
(* administration API.  Every reload is a SELECT whose reply is applied    *)
(* later: requests, the periodic refresh and the loop interleave at every  *)
(* await.                                                                  *)
(*                                                                         *)
(* Abstractions: the mapping_id kept with a decision and the timestamps    *)
(* are left out, but for the order of observation_timestamp; the producer  *)
(* writes the three channels at once and only "normal" or "abnormal".      *)
(***************************************************************************)
EXTENDS Integers, FiniteSets

CONSTANTS
    Record,      \* decision_record.id: naturals, by observation_timestamp
    ResultOf,    \* the channel results of a record, by component
    NotSeeded,   \* keys without a row in alarm_mapping
    Request,     \* administration requests that may be in flight together
    RoleEdits,   \* <<role, component>> an administrator may assign
    AlarmEdits,  \* <<key, level>> an administrator may set
    Forced,      \* levels an administrator may force
    BatchSize,   \* DA_BATCH_SIZE
    MaxEdits,    \* bound: edits of the two tables in one behaviour
    MaxFaults    \* bound: failures and crashes in one behaviour

Component == {"anomaly_detection", "object_detection", "sensor_analysis"}
Role      == {"iot_sensor", "static_dust", "dynamic_dust"}
Result    == {"normal", "abnormal"}
Level     == {"normal", "caution", "warning", "danger"}
Key       == [Role -> Result]

\* _VALID_DECISION_LEVELS
ForceLevel == {"normal", "caution", "warning"}

ASSUME AgentAssumption ==
    /\ Record \subseteq Nat
    /\ ResultOf \in [Record -> [Component -> Result]]
    /\ NotSeeded \subseteq Key
    /\ RoleEdits \subseteq Role \X Component
    /\ AlarmEdits \subseteq (Key \ NotSeeded) \X Level
    /\ Forced \subseteq ForceLevel
    /\ BatchSize \in Nat \ {0} /\ MaxEdits \in Nat /\ MaxFaults \in Nat

\* The refresh loop of the RoleResolver reloads like a request does.
Refresher == "refresh loop"
Loader == Request \cup {Refresher}

\* The rows of seed_mapping.sql.
SeedRoles ==
    [r \in Role |-> CASE r = "static_dust"  -> "anomaly_detection"
                      [] r = "dynamic_dust" -> "object_detection"
                      [] r = "iot_sensor"   -> "sensor_analysis"]

SeedAlarm ==
    [k \in Key \ NotSeeded |->
        LET vision == k["static_dust"] = "abnormal" \/ k["dynamic_dust"] = "abnormal"
        IN IF k["iot_sensor"] = "normal"
           THEN IF vision THEN "caution" ELSE "normal"
           ELSE IF vision THEN "danger" ELSE "warning"]

RoleMaps    == [Role -> Component]
AlarmTables == [Key \ NotSeeded -> Level]

VARIABLES
    arrived,    \* records PoolerTran has inserted
    final,      \* decision_record.final_decision
    byAgent,    \* history: records decided by mark_decided
    roleMap,    \* role_mapping
    alarm,      \* alarm_mapping
    roleLog,    \* history: every value role_mapping has had
    alarmLog,   \* history: every value alarm_mapping has had
    roleCache,  \* RoleResolver._role_to_component
    alarmCache, \* Judge._table
    step,       \* where each loader is
    reply,      \* the rows its SELECT has returned
    pc,         \* where the polling loop is
    todo,       \* fetched records the tick has not looked at
    roles,      \* role_columns of the tick
    verdict,    \* the level judge returned for the record being marked
    edits,      \* edits so far
    faults      \* failures and crashes so far

tables == <<roleMap, alarm, roleLog, alarmLog, edits>>
caches == <<roleCache, alarmCache>>
loads  == <<step, reply>>
poller == <<pc, todo, roles, verdict>>
vars   == <<arrived, final, byAgent, tables, caches, loads, poller, faults>>

\* role, alarm: before the SELECT of that table; the same with "ed": before
\* its reply is applied.
Step == {"idle", "role", "alarm", "roleRead", "alarmRead"}

TypeOK ==
    /\ arrived \in SUBSET Record /\ byAgent \in SUBSET Record
    /\ final \in [Record -> Level \cup {"pending"}]
    /\ roleMap \in RoleMaps /\ roleLog \in SUBSET RoleMaps
    /\ alarm \in AlarmTables /\ alarmLog \in SUBSET AlarmTables
    /\ roleCache \in RoleMaps /\ alarmCache \in AlarmTables
    /\ step \in [Loader -> Step]
    /\ reply \in [Loader -> RoleMaps \cup AlarmTables \cup {<<>>}]
    /\ pc \in {"idle", "tick", "mark", "down"}
    /\ todo \in SUBSET Record
    /\ roles \in RoleMaps
    /\ verdict \in Level \cup {"pending"}
    /\ edits \in 0..MaxEdits /\ faults \in 0..MaxFaults

Init ==
    /\ arrived = {} /\ byAgent = {}
    /\ final = [r \in Record |-> "pending"]
    /\ roleMap = SeedRoles /\ roleLog = {SeedRoles}
    /\ alarm = SeedAlarm /\ alarmLog = {SeedAlarm}
    /\ roleCache = SeedRoles /\ alarmCache = SeedAlarm
    /\ step = [q \in Loader |-> "idle"]
    /\ reply = [q \in Loader |-> <<>>]
    /\ pc = "idle" /\ todo = {}
    /\ roles = SeedRoles /\ verdict = "pending"
    /\ edits = 0 /\ faults = 0

Fault == faults < MaxFaults /\ faults' = faults + 1

KeyOf(r, m) == [x \in Role |-> ResultOf[r][m[x]]]

-----------------------------------------------------------------------------
(* The administration API and the refresh loop *)

Up == pc # "down"

\* PATCH role-mapping: the UPDATE commits, then the cache is reloaded.
PatchRole(q, role, component) ==
    /\ Up /\ step[q] = "idle" /\ edits < MaxEdits
    /\ roleMap' = [roleMap EXCEPT ![role] = component]
    /\ roleLog' = roleLog \cup {roleMap'}
    /\ edits' = edits + 1
    /\ step' = [step EXCEPT ![q] = "role"]
    /\ UNCHANGED <<arrived, final, byAgent, alarm, alarmLog, caches, reply,
                   poller, faults>>

\* PATCH alarm-mapping.
PatchAlarm(q, key, level) ==
    /\ Up /\ step[q] = "idle" /\ edits < MaxEdits
    /\ alarm' = [alarm EXCEPT ![key] = level]
    /\ alarmLog' = alarmLog \cup {alarm'}
    /\ edits' = edits + 1
    /\ step' = [step EXCEPT ![q] = "alarm"]
    /\ UNCHANGED <<arrived, final, byAgent, roleMap, roleLog, caches, reply,
                   poller, faults>>

\* Mutant: the refresh loop is never started.
ReloadByButton(q) ==
    /\ Up /\ step[q] = "idle" /\ q # Refresher
    /\ \E t \in {"role", "alarm"} : step' = [step EXCEPT ![q] = t]
    /\ UNCHANGED <<arrived, final, byAgent, tables, caches, reply, poller, faults>>

\* The two reload buttons, and the refresh loop waking up.
Reload(q) ==
    /\ Up /\ step[q] = "idle"
    /\ \E t \in IF q = Refresher THEN {"role"} ELSE {"role", "alarm"} :
          step' = [step EXCEPT ![q] = t]
    /\ UNCHANGED <<arrived, final, byAgent, tables, caches, reply, poller, faults>>

\* The SELECT sees the table as it is now; its reply is on the way.
ReadTable(q) ==
    /\ step[q] \in {"role", "alarm"}
    /\ reply' = [reply EXCEPT ![q] = IF step[q] = "role" THEN roleMap ELSE alarm]
    /\ step' = [step EXCEPT ![q] = IF @ = "role" THEN "roleRead" ELSE "alarmRead"]
    /\ UNCHANGED <<arrived, final, byAgent, tables, caches, poller, faults>>

\* The coroutine resumes and replaces the whole cache.
ApplyReply(q) ==
    /\ step[q] \in {"roleRead", "alarmRead"}
    /\ IF step[q] = "roleRead"
       THEN roleCache' = reply[q] /\ UNCHANGED alarmCache
       ELSE alarmCache' = reply[q] /\ UNCHANGED roleCache
    /\ step' = [step EXCEPT ![q] = "idle"]
    /\ reply' = [reply EXCEPT ![q] = <<>>]
    /\ UNCHANGED <<arrived, final, byAgent, tables, poller, faults>>

\* The reload raises: the request ends with an error, the loop logs it.
ReloadFails(q) ==
    /\ step[q] # "idle" /\ Fault
    /\ step' = [step EXCEPT ![q] = "idle"]
    /\ reply' = [reply EXCEPT ![q] = <<>>]
    /\ UNCHANGED <<arrived, final, byAgent, tables, caches, poller>>

\* POST force: only a pending record is updated, any other answers 409.
ForceDecide(r, level) ==
    /\ Up /\ r \in arrived /\ final[r] = "pending"
    /\ final' = [final EXCEPT ![r] = level]
    /\ UNCHANGED <<arrived, byAgent, tables, caches, loads, poller, faults>>

\* insert_decision of PoolerTran.
Arrive(r) ==
    /\ r \notin arrived
    /\ arrived' = arrived \cup {r}
    /\ UNCHANGED <<final, byAgent, tables, caches, loads, poller, faults>>

-----------------------------------------------------------------------------
(* The polling loop *)

Pending == {r \in arrived : final[r] = "pending"}

\* fetch_pending, then the snapshot of the role mapping for the whole tick.
FetchPending ==
    /\ pc = "idle"
    /\ \E R \in SUBSET Pending :
          /\ R # {}
          /\ \A r \in R, s \in Pending \ R : r < s
          /\ Cardinality(R) <= BatchSize
          /\ R # Pending => Cardinality(R) = BatchSize
          /\ todo' = R
    /\ roles' = roleCache
    /\ pc' = "tick"
    /\ UNCHANGED <<arrived, final, byAgent, tables, caches, loads, verdict, faults>>

IsNext(r) == r \in todo /\ \A s \in todo : r <= s

EndOfTick ==
    /\ pc = "tick" /\ todo = {}
    /\ pc' = "idle"
    /\ UNCHANGED <<arrived, final, byAgent, tables, caches, loads, todo, roles,
                   verdict, faults>>

\* Mutant: a lookup miss ends the tick instead of skipping the record.
LookupMissEndsTick(r) ==
    /\ pc = "tick" /\ IsNext(r)
    /\ KeyOf(r, roles) \notin DOMAIN alarmCache
    /\ todo' = {}
    /\ UNCHANGED <<arrived, final, byAgent, tables, caches, loads, pc, roles,
                   verdict, faults>>

\* Mutant: a lookup miss counts as normal.
LookupMissIsNormal(r) ==
    /\ pc = "tick" /\ IsNext(r)
    /\ KeyOf(r, roles) \notin DOMAIN alarmCache
    /\ verdict' = "normal"
    /\ pc' = "mark"
    /\ UNCHANGED <<arrived, final, byAgent, tables, caches, loads, todo, roles,
                   faults>>

\* JudgeLookupError: the record stays pending.
LookupMiss(r) ==
    /\ pc = "tick" /\ IsNext(r)
    /\ KeyOf(r, roles) \notin DOMAIN alarmCache
    /\ todo' = todo \ {r}
    /\ UNCHANGED <<arrived, final, byAgent, tables, caches, loads, pc, roles,
                   verdict, faults>>

\* judge reads the cache; mark_decided is awaited.
JudgeRecord(r) ==
    /\ pc = "tick" /\ IsNext(r)
    /\ KeyOf(r, roles) \in DOMAIN alarmCache
    /\ verdict' = alarmCache[KeyOf(r, roles)]
    /\ pc' = "mark"
    /\ UNCHANGED <<arrived, final, byAgent, tables, caches, loads, todo, roles,
                   faults>>

\* Mutant: the UPDATE has no guard on final_decision.
UpdateAlways(r) ==
    /\ final' = [final EXCEPT ![r] = verdict]
    /\ byAgent' = byAgent \cup {r}

\* UPDATE ... WHERE id = r AND final_decision = 'pending'
UpdateIfPending(r) ==
    IF final[r] = "pending"
    THEN /\ final' = [final EXCEPT ![r] = verdict]
         /\ byAgent' = byAgent \cup {r}
    ELSE UNCHANGED <<final, byAgent>>

MarkDecided(r) ==
    /\ pc = "mark" /\ IsNext(r)
    /\ UpdateIfPending(r)
    /\ todo' = todo \ {r}
    /\ verdict' = "pending"
    /\ pc' = "tick"
    /\ UNCHANGED <<arrived, tables, caches, loads, roles, faults>>

\* A statement raises and the tick ends; the UPDATE may have committed.
TickFails ==
    /\ pc \in {"idle", "mark"} /\ Fault
    /\ \/ UNCHANGED <<final, byAgent>>
       \/ \E r \in Record : pc = "mark" /\ IsNext(r) /\ UpdateIfPending(r)
    /\ pc' = "idle" /\ todo' = {} /\ verdict' = "pending"
    /\ UNCHANGED <<arrived, tables, caches, loads, roles>>

\* The process ends, and with it every request in flight.
Crash ==
    /\ Up /\ Fault
    /\ pc' = "down" /\ todo' = {} /\ verdict' = "pending"
    /\ step' = [q \in Loader |-> "idle"]
    /\ reply' = [q \in Loader |-> <<>>]
    /\ UNCHANGED <<arrived, final, byAgent, tables, caches, roles>>

\* main.run loads both tables before the loop and the API start.
Restart ==
    /\ pc = "down"
    /\ roleCache' = roleMap /\ alarmCache' = alarm
    /\ pc' = "idle"
    /\ UNCHANGED <<arrived, final, byAgent, tables, loads, todo, roles, verdict,
                   faults>>

-----------------------------------------------------------------------------
PollerStep ==
    \/ FetchPending \/ EndOfTick
    \/ \E r \in Record : LookupMiss(r) \/ JudgeRecord(r) \/ MarkDecided(r)

AdminStep ==
    \/ \E q \in Request :
          \/ \E e \in RoleEdits : PatchRole(q, e[1], e[2])
          \/ \E e \in AlarmEdits : PatchAlarm(q, e[1], e[2])
          \/ Reload(q)
    \/ \E r \in Record, l \in Forced : ForceDecide(r, l)

LoadStep(q) == ReadTable(q) \/ ApplyReply(q)

Next ==
    \/ PollerStep \/ AdminStep \/ Reload(Refresher) \/ TickFails \/ Crash \/ Restart
    \/ \E q \in Loader : LoadStep(q) \/ ReloadFails(q)
    \/ \E r \in Record : Arrive(r)

Spec == Init /\ [][Next]_vars

\* The loop, the refresh loop and the requests in flight make progress, the
\* container is restarted; nobody has to edit, press, force or fail.
Fairness ==
    /\ WF_vars(PollerStep) /\ WF_vars(Restart)
    /\ WF_vars(Reload(Refresher))
    /\ \A q \in Loader : WF_vars(LoadStep(q))

FairSpec == Spec /\ Fairness

-----------------------------------------------------------------------------
(* Properties *)

\* A decision is made once: whoever commits first, the loop or an administrator,
\* the other changes nothing (mark_decided, force_decide).
DecidedOnce ==
    [][\A r \in Record : final[r] # "pending" => final'[r] = final[r]]_vars

\* A decision of the agent follows one version of the truth table and one version
\* of the role mapping that existed: no reload shows through half-way
\* (Judge.load, RoleResolver.refresh, the role snapshot of _tick).
JudgedByOneVersion ==
    \A r \in byAgent :
        \E m \in roleLog, t \in alarmLog :
            KeyOf(r, m) \in DOMAIN t /\ final[r] = t[KeyOf(r, m)]

\* The cached role mapping catches up with the table once the edits are over, in
\* whatever order the replies came (the refresh loop).
RoleCacheConverges == <>[](pc = "down" \/ roleCache = roleMap)

Undecidable(r) == \E m \in roleLog : KeyOf(r, m) \in NotSeeded

\* A record that arrived is decided, unless it or a whole batch of older ones has
\* no row in the truth table (_tick skips a record it cannot judge).
EventuallyDecided ==
    \A r \in Record :
        (r \in arrived) ~>
            \/ final[r] # "pending"
            \/ Undecidable(r)
            \/ Cardinality({s \in Record : s < r /\ Undecidable(s)}) >= BatchSize
=============================================================================
