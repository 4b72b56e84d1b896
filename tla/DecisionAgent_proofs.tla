------------------------ MODULE DecisionAgent_proofs ------------------------
(* Proofs about DecisionAgent: type correctness, one decision per record,   *)
(* and the versions of the two tables a decision follows.                   *)
EXTENDS DecisionAgent, TLAPS

\* Whatever the process holds of a table is a version the table has had.
VersionsOK ==
    /\ roleMap \in roleLog /\ roleCache \in roleLog
    /\ alarm \in alarmLog /\ alarmCache \in alarmLog
    /\ pc \in {"tick", "mark"} => roles \in roleLog

\* So is a reply that is on its way.
RepliesOK ==
    \A q \in Loader :
        /\ step[q] = "roleRead" => reply[q] \in roleLog
        /\ step[q] = "alarmRead" => reply[q] \in alarmLog

Follows(level, r, m) ==
    \E t \in alarmLog : KeyOf(r, m) \in DOMAIN t /\ level = t[KeyOf(r, m)]

\* The verdict awaiting its UPDATE was looked up for the record it is for.
VerdictOK ==
    pc = "mark" => \A r \in Record : IsNext(r) => Follows(verdict, r, roles)

IInv == TypeOK /\ VersionsOK /\ RepliesOK /\ VerdictOK /\ JudgedByOneVersion

USE DEF tables, caches, loads, poller, Fault

\* The rows of seed_mapping.sql are well typed.
LEMMA SeedTypes == SeedRoles \in RoleMaps /\ SeedAlarm \in AlarmTables
<1>1. SeedRoles \in RoleMaps
      BY DEF SeedRoles, RoleMaps, Role, Component
<1>2. SeedAlarm \in AlarmTables
      BY DEF SeedAlarm, AlarmTables, Level
<1> QED BY <1>1, <1>2

\* The initial state satisfies the invariant.
LEMMA InitIInv == Init => IInv
<1> SUFFICES ASSUME Init PROVE IInv
    OBVIOUS
<1> USE AgentAssumption, SeedTypes DEF Init
<1>1. TypeOK BY DEF TypeOK, Step
<1>2. VersionsOK /\ RepliesOK /\ VerdictOK /\ JudgedByOneVersion
      BY DEF VersionsOK, RepliesOK, VerdictOK, JudgedByOneVersion
<1> QED BY <1>1, <1>2 DEF IInv

\* Only the next record of the tick is judged or marked, and there is one.
LEMMA OneNext ==
    ASSUME TypeOK, NEW r \in Record, NEW s \in Record, IsNext(r), IsNext(s)
    PROVE  r = s
<1>1. r \in Nat /\ s \in Nat /\ r <= s /\ s <= r
      BY AgentAssumption DEF IsNext
<1> QED BY <1>1

\* Every step of the administration keeps the types.
LEMMA AdminTypes ==
    ASSUME IInv,
           \/ \E q \in Request : \/ \E e \in RoleEdits : PatchRole(q, e[1], e[2])
                                 \/ \E e \in AlarmEdits : PatchAlarm(q, e[1], e[2])
           \/ \E q \in Loader : Reload(q) \/ LoadStep(q) \/ ReloadFails(q)
           \/ \E r \in Record, l \in Forced : ForceDecide(r, l)
    PROVE  TypeOK'
<1> USE AgentAssumption DEF IInv, TypeOK, Step
<1>1. ASSUME NEW q \in Request, NEW e \in RoleEdits, PatchRole(q, e[1], e[2])
      PROVE  TypeOK'
      BY <1>1 DEF PatchRole, RoleMaps, Loader
<1>2. ASSUME NEW q \in Request, NEW e \in AlarmEdits, PatchAlarm(q, e[1], e[2])
      PROVE  TypeOK'
  <2>1. e[1] \in Key \ NotSeeded /\ e[2] \in Level
        BY <1>2
  <2>2. alarm' \in AlarmTables
        BY <1>2, <2>1 DEF PatchAlarm, AlarmTables
  <2>3. alarmLog' \in SUBSET AlarmTables
        BY <1>2, <2>2 DEF PatchAlarm
  <2>4. step' \in [Loader -> Step] /\ edits' \in 0..MaxEdits
        BY <1>2 DEF PatchAlarm, Loader
  <2> QED BY <1>2, <2>2, <2>3, <2>4 DEF PatchAlarm
<1>3. ASSUME NEW q \in Loader, Reload(q) PROVE TypeOK'
      BY <1>3 DEF Reload
<1>4. ASSUME NEW q \in Loader, ReadTable(q) PROVE TypeOK'
      BY <1>4 DEF ReadTable
<1>5. ASSUME NEW q \in Loader, ApplyReply(q) PROVE TypeOK'
      BY <1>5 DEF ApplyReply, RepliesOK
<1>6. ASSUME NEW q \in Loader, ReloadFails(q) PROVE TypeOK'
      BY <1>6 DEF ReloadFails
<1>7. ASSUME NEW r \in Record, NEW l \in Forced, ForceDecide(r, l) PROVE TypeOK'
      BY <1>7 DEF ForceDecide, ForceLevel, Level
<1> QED BY <1>1, <1>2, <1>3, <1>4, <1>5, <1>6, <1>7 DEF LoadStep

\* A lookup in the cached table gives a level.
LEMMA LookupLevel ==
    ASSUME TypeOK, NEW k \in DOMAIN alarmCache PROVE alarmCache[k] \in Level
BY DEF TypeOK, AlarmTables

\* Every step of the loop and of the process keeps the types.
LEMMA LoopTypes ==
    ASSUME IInv,
           \/ PollerStep \/ TickFails \/ Crash \/ Restart
           \/ \E r \in Record : Arrive(r)
    PROVE  TypeOK'
<1> USE AgentAssumption DEF IInv, TypeOK, Step
<1>1. CASE FetchPending
      BY <1>1 DEF FetchPending, Pending
<1>2. CASE EndOfTick BY <1>2 DEF EndOfTick
<1>3. ASSUME NEW r \in Record, LookupMiss(r) PROVE TypeOK'
      BY <1>3 DEF LookupMiss
<1>4. ASSUME NEW r \in Record, JudgeRecord(r) PROVE TypeOK'
      BY <1>4, LookupLevel DEF JudgeRecord
<1>5. ASSUME NEW r \in Record, MarkDecided(r) PROVE TypeOK'
      BY <1>5 DEF MarkDecided, UpdateIfPending
<1>6. CASE TickFails
  <2>1. final' \in [Record -> Level \cup {"pending"}] /\ byAgent' \in SUBSET Record
        BY <1>6 DEF TickFails, UpdateIfPending
  <2>2. faults' \in 0..MaxFaults
        BY <1>6 DEF TickFails
  <2> QED BY <1>6, <2>1, <2>2 DEF TickFails
<1>7. CASE Crash BY <1>7 DEF Crash
<1>8. CASE Restart BY <1>8 DEF Restart
<1>9. ASSUME NEW r \in Record, Arrive(r) PROVE TypeOK'
      BY <1>9 DEF Arrive
<1> QED BY <1>1, <1>2, <1>3, <1>4, <1>5, <1>6, <1>7, <1>8, <1>9 DEF PollerStep

\* Every step, whoever takes it, keeps the types.
LEMMA NextTypes == ASSUME IInv, [Next]_vars PROVE TypeOK'
<1>1. CASE UNCHANGED vars BY <1>1 DEF vars, IInv, TypeOK
<1>2. CASE Next
      BY <1>2, AdminTypes, LoopTypes DEF Next, AdminStep, Loader
<1> QED BY <1>1, <1>2

\* The tables' versions only grow, the keys of the table never change.
LEMMA LogsGrow ==
    ASSUME IInv, [Next]_vars
    PROVE  roleLog \subseteq roleLog' /\ alarmLog \subseteq alarmLog'
<1> USE DEF Next, PollerStep, AdminStep, LoadStep
<1> QED BY DEF vars, PatchRole, PatchAlarm, Reload, ReadTable, ApplyReply, ReloadFails,
    ForceDecide, Arrive, FetchPending, EndOfTick, LookupMiss, JudgeRecord, MarkDecided,
    TickFails, Crash, Restart

-----------------------------------------------------------------------------
(* One decision *)

\* Only a pending decision changes.
LEMMA FinalKept ==
    ASSUME TypeOK, [Next]_vars, NEW r \in Record, final[r] # "pending"
    PROVE  final'[r] = final[r]
<1> USE DEF TypeOK, Next, PollerStep, AdminStep, LoadStep
<1>1. ASSUME NEW s \in Record, NEW l \in Forced, ForceDecide(s, l)
      PROVE  final'[r] = final[r]
      BY <1>1 DEF ForceDecide
<1>2. ASSUME NEW s \in Record, UpdateIfPending(s) PROVE final'[r] = final[r]
      BY <1>2 DEF UpdateIfPending
<1>3. CASE TickFails BY <1>2, <1>3 DEF TickFails
<1>4. CASE \E s \in Record : MarkDecided(s) BY <1>2, <1>4 DEF MarkDecided
<1> QED BY <1>1, <1>3, <1>4 DEF vars, PatchRole, PatchAlarm, Reload, ReadTable,
    ApplyReply, ReloadFails, Arrive, FetchPending, EndOfTick, LookupMiss, JudgeRecord,
    Crash, Restart

\* The agent's decisions grow by the record it marks, if that is still pending.
LEMMA NewlyDecided ==
    ASSUME TypeOK, [Next]_vars, NEW r \in byAgent', r \notin byAgent
    PROVE  /\ pc = "mark" /\ IsNext(r) /\ r \in Record
           /\ final'[r] = verdict
<1> USE DEF TypeOK, Next, PollerStep, AdminStep, LoadStep
<1>1. ASSUME NEW s \in Record, pc = "mark", IsNext(s), UpdateIfPending(s)
      PROVE  pc = "mark" /\ IsNext(r) /\ r \in Record /\ final'[r] = verdict
      BY <1>1 DEF UpdateIfPending
<1>2. CASE TickFails BY <1>1, <1>2 DEF TickFails
<1>3. CASE \E s \in Record : MarkDecided(s) BY <1>1, <1>3 DEF MarkDecided
<1> QED BY <1>2, <1>3 DEF vars, PatchRole, PatchAlarm, Reload, ReadTable,
    ApplyReply, ReloadFails, ForceDecide, Arrive, FetchPending, EndOfTick, LookupMiss,
    JudgeRecord, Crash, Restart

\* A level that follows the tables still follows them when they have more versions.
LEMMA FollowsKept ==
    ASSUME IInv, [Next]_vars, NEW level, NEW r, NEW m, Follows(level, r, m)
    PROVE  \E t \in alarmLog' : KeyOf(r, m) \in DOMAIN t /\ level = t[KeyOf(r, m)]
BY LogsGrow DEF Follows

\* What the agent has decided is not pending any more.
LEMMA DecidedNotPending ==
    ASSUME IInv, NEW r \in byAgent PROVE r \in Record /\ final[r] # "pending"
<1>1. PICK m \in roleLog, t \in alarmLog :
           KeyOf(r, m) \in DOMAIN t /\ final[r] = t[KeyOf(r, m)]
      BY DEF IInv, JudgedByOneVersion
<1>2. t \in AlarmTables
      BY DEF IInv, TypeOK
<1>3. t[KeyOf(r, m)] \in Level
      BY <1>1, <1>2 DEF AlarmTables
<1> QED BY <1>1, <1>3 DEF IInv, TypeOK, Level

\* Every decision of the agent keeps following one version of each table.
LEMMA NextJudged == ASSUME IInv, [Next]_vars PROVE JudgedByOneVersion'
<1> SUFFICES ASSUME NEW r \in byAgent'
             PROVE  \E m \in roleLog', t \in alarmLog' :
                        KeyOf(r, m) \in DOMAIN t /\ final'[r] = t[KeyOf(r, m)]
    BY DEF JudgedByOneVersion, KeyOf
<1> USE LogsGrow
<1>1. CASE r \in byAgent
  <2>1. PICK m \in roleLog : Follows(final[r], r, m)
        BY <1>1 DEF IInv, JudgedByOneVersion, Follows
  <2>2. final'[r] = final[r]
        BY <1>1, FinalKept, DecidedNotPending DEF IInv
  <2> QED BY <2>1, <2>2, FollowsKept
<1>2. CASE r \notin byAgent
  <2>1. pc = "mark" /\ IsNext(r) /\ r \in Record /\ final'[r] = verdict
        BY <1>2, NewlyDecided DEF IInv
  <2>2. Follows(verdict, r, roles) /\ roles \in roleLog
        BY <2>1 DEF IInv, VerdictOK, VersionsOK
  <2> QED BY <2>1, <2>2, FollowsKept
<1> QED BY <1>1, <1>2

-----------------------------------------------------------------------------
(* Versions *)

\* A request, a reply or a restart installs only versions that exist.
LEMMA NextVersions == ASSUME IInv, [Next]_vars PROVE VersionsOK'
<1> USE DEF IInv, TypeOK, VersionsOK, Step
<1>1. ASSUME NEW q \in Loader, ApplyReply(q) PROVE VersionsOK'
      BY <1>1 DEF ApplyReply, RepliesOK
<1>2. ASSUME NEW q \in Request, NEW e \in RoleEdits, PatchRole(q, e[1], e[2])
      PROVE  VersionsOK'
      BY <1>2 DEF PatchRole
<1>3. ASSUME NEW q \in Request, NEW e \in AlarmEdits, PatchAlarm(q, e[1], e[2])
      PROVE  VersionsOK'
      BY <1>3 DEF PatchAlarm
<1>4. CASE PollerStep
      BY <1>4 DEF PollerStep, FetchPending, EndOfTick, LookupMiss, JudgeRecord, MarkDecided
<1>5. CASE TickFails \/ Crash \/ Restart
      BY <1>5 DEF TickFails, Crash, Restart
<1> QED BY <1>1, <1>2, <1>3, <1>4, <1>5 DEF Next, AdminStep, LoadStep, vars, Reload,
    ReadTable, ReloadFails, ForceDecide, Arrive

\* A reply on its way stays a version the table has had.
LEMMA NextReplies == ASSUME IInv, [Next]_vars PROVE RepliesOK'
<1> USE DEF IInv, TypeOK, RepliesOK, Step
<1>1. ASSUME NEW q \in Loader, ReadTable(q) PROVE RepliesOK'
      BY <1>1 DEF ReadTable, VersionsOK
<1>2. ASSUME NEW q \in Loader, ApplyReply(q) \/ ReloadFails(q) \/ Reload(q)
      PROVE  RepliesOK'
      BY <1>2 DEF ApplyReply, ReloadFails, Reload
<1>3. ASSUME NEW q \in Request, NEW e \in RoleEdits, PatchRole(q, e[1], e[2])
      PROVE  RepliesOK'
      BY <1>3 DEF PatchRole, Loader
<1>4. ASSUME NEW q \in Request, NEW e \in AlarmEdits, PatchAlarm(q, e[1], e[2])
      PROVE  RepliesOK'
      BY <1>4 DEF PatchAlarm, Loader
<1>5. CASE PollerStep
      BY <1>5 DEF PollerStep, FetchPending, EndOfTick, LookupMiss, JudgeRecord, MarkDecided
<1>6. CASE TickFails \/ Crash \/ Restart
      BY <1>6 DEF TickFails, Crash, Restart
<1> QED BY <1>1, <1>2, <1>3, <1>4, <1>5, <1>6 DEF Next, AdminStep, LoadStep, vars,
    Loader, ForceDecide, Arrive

\* The verdict stays the one looked up for the record the tick is at.
LEMMA NextVerdict == ASSUME IInv, [Next]_vars PROVE VerdictOK'
<1> SUFFICES ASSUME pc' = "mark", NEW r \in Record, IsNext(r)'
             PROVE  \E t \in alarmLog' :
                        KeyOf(r, roles') \in DOMAIN t /\ verdict' = t[KeyOf(r, roles')]
    BY DEF VerdictOK, Follows, KeyOf
<1>1. ASSUME NEW s \in Record, JudgeRecord(s)
      PROVE  Follows(verdict', r, roles) /\ roles' = roles
  <2>1. r = s
        BY <1>1, OneNext DEF JudgeRecord, IsNext, IInv
  <2> QED BY <1>1, <2>1 DEF JudgeRecord, Follows, IInv, VersionsOK
<1>2. CASE UNCHANGED <<pc, todo, roles, verdict>>
  <2>1. Follows(verdict, r, roles)
        BY <1>2 DEF IInv, VerdictOK, IsNext
  <2> QED BY <1>2, <2>1, FollowsKept
<1>3. CASE \E s \in Record : JudgeRecord(s)
      BY <1>1, <1>3, LogsGrow DEF Follows
<1> QED BY <1>2, <1>3 DEF Next, PollerStep, AdminStep, LoadStep, vars, PatchRole,
    PatchAlarm, Reload, ReadTable, ApplyReply, ReloadFails, ForceDecide, Arrive,
    FetchPending, EndOfTick, LookupMiss, MarkDecided, TickFails, Crash, Restart

-----------------------------------------------------------------------------
(* Theorems *)

\* The invariant: caches, replies and the tick's snapshot hold versions of the tables,
\* so does every decision of the agent.
THEOREM Inductive == Spec => []IInv
<1>1. IInv /\ [Next]_vars => IInv'
      BY NextTypes, NextVersions, NextReplies, NextVerdict, NextJudged DEF IInv
<1> QED BY <1>1, InitIInv, PTL DEF Spec

\* Every reachable state of the agent is well typed.
THEOREM TypeCorrect == Spec => []TypeOK
<1>1. IInv => TypeOK BY DEF IInv
<1> QED BY <1>1, Inductive, PTL

\* No decision of the agent mixes two versions of a table, whatever reloads, edits
\* and forced decisions interleave with its tick (Poller._tick, Judge.judge).
THEOREM OneVersion == Spec => []JudgedByOneVersion
<1>1. IInv => JudgedByOneVersion BY DEF IInv
<1> QED BY <1>1, Inductive, PTL

\* The agent and the administrators decide a record once (mark_decided, force_decide).
THEOREM OneDecision == Spec => DecidedOnce
<1>1. TypeOK /\ [Next]_vars =>
          [\A r \in Record : final[r] # "pending" => final'[r] = final[r]]_vars
      BY FinalKept
<1> QED BY <1>1, TypeCorrect, PTL DEF Spec, DecidedOnce
=============================================================================
