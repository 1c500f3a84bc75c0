---------------------------- MODULE UpkeepProofs ----------------------------
(***************************************************************************)
(* Theorems about what drops the old: cache gc (CacheUpkeep) and the prune *)
(* of the machine database (MdbSync), each for any values of its           *)
(* constants, and that each is in Upkeep what it is alone, as LogFollow    *)
(* is, whose own theorems are in LogFollowProofs.                          *)
(***************************************************************************)
EXTENDS Upkeep, TLAPS

-----------------------------------------------------------------------------
(* Cache gc.                                                                *)

USE UpkeepAssumption

LEMMA ConstantsTyped ==
  /\ Time \subseteq Nat /\ 0 \in Time /\ Gone \in Entry /\ NoLog \in Log
  /\ NoPlan \in [entries : SUBSET Key, keep : SUBSET Key, cut : Time, uses : Log]
  /\ NoTarget \in [key : Key \cup {None}, gens : 0 .. MaxGen, blind : BOOLEAN]
BY DEF Time, Gone, Entry, NoLog, Log, NoPlan, NoTarget, Never

-----------------------------------------------------------------------------
(* Types.                                                                   *)

LEMMA BuildTypes ==
  ASSUME TypeOK, Tick \/ BuildStep
  PROVE  TypeOK'
<1>1. CASE Tick
  BY <1>1 DEF Tick, TypeOK, Time, storeVars, gcVars
<1>2. ASSUME NEW b \in Build, NEW k \in Key, Hit(b, k)
      PROVE  TypeOK'
  BY <1>2 DEF Hit, TypeOK, storeVars, gcVars
<1>3. ASSUME NEW b \in Build, LogUse(b)
      PROVE  TypeOK'
  BY <1>3, ConstantsTyped DEF LogUse, TypeOK, Log, storeVars, gcVars
<1>4. ASSUME NEW b \in Build, LogFails(b)
      PROVE  TypeOK'
  BY <1>4 DEF LogFails, TypeOK, storeVars, gcVars
<1>5. ASSUME NEW k \in Key, Publish(k)
      PROVE  TypeOK'
  BY <1>5 DEF Publish, TypeOK, Entry, gcVars
<1>6. ASSUME NEW k \in Key, RecordUnit(k) \/ RecordLost(k)
      PROVE  TypeOK'
  BY <1>6 DEF RecordUnit, RecordLost, TypeOK, gcVars
<1>7. ASSUME NEW k \in Key, Invalidate(k)
      PROVE  TypeOK'
  BY <1>7, ConstantsTyped DEF Invalidate, TypeOK, gcVars
<1>. QED BY <1>1, <1>2, <1>3, <1>4, <1>5, <1>6, <1>7 DEF BuildStep

LEMMA PlanTypes ==
  ASSUME TypeOK, Plan
  PROVE  TypeOK'
<1>. DEFINE there == {k \in Key : seen[k] # Gone}
            cut == Cutoff(gc.aim)
            Old(uses) == {k \in there : Before(k, uses, cut)}
            Keep(uses, over) == there \ (Old(uses) \cup over)
<1>1. PICK uses \in Log, over \in SUBSET Key :
        plan' = [entries |-> Old(uses) \cup over, keep |-> Keep(uses, over), cut |-> cut,
                 uses |-> [k \in Key |-> IF k \in Keep(uses, over) THEN uses[k] ELSE Never]]
  BY DEF Plan
<1>2. Cutoff(gc.aim) \in Time
  BY DEF Cutoff, TypeOK, Time
<1>3. plan' \in [entries : SUBSET Key, keep : SUBSET Key, cut : Time, uses : Log]
  BY <1>1, <1>2 DEF Log
<1>4. gc' \in [at : {"off", "walk", "entries", "records", "fold", "unlink"},
               aim : {"age", "size", "both"}, read : SUBSET Pieces, began : Time]
  BY DEF Plan, TypeOK
<1>5. recs' \subseteq Key
  BY DEF Plan, TypeOK
<1>. QED BY <1>3, <1>4, <1>5 DEF Plan, TypeOK, storeVars

LEMMA WalkTypes ==
  ASSUME TypeOK, WalkStep
  PROVE  TypeOK'
<1>1. ASSUME NEW aim \in Aims, GcBegin(aim)
      PROVE  TypeOK'
  BY <1>1 DEF GcBegin, TypeOK, storeVars
<1>2. ASSUME NEW k \in Key, WalkEntries(k) \/ WalkPasses(k)
      PROVE  TypeOK'
  BY <1>2 DEF WalkEntries, WalkPasses, Walk, TypeOK, Pieces, storeVars
<1>3. CASE WalkUnits
  BY <1>3 DEF WalkUnits, Walk, TypeOK, Pieces, storeVars
<1>4. CASE WalkUsed
  BY <1>4 DEF WalkUsed, Walk, TypeOK, Pieces, storeVars, OnDisk
<1>. QED BY <1>1, <1>2, <1>3, <1>4, PlanTypes DEF WalkStep

LEMMA CarryTypes ==
  ASSUME TypeOK, CarryStep
  PROVE  TypeOK'
<1>1. ASSUME NEW k \in Key, LookEntry(k)
      PROVE  TypeOK'
  BY <1>1, ConstantsTyped DEF LookEntry, TypeOK, carryFrame, NoTarget
<1>2. ASSUME NEW k \in Key, LookRecord(k)
      PROVE  TypeOK'
  BY <1>2, ConstantsTyped DEF LookRecord, TypeOK, carryFrame, NoTarget
<1>3. CASE RemoveEntry \/ RemoveRecord \/ Stuck
  BY <1>3, ConstantsTyped DEF RemoveEntry, RemoveRecord, Stuck, TypeOK, carryFrame
<1>4. CASE EndEntries \/ EndRecords
  BY <1>4 DEF EndEntries, EndRecords, TypeOK, carryFrame
<1>5. CASE Fold
  BY <1>5 DEF Fold, TypeOK, storeVars
<1>6. ASSUME NEW id \in LogId, RemoveLog(id) \/ KeepLog(id)
      PROVE  TypeOK'
  BY <1>6, ConstantsTyped DEF RemoveLog, KeepLog, TypeOK, storeVars
<1>7. CASE GcEnds \/ GcStops
  BY <1>7, ConstantsTyped DEF GcEnds, GcStops, Forget, TypeOK, GcOff, storeVars
<1>. QED BY <1>1, <1>2, <1>3, <1>4, <1>5, <1>6, <1>7 DEF CarryStep

\* Every variable keeps its type.
THEOREM Typed == Spec => []TypeOK
<1>1. Init => TypeOK
  BY ConstantsTyped DEF Init, TypeOK, GcOff, Pieces
<1>2. TypeOK /\ [Next]_vars => TypeOK'
  BY BuildTypes, WalkTypes, CarryTypes
  DEF Next, vars, TypeOK, storeVars, gcVars
<1>. QED BY <1>1, <1>2, PTL DEF Spec

-----------------------------------------------------------------------------
(* The inductive invariant.                                                 *)

\* What a gc has read is as it was: only gc removes logs, and those written
\* since the walk read the directory are newer than the gc.
WalkInv ==
  /\ gc.began <= now
  /\ \A id \in inLogs : logs[id] # NoLog
  /\ gc.at = "entries" \/ (gc.at = "walk" /\ "used" \in gc.read) =>
       \A k \in Key, id \in LogId \ inLogs : logs[id][k] = Never \/ logs[id][k] >= gc.began

\* k is to go for its age: by the entry and the logs the walk found.
Unused(k) == seen[k].at < plan.cut /\ \A id \in inLogs : logs[id][k] < plan.cut

AgeInv ==
  gc.at = "entries" /\ gc.aim = "age" =>
    \A k \in Key : k \in plan.entries \/ target.key = k => Unused(k)

\* What is to be removed is what was looked at, or the key was published
\* since, or the look for a record's entry failed.
TargetInv ==
  /\ target # NoTarget => gc.at \in {"entries", "records"}
  /\ \A k \in Key :
       target.key = k => /\ target.gens <= gens[k]
                         /\ \/ entry[k] = Gone
                            \/ IF gc.at = "entries" THEN entry[k] = seen[k]
                               ELSE target.blind
                            \/ target.gens < gens[k]

\* The uses to keep are the last ones of the logs to fold; once these are
\* being removed, each is in a log that stays.
FoldInv ==
  /\ gc.at \in {"entries", "records", "fold"} =>
       \A k \in plan.keep, id \in inLogs : logs[id][k] <= plan.uses[k]
  /\ gc.at = "unlink" =>
       \A k \in plan.keep, id \in inLogs :
         \/ logs[id][k] = Never
         \/ \E kept \in LogId \ inLogs : logs[kept][k] >= logs[id][k]

Inv == TypeOK /\ WalkInv /\ AgeInv /\ TargetInv /\ FoldInv

LEMMA InitInv == Init => WalkInv /\ AgeInv /\ TargetInv /\ FoldInv
BY DEF Init, WalkInv, AgeInv, TargetInv, FoldInv, GcOff, NoTarget, NoPlan

(* Steps of the builds and of the clock, and a stutter.                     *)

\* A name for a new log is none of those the walk read.
LEMMA FreshLog ==
  ASSUME Inv, NEW id \in LogId \ OnDisk
  PROVE  id \notin inLogs
BY DEF Inv, TypeOK, WalkInv, OnDisk

LEMMA LogUseInv ==
  ASSUME Inv, NEW b \in Build, LogUse(b)
  PROVE  (WalkInv /\ AgeInv /\ TargetInv /\ FoldInv)'
<1>1. PICK new \in LogId \ OnDisk :
        logs' = [logs EXCEPT ![new] = [k \in Key |-> IF k \in hits[b] THEN now ELSE Never]]
  BY DEF LogUse
<1>2. UNCHANGED <<now, storeVars, gcVars>>
  BY DEF LogUse
<1>3. \A k \in Key : logs[new][k] = Never /\ (logs'[new][k] = now \/ logs'[new][k] = Never)
  BY <1>1 DEF Inv, TypeOK, OnDisk, NoLog
<1>4. \A id \in LogId : id # new => logs'[id] = logs[id]
  BY <1>1 DEF Inv, TypeOK
<1>5. new \notin inLogs
  BY FreshLog
<1>6. WalkInv'
  <2>1. gc.began <= now
    BY DEF Inv, WalkInv
  <2>. QED BY <1>2, <1>3, <1>4, <1>5, <2>1 DEF Inv, WalkInv, TypeOK, gcVars
<1>7. AgeInv'
  BY <1>2, <1>4, <1>5 DEF Inv, AgeInv, Unused, TypeOK, gcVars
<1>8. TargetInv'
  BY <1>2 DEF Inv, TargetInv, gcVars, storeVars
<1>9. FoldInv'
  <2>1. CASE gc.at \in {"entries", "records", "fold"}
    BY <2>1, <1>2, <1>4, <1>5 DEF Inv, FoldInv, TypeOK, gcVars
  <2>2. CASE gc.at = "unlink"
    <3>. SUFFICES ASSUME NEW k \in plan.keep, NEW id \in inLogs, logs'[id][k] # Never
                  PROVE  \E kept \in LogId \ inLogs : logs'[kept][k] >= logs'[id][k]
      BY <2>2, <1>2 DEF FoldInv, gcVars
    <3>1. id # new /\ logs'[id] = logs[id] /\ logs[id][k] \in Time
      BY <1>4, <1>5, <1>2 DEF Inv, TypeOK, Log, gcVars
    <3>2. PICK kept \in LogId \ inLogs : logs[kept][k] >= logs[id][k]
      BY <2>2, <3>1, <1>2 DEF Inv, FoldInv, gcVars, Time, Never
    <3>3. kept # new
      BY <3>1, <3>2, <1>3 DEF Inv, TypeOK, Time, Never
    <3>. QED BY <3>1, <3>2, <3>3, <1>4, <1>2 DEF gcVars
  <2>. QED BY <2>1, <2>2, <1>2 DEF FoldInv, gcVars
<1>. QED BY <1>6, <1>7, <1>8, <1>9

LEMMA PublishInv ==
  ASSUME Inv, NEW key \in Key, Publish(key)
  PROVE  (WalkInv /\ AgeInv /\ TargetInv /\ FoldInv)'
<1>1. UNCHANGED <<now, logs, gcVars>>
  BY DEF Publish
<1>2. WalkInv' /\ AgeInv' /\ FoldInv'
  BY <1>1 DEF Inv, WalkInv, AgeInv, Unused, FoldInv, gcVars
<1>3. \A k \in Key : k # key => entry'[k] = entry[k] /\ gens'[k] = gens[k]
  BY DEF Inv, TypeOK, Publish
<1>4. gens[key] < gens'[key]
  BY DEF Inv, TypeOK, Publish
<1>5. TargetInv'
  <2>1. \A k \in Key : gens[k] \in Int /\ gens'[k] \in Int /\ target.gens \in Int
    BY DEF Inv, TypeOK, Publish
  <2>2. ASSUME NEW k \in Key, target.key = k
        PROVE  /\ target.gens <= gens'[k]
               /\ \/ entry'[k] = Gone
                  \/ IF gc.at = "entries" THEN entry'[k] = seen[k] ELSE target.blind
                  \/ target.gens < gens'[k]
    <3>1. CASE k = key
      BY <2>1, <2>2, <3>1, <1>4 DEF Inv, TargetInv
    <3>2. CASE k # key
      BY <2>2, <3>2, <1>3 DEF Inv, TargetInv
    <3>. QED BY <3>1, <3>2
  <2>. QED BY <2>2, <1>1 DEF Inv, TargetInv, gcVars
<1>. QED BY <1>2, <1>5

LEMMA BuildInv ==
  ASSUME Inv, Tick \/ BuildStep \/ UNCHANGED vars
  PROVE  (WalkInv /\ AgeInv /\ TargetInv /\ FoldInv)'
<1>1. CASE Tick
  BY <1>1 DEF Tick, Inv, TypeOK, Time, WalkInv, AgeInv, Unused, TargetInv, FoldInv, storeVars, gcVars
<1>2. ASSUME NEW b \in Build, (\E k \in Key : Hit(b, k)) \/ LogFails(b)
      PROVE  (WalkInv /\ AgeInv /\ TargetInv /\ FoldInv)'
  BY <1>2 DEF Hit, LogFails, Inv, WalkInv, AgeInv, Unused, TargetInv, FoldInv, storeVars, gcVars
<1>3. ASSUME NEW k \in Key, RecordUnit(k) \/ RecordLost(k)
      PROVE  (WalkInv /\ AgeInv /\ TargetInv /\ FoldInv)'
  BY <1>3 DEF RecordUnit, RecordLost, Inv, WalkInv, AgeInv, Unused, TargetInv, FoldInv, gcVars
<1>4. ASSUME NEW key \in Key, Invalidate(key)
      PROVE  (WalkInv /\ AgeInv /\ TargetInv /\ FoldInv)'
  <2>1. WalkInv' /\ AgeInv' /\ FoldInv'
    BY <1>4 DEF Invalidate, Inv, WalkInv, AgeInv, Unused, FoldInv, gcVars
  <2>2. \A k \in Key : entry'[k] = entry[k] \/ entry'[k] = Gone
    BY <1>4 DEF Invalidate, Inv, TypeOK
  <2>3. TargetInv'
    BY <1>4, <2>2 DEF Invalidate, Inv, TargetInv, gcVars
  <2>. QED BY <2>1, <2>3
<1>5. CASE UNCHANGED vars
  BY <1>5 DEF vars, Inv, WalkInv, AgeInv, Unused, TargetInv, FoldInv, storeVars, gcVars
<1>. QED BY <1>1, <1>2, <1>3, <1>4, <1>5, LogUseInv, PublishInv DEF BuildStep

(* The walk and the plan.                                                   *)

LEMMA WalkStepInv ==
  ASSUME Inv, WalkStep, ~Plan
  PROVE  (WalkInv /\ AgeInv /\ TargetInv /\ FoldInv)'
<1>1. ASSUME NEW aim \in Aims, GcBegin(aim)
      PROVE  (WalkInv /\ AgeInv /\ TargetInv /\ FoldInv)'
  BY <1>1 DEF GcBegin, Inv, TypeOK, Time, WalkInv, AgeInv, TargetInv, FoldInv, storeVars
<1>2. ASSUME NEW k \in Key, WalkEntries(k) \/ WalkPasses(k)
      PROVE  (WalkInv /\ AgeInv /\ TargetInv /\ FoldInv)'
  BY <1>2 DEF WalkEntries, WalkPasses, Walk, Inv, TypeOK, WalkInv, AgeInv, TargetInv, NoTarget, FoldInv, storeVars
<1>3. CASE WalkUnits
  BY <1>3 DEF WalkUnits, Walk, Inv, TypeOK, WalkInv, AgeInv, TargetInv, FoldInv, storeVars
<1>4. CASE WalkUsed
  <2>1. \A id \in LogId \ inLogs', k \in Key : logs[id][k] = Never
    BY <1>4 DEF WalkUsed, OnDisk, NoLog
  <2>2. WalkInv'
    BY <1>4, <2>1 DEF WalkUsed, Walk, OnDisk, Inv, TypeOK, WalkInv
  <2>. QED BY <1>4, <2>2 DEF WalkUsed, Walk, Inv, AgeInv, TargetInv, FoldInv, storeVars
<1>. QED BY <1>1, <1>2, <1>3, <1>4 DEF WalkStep

LEMMA PlanInv ==
  ASSUME Inv, Plan
  PROVE  (WalkInv /\ AgeInv /\ TargetInv /\ FoldInv)'
<1>. DEFINE there == {k \in Key : seen[k] # Gone}
            cut == Cutoff(gc.aim)
            Old(uses) == {k \in there : Before(k, uses, cut)}
            Keep(uses, over) == there \ (Old(uses) \cup over)
<1>1. PICK uses \in Log, over \in SUBSET Key :
        /\ \A k \in Key : LastUsed(inLogs, k, uses[k])
        /\ gc.aim = "age" => over = {}
        /\ plan' = [entries |-> Old(uses) \cup over, keep |-> Keep(uses, over), cut |-> cut,
                    uses |-> [k \in Key |-> IF k \in Keep(uses, over) THEN uses[k] ELSE Never]]
  BY DEF Plan
<1>2. /\ UNCHANGED <<now, storeVars, logs, hits, seen, inLogs, target>>
      /\ gc.at = "walk" /\ "used" \in gc.read /\ gc' = [gc EXCEPT !.at = "entries", !.read = {}]
  BY DEF Plan
<1>3. target = NoTarget
  BY <1>2 DEF Inv, TargetInv
<1>4. gc'.at = "entries" /\ gc'.began = gc.began /\ gc'.aim = gc.aim
  BY <1>2 DEF Inv, TypeOK
<1>5. \A k \in Key, id \in inLogs : logs[id][k] <= uses[k]
  BY <1>1 DEF LastUsed
<1>6. WalkInv'
  BY <1>2, <1>4 DEF Inv, WalkInv
<1>7. AgeInv'
  <2>. SUFFICES ASSUME gc.aim = "age", NEW k \in Key, k \in Old(uses)
                PROVE  Unused(k)'
    BY <1>1, <1>2, <1>3, <1>4 DEF AgeInv, NoTarget
  <2>1. seen[k].at < cut /\ uses[k] < cut /\ plan'.cut = cut
    BY <1>1 DEF Before
  <2>2. cut \in Int /\ uses[k] \in Int /\ \A id \in inLogs : logs[id][k] \in Int
    BY DEF Cutoff, Inv, TypeOK, Log, Time, Never
  <2>. QED BY <2>1, <2>2, <1>2, <1>5 DEF Unused
<1>8. TargetInv'
  BY <1>2, <1>3 DEF Inv, TargetInv, NoTarget, storeVars
<1>9. FoldInv'
  BY <1>1, <1>2, <1>4, <1>5 DEF FoldInv
<1>. QED BY <1>6, <1>7, <1>8, <1>9

(* Carrying the plan out.                                                   *)

LEMMA LookInv ==
  ASSUME Inv, NEW key \in Key, LookEntry(key) \/ LookRecord(key)
  PROVE  (WalkInv /\ AgeInv /\ TargetInv /\ FoldInv)'
<1>1. /\ UNCHANGED <<carryFrame, entry, gc>>
      /\ target = NoTarget /\ gc.at \in {"entries", "records"}
      /\ target'.key \in {key, None} /\ target'.gens <= gens[key] /\ (target'.key = None => target' = NoTarget)
      /\ target'.key = key => IF gc.at = "entries" THEN entry[key] = seen[key]
                              ELSE target'.blind \/ entry[key] = Gone
  BY DEF LookEntry, LookRecord, NoTarget, Inv, TypeOK
<1>2. /\ plan'.entries \subseteq plan.entries /\ plan'.keep = plan.keep
      /\ plan'.cut = plan.cut /\ plan'.uses = plan.uses
      /\ gc.at = "entries" => key \in plan.entries
  BY DEF LookEntry, LookRecord, Inv, TypeOK
<1>3. WalkInv' /\ FoldInv'
  BY <1>1, <1>2 DEF Inv, WalkInv, FoldInv, carryFrame
<1>4. AgeInv'
  BY <1>1, <1>2 DEF Inv, AgeInv, Unused, carryFrame
<1>5. TargetInv'
  BY <1>1 DEF Inv, TargetInv, carryFrame
<1>. QED BY <1>3, <1>4, <1>5

LEMMA RemoveInv ==
  ASSUME Inv, RemoveEntry \/ RemoveRecord \/ Stuck \/ EndEntries \/ EndRecords
  PROVE  (WalkInv /\ AgeInv /\ TargetInv /\ FoldInv)'
<1>1. UNCHANGED <<carryFrame, plan>> /\ target' = NoTarget
  BY DEF RemoveEntry, RemoveRecord, Stuck, EndEntries, EndRecords, Inv, TargetInv
<1>2. /\ gc'.began = gc.began /\ gc'.aim = gc.aim
      /\ gc'.at \in {"entries", "records", "fold"} /\ gc.at \in {"entries", "records"}
      /\ gc'.at = "entries" => gc.at = "entries"
  BY DEF RemoveEntry, RemoveRecord, Stuck, EndEntries, EndRecords, Inv, TypeOK, TargetInv
<1>3. WalkInv' /\ FoldInv'
  BY <1>1, <1>2 DEF Inv, WalkInv, FoldInv, carryFrame
<1>4. AgeInv' /\ TargetInv'
  BY <1>1, <1>2 DEF Inv, AgeInv, Unused, TargetInv, NoTarget, carryFrame
<1>. QED BY <1>3, <1>4

LEMMA FoldStepInv ==
  ASSUME Inv, Fold
  PROVE  (WalkInv /\ AgeInv /\ TargetInv /\ FoldInv)'
<1>1. /\ UNCHANGED <<now, storeVars, inLogs, plan, target, seen>>
      /\ gc.at = "fold" /\ gc' = [gc EXCEPT !.at = "unlink"]
  BY DEF Fold
<1>2. gc'.at = "unlink" /\ gc'.began = gc.began
  BY <1>1 DEF Inv, TypeOK
<1>3. \A id \in inLogs : logs'[id] = logs[id]
  BY FreshLog DEF Fold, Inv, TypeOK
<1>4. WalkInv'
  BY <1>1, <1>2, <1>3 DEF Inv, WalkInv
<1>5. AgeInv' /\ TargetInv'
  BY <1>1, <1>2 DEF Inv, AgeInv, TargetInv, NoTarget
<1>6. FoldInv'
  <2>. SUFFICES ASSUME NEW k \in plan.keep, NEW id \in inLogs, logs[id][k] # Never
                PROVE  \E kept \in LogId \ inLogs : logs'[kept][k] >= logs[id][k]
    BY <1>1, <1>2, <1>3 DEF FoldInv
  <2>1. logs[id][k] <= plan.uses[k] /\ logs[id][k] \in Time /\ k \in Key /\ plan.uses[k] \in Int
    BY <1>1 DEF Inv, FoldInv, TypeOK, Log, Time, Never
  <2>2. plan.uses # NoLog
    BY <2>1 DEF NoLog, Never, Time
  <2>3. PICK new \in LogId \ OnDisk : logs' = [logs EXCEPT ![new] = plan.uses]
    BY <2>2 DEF Fold
  <2>4. new \notin inLogs /\ logs'[new] = plan.uses
    BY <2>3, FreshLog DEF Inv, TypeOK
  <2>. QED BY <2>1, <2>4
<1>. QED BY <1>4, <1>5, <1>6

LEMMA UnlinkInv ==
  ASSUME Inv, NEW old \in LogId, RemoveLog(old) \/ KeepLog(old)
  PROVE  (WalkInv /\ AgeInv /\ TargetInv /\ FoldInv)'
<1>1. /\ UNCHANGED <<now, storeVars, gc, plan, target, seen>>
      /\ gc.at = "unlink" /\ inLogs' = inLogs \ {old} /\ old \in inLogs
  BY DEF RemoveLog, KeepLog
<1>2. \A id \in LogId : id # old => logs'[id] = logs[id]
  BY DEF RemoveLog, KeepLog, Inv, TypeOK
<1>3. WalkInv'
  BY <1>1, <1>2 DEF Inv, TypeOK, WalkInv
<1>4. AgeInv' /\ TargetInv'
  BY <1>1 DEF Inv, AgeInv, TargetInv, NoTarget, storeVars
<1>5. FoldInv'
  BY <1>1, <1>2 DEF Inv, TypeOK, FoldInv
<1>. QED BY <1>3, <1>4, <1>5

LEMMA CarryInv ==
  ASSUME Inv, CarryStep
  PROVE  (WalkInv /\ AgeInv /\ TargetInv /\ FoldInv)'
<1>1. CASE GcEnds \/ GcStops
  <2>1. /\ UNCHANGED <<now, logs>> /\ gc' = GcOff /\ inLogs' = {} /\ target' = NoTarget
    BY <1>1 DEF GcEnds, GcStops, Forget
  <2>2. now >= 0
    BY DEF Inv, TypeOK, Time
  <2>. QED BY <2>1, <2>2 DEF WalkInv, AgeInv, TargetInv, FoldInv, GcOff, NoTarget
<1>. QED BY <1>1, LookInv, RemoveInv, FoldStepInv, UnlinkInv DEF CarryStep

\* The inductive invariant.
THEOREM Invariance == Spec => []Inv
<1>1. Init => Inv
  BY InitInv, ConstantsTyped DEF Init, TypeOK, GcOff, Pieces, Inv
<1>2. Inv /\ [Next]_vars => Inv'
  <2>. SUFFICES ASSUME Inv, [Next]_vars
                PROVE  Inv'
    OBVIOUS
  <2>1. TypeOK'
    BY BuildTypes, WalkTypes, CarryTypes DEF Inv, Next, vars, TypeOK, storeVars, gcVars
  <2>2. (WalkInv /\ AgeInv /\ TargetInv /\ FoldInv)'
    BY BuildInv, WalkStepInv, PlanInv, CarryInv DEF Next
  <2>. QED BY <2>1, <2>2 DEF Inv
<1>. QED BY <1>1, <1>2, PTL DEF Spec

-----------------------------------------------------------------------------
(* What it gives.                                                           *)

\* No entry is removed for its age that a log on disk when the gc began
\* says was used since the cutoff.
THEOREM UsedSpared == Spec => []SparesUsed
<1>1. Inv => SparesUsed
  <2>. SUFFICES ASSUME Inv, NEW k \in Key, gc.at = "entries", gc.aim = "age", target.key = k,
                       entry[k] = seen[k], NEW id \in LogId
                PROVE  entry[k].at < plan.cut /\ (logs[id][k] < plan.cut \/ logs[id][k] >= gc.began)
    BY DEF SparesUsed, Inv, AgeInv, Unused
  <2>1. Unused(k)
    BY DEF Inv, AgeInv
  <2>2. CASE id \in inLogs
    BY <2>1, <2>2 DEF Unused
  <2>3. CASE id \notin inLogs
    BY <2>1, <2>3 DEF Inv, WalkInv, TypeOK, Time, Never, Unused
  <2>. QED BY <2>2, <2>3
<1>. QED BY <1>1, Invariance, PTL

\* What is removed is what was looked at, or was published since the look,
\* or is a record the look for whose entry failed.
THEOREM RemovalsSeen == Spec => []RemovesWhatItSaw
<1>1. Inv => RemovesWhatItSaw
  BY DEF Inv, TypeOK, TargetInv, RemovesWhatItSaw, NoTarget
<1>. QED BY <1>1, Invariance, PTL

\* No step makes an entry that stays look less recently used.
THEOREM UsesKept == Spec => FoldKeepsUses
<1>1. Inv /\ [Next]_vars =>
        [\A k \in Key, t \in Time :
           /\ entry[k] # Gone /\ entry'[k] = entry[k]
           /\ gc.at = "unlink" => k \in plan.keep
           /\ KnownSince(k, t)
           => KnownSince(k, t)']_vars
  <2>. SUFFICES ASSUME Inv, Next, NEW k \in Key, NEW t \in Time, entry'[k] = entry[k],
                       gc.at = "unlink" => k \in plan.keep,
                       NEW id \in LogId, logs[id][k] >= t, ~(entry[k].at >= t)
                PROVE  \E other \in LogId : logs'[other][k] >= t
    BY DEF KnownSince
  <2>1. logs[id] # NoLog
    BY DEF NoLog, Never, Time
  <2>2. CASE logs'[id] = logs[id]
    BY <2>2
  <2>3. CASE logs'[id] # logs[id]
    <3>1. RemoveLog(id)
      BY <2>1, <2>3 DEF Inv, TypeOK, OnDisk, Next, Tick, BuildStep, Hit, LogUse, LogFails, Publish,
         RecordUnit, RecordLost, Invalidate, WalkStep, GcBegin, WalkEntries, WalkPasses, WalkUnits,
         WalkUsed, Walk, Plan, CarryStep, carryFrame, LookEntry, LookRecord, RemoveEntry,
         RemoveRecord, Stuck, EndEntries, EndRecords, Fold, RemoveLog, KeepLog, GcEnds, GcStops
    <3>2. PICK kept \in LogId \ inLogs : logs[kept][k] >= logs[id][k]
      BY <3>1 DEF RemoveLog, Inv, FoldInv, Never, Time
    <3>3. kept # id /\ logs'[kept] = logs[kept]
      BY <3>1, <3>2 DEF RemoveLog, Inv, TypeOK
    <3>. QED BY <3>2, <3>3 DEF Inv, TypeOK, Log, Time, Never
  <2>. QED BY <2>2, <2>3
<1>. QED BY <1>1, Invariance, PTL DEF Spec, FoldKeepsUses

-----------------------------------------------------------------------------
(* The machine database: the invariant.  At most one sync dies.             *)

Modest == Mdb!MdbAssumption /\ MaxDeaths <= 1

Syncing(c) == mdbCmd[c].at \notin {"idle", "read"}
Moving(c) == mdbCmd[c].at \in {"unstamp", "stamp"}
Sweeping(c) == mdbCmd[c].at \in {"prune", "remove", "drop"}

(* .lock excludes.                                                         *)
OneSync == \A c, d \in Cmd : Syncing(c) /\ Syncing(d) => c = d

(* Upstream never offers a commit of which half a tree is left.            *)
TipInv == \A g \in Gen : tip[g] # None => genOf[tip[g]] = g /\ mdbTree[tip[g]] # "half"

(* What the syncing command knows at each of its steps.                    *)
Knows(c) ==
  /\ mdbCmd[c].at # "idle" => mdbCmd[c].gen \in Gen
  /\ mdbCmd[c].at \in {"export", "swap"} =>
       mdbCmd[c].sha \in Sha /\ genOf[mdbCmd[c].sha] = mdbCmd[c].gen
  /\ mdbCmd[c].at = "swap" => mdbTree[mdbCmd[c].sha] = "whole"
  /\ Moving(c) =>
       /\ mdbCmd[c].sha \in Sha /\ mdbLink[mdbCmd[c].gen] = mdbCmd[c].sha
       /\ mdbCmd[c].old # mdbCmd[c].sha
       /\ mdbCmd[c].old # None => genOf[mdbCmd[c].old] = mdbCmd[c].gen
  /\ (mdbCmd[c].at = "list" \/ Sweeping(c)) /\ mdbCmd[c].sha # None =>
       mdbLink[mdbCmd[c].gen] = mdbCmd[c].sha
  /\ Sweeping(c) =>
       mdbCmd[c].refs = Mdb!Linked /\ \A s \in mdbCmd[c].todo : mdbStamp[s] # None
  /\ mdbCmd[c].at \in {"remove", "drop"} =>
       mdbCmd[c].old \in Sha /\ mdbCmd[c].old \notin mdbCmd[c].todo
  /\ mdbCmd[c].at = "remove" => mdbCmd[c].old \notin mdbCmd[c].refs
  /\ mdbCmd[c].at = "read" => mdbCmd[c].sha \in Sha
SyncInv == \A c \in Cmd : Knows(c)

(* Before the first death, what is linked has no stamp, but for the tree a *)
(* sync has just linked; nor has the tree it just left.                    *)
StampInv ==
  mdbDeaths = 0 =>
    /\ \A g \in Gen : mdbLink[g] # None =>
         mdbStamp[mdbLink[g]] = None \/ \E c \in Cmd : mdbCmd[c].at = "unstamp" /\ mdbCmd[c].sha = mdbLink[g]
    /\ \A c \in Cmd : Moving(c) /\ mdbCmd[c].old # None => mdbStamp[mdbCmd[c].old] = None

(* A tree that is being read is linked, or was left no longer ago than the *)
(* reader resolved it, or is about to be stamped.                          *)
Fresh(d) == mdbCmd[d].at = "read" /\ mdbCmd[d].age < Grace
Spares(d) ==
  \/ \E g \in Gen : mdbLink[g] = mdbCmd[d].sha
  \/ mdbStamp[mdbCmd[d].sha] = None
  \/ mdbStamp[mdbCmd[d].sha] <= mdbCmd[d].age
  \/ \E c \in Cmd : Moving(c) /\ mdbCmd[c].old = mdbCmd[d].sha
ReadsWhole(d) ==
  Fresh(d) =>
    /\ mdbTree[mdbCmd[d].sha] = "whole"
    /\ Spares(d)
    /\ \A c \in Cmd : mdbCmd[c].at = "remove" => mdbCmd[c].old # mdbCmd[d].sha
ReadInv == \A d \in Cmd : ReadsWhole(d)

MdbInv ==
  Mdb!TypeOK /\ OneSync /\ Mdb!LinksWhole /\ TipInv /\ SyncInv /\ StampInv /\ ReadInv

-----------------------------------------------------------------------------
LEMMA InitHolds == ASSUME Modest, Mdb!Init PROVE MdbInv
  BY DEF Modest, Mdb!MdbAssumption, Mdb!Init, MdbInv, Mdb!TypeOK, OneSync, Mdb!LinksWhole, TipInv, SyncInv, Knows,
         StampInv, ReadInv, ReadsWhole, Fresh, Mdb!Idle, Mdb!At, Syncing, Moving, Sweeping

LEMMA LinkedTyped == ASSUME Mdb!TypeOK PROVE Mdb!Linked \subseteq Sha
  BY DEF Mdb!TypeOK, Mdb!Linked

Places == {"idle", "fetch", "export", "swap", "unstamp", "stamp", "list",
           "prune", "remove", "drop", "read"}
CmdType ==
  [at : Places,
   gen : Gen \cup {None}, sha : Sha \cup {None}, old : Sha \cup {None},
   refs : SUBSET Sha, todo : SUBSET Sha, age : 0..Grace]

LEMMA AtTyped ==
  ASSUME Modest, NEW at \in Places, NEW g \in Gen \cup {None}, NEW s \in Sha \cup {None}
  PROVE  Mdb!At(at, g, s) \in CmdType
  BY DEF Modest, Mdb!MdbAssumption, Mdb!At, CmdType

LEMMA IdleTyped == ASSUME Modest PROVE Mdb!Idle \in CmdType
  BY AtTyped DEF Mdb!Idle, Places

LEMMA ReadsTyped ==
  ASSUME Modest, NEW g \in Gen \cup {None}, NEW s \in Sha \cup {None}
  PROVE  Mdb!Reads(g, s) \in CmdType
  BY AtTyped DEF Mdb!Reads, Places

LEMMA StepTyped == ASSUME Modest, Mdb!TypeOK, SyncInv, [Mdb!Next]_(Mdb!vars) PROVE Mdb!TypeOK'
<1>a. Mdb!MdbAssumption /\ mdbCmd \in [Cmd -> CmdType]
  BY DEF Modest, Mdb!TypeOK, CmdType, Places
<1>b. SUFFICES ASSUME ~UNCHANGED Mdb!vars
      PROVE  Mdb!TypeOK'
  BY DEF Mdb!vars, Mdb!TypeOK
<1>1. ASSUME NEW s \in Sha, Mdb!Publish(s) PROVE Mdb!TypeOK'
  BY <1>1, <1>a DEF Mdb!Publish, Mdb!TypeOK, Mdb!MdbAssumption
<1>2. ASSUME NEW c \in Cmd, NEW g \in Gen, Mdb!Resolve(c, g) PROVE Mdb!TypeOK'
  <2>1. mdbLink[g] \in Sha
    BY <1>2 DEF Mdb!Resolve, Mdb!Resolves, Mdb!TypeOK
  <2>2. mdbCmd' \in [Cmd -> CmdType]
    BY <1>2, <1>a, <2>1, ReadsTyped DEF Mdb!Resolve
  <2>. QED BY <1>2, <2>2 DEF Mdb!Resolve, Mdb!TypeOK, CmdType, Places
<1>3. ASSUME NEW c \in Cmd, NEW g \in Gen, Mdb!Lock(c, g) PROVE Mdb!TypeOK'
  <2>2. mdbCmd' \in [Cmd -> CmdType]
    BY <1>3, <1>a, AtTyped DEF Mdb!Lock, Places
  <2>. QED BY <1>3, <2>2 DEF Mdb!Lock, Mdb!TypeOK, CmdType, Places
<1>4. ASSUME NEW c \in Cmd, Mdb!Exit(c) \/ Mdb!Die(c) PROVE Mdb!TypeOK'
  <2>1. mdbCmd' \in [Cmd -> CmdType]
    BY <1>4, <1>a, IdleTyped DEF Mdb!Exit, Mdb!Die
  <2>. QED BY <1>4, <1>a, <2>1 DEF Mdb!Exit, Mdb!Die, Mdb!TypeOK, CmdType, Places, Mdb!MdbAssumption
<1>5. ASSUME NEW c \in Cmd, Mdb!Fetch(c) PROVE Mdb!TypeOK'
  <2>1. mdbLink[mdbCmd[c].gen] \in Sha \cup {None} /\ tip[mdbCmd[c].gen] \in Sha \cup {None}
    BY <1>5 DEF Mdb!Fetch, Mdb!TypeOK, SyncInv, Knows
  <2>2. mdbCmd' \in [Cmd -> CmdType]
    <3>1. ASSUME NEW at \in Places, NEW s \in Sha \cup {None}
          PROVE  [mdbCmd[c] EXCEPT !.sha = s, !.at = at] \in CmdType
      BY <1>a DEF CmdType
    <3>2. PICK at \in Places, s \in Sha \cup {None} :
             mdbCmd' = [mdbCmd EXCEPT ![c] = [@ EXCEPT !.sha = s, !.at = at]]
      BY <1>5, <2>1, Zenon DEF Mdb!Fetch, Places
    <3>. QED BY <1>a, <3>1, <3>2
  <2>3. UNCHANGED <<tip, mdbTree, mdbLink, mdbStamp, mdbDeaths>>
    BY <1>5 DEF Mdb!Fetch
  <2>. QED BY <2>2, <2>3 DEF Mdb!TypeOK, CmdType, Places
<1>6. ASSUME NEW c \in Cmd, Mdb!Export(c) \/ Mdb!Unstamp(c) \/ Mdb!Remove(c) \/ Mdb!DropStamp(c) PROVE Mdb!TypeOK'
  BY <1>6, <1>a DEF Mdb!Export, Mdb!Unstamp, Mdb!Remove, Mdb!DropStamp, Mdb!TypeOK
<1>7. ASSUME NEW c \in Cmd, Mdb!Swap(c) PROVE Mdb!TypeOK'
  <2>1. mdbLink[mdbCmd[c].gen] \in Sha \cup {None} /\ mdbCmd[c].sha \in Sha
    BY <1>7 DEF Mdb!Swap, Mdb!TypeOK, SyncInv, Knows
  <2>2. mdbCmd' \in [Cmd -> CmdType]
    <3>1. ASSUME NEW at \in Places, NEW s \in Sha \cup {None}
          PROVE  [mdbCmd[c] EXCEPT !.at = at, !.old = s] \in CmdType
      BY <1>a DEF CmdType
    <3>2. PICK at \in Places, s \in Sha \cup {None} :
             mdbCmd' = [mdbCmd EXCEPT ![c] = [@ EXCEPT !.at = at, !.old = s]]
      BY <1>7, <2>1, Zenon DEF Mdb!Swap, Places
    <3>. QED BY <1>a, <3>1, <3>2
  <2>. QED BY <1>7, <2>1, <2>2 DEF Mdb!Swap, Mdb!TypeOK, CmdType, Places
<1>8. ASSUME NEW c \in Cmd, Mdb!StampOld(c) PROVE Mdb!TypeOK'
  BY <1>8, <1>a DEF Mdb!StampOld, Mdb!TypeOK, Mdb!MdbAssumption
<1>9. ASSUME NEW c \in Cmd, Mdb!List(c) PROVE Mdb!TypeOK'
  <2>1. mdbCmd' \in [Cmd -> CmdType]
    <3>1. ASSUME NEW S \in SUBSET Sha, NEW T \in SUBSET Sha
          PROVE  [mdbCmd[c] EXCEPT !.at = "prune", !.refs = S, !.todo = T] \in CmdType
      BY <1>a DEF CmdType, Places
    <3>. QED BY <1>9, <1>a, <3>1, LinkedTyped DEF Mdb!List
  <2>. QED BY <1>9, <2>1 DEF Mdb!List, Mdb!TypeOK, CmdType, Places
<1>10. ASSUME NEW c \in Cmd, Mdb!PruneOne(c) PROVE Mdb!TypeOK'
  <2>1. mdbCmd' \in [Cmd -> CmdType]
    <3>1. ASSUME NEW s \in Sha, NEW T \in SUBSET Sha, NEW at \in Places
          PROVE  [mdbCmd[c] EXCEPT !.todo = T, !.old = s, !.at = at] \in CmdType
      BY <1>a DEF CmdType
    <3>2. mdbCmd[c].todo \subseteq Sha /\ mdbCmd[c].at \in Places
      BY <1>a DEF CmdType
    <3>3. PICK s \in mdbCmd[c].todo :
            mdbCmd' = [mdbCmd EXCEPT ![c] =
               [@ EXCEPT !.todo = mdbCmd[c].todo \ {s}, !.old = s,
                         !.at = IF s \in mdbCmd[c].refs THEN "drop"
                                ELSE IF mdbStamp[s] > Grace THEN "remove" ELSE "prune"]]
      BY <1>10 DEF Mdb!PruneOne
    <3>. DEFINE from == mdbCmd[c].todo \ {s}
                place == IF s \in mdbCmd[c].refs THEN "drop"
                         ELSE IF mdbStamp[s] > Grace THEN "remove" ELSE "prune"
    <3>4. from \in SUBSET Sha /\ s \in Sha
      BY <3>2
    <3>6. place \in Places
      <4>1. CASE s \in mdbCmd[c].refs
        BY <4>1 DEF Places
      <4>2. CASE s \notin mdbCmd[c].refs /\ mdbStamp[s] > Grace
        BY <4>2 DEF Places
      <4>3. CASE s \notin mdbCmd[c].refs /\ ~(mdbStamp[s] > Grace)
        BY <4>3 DEF Places
      <4>. QED BY <4>1, <4>2, <4>3
    <3>5. mdbCmd' = [mdbCmd EXCEPT ![c] = [@ EXCEPT !.todo = from, !.old = s, !.at = place]]
      BY <3>3, Zenon
    <3>. HIDE DEF from, place
    <3>. QED BY <1>a, <3>1, <3>4, <3>5, <3>6
  <2>3. UNCHANGED <<tip, mdbTree, mdbLink, mdbStamp, mdbDeaths>>
    BY <1>10 DEF Mdb!PruneOne
  <2>. QED BY <2>1, <2>3 DEF Mdb!TypeOK, CmdType, Places
<1>11. ASSUME NEW c \in Cmd, Mdb!Synced(c) PROVE Mdb!TypeOK'
  <2>1. mdbCmd[c].gen \in Gen \cup {None} /\ mdbCmd[c].sha \in Sha \cup {None}
    BY <1>a DEF CmdType
  <2>2. mdbCmd' \in [Cmd -> CmdType]
    BY <1>11, <1>a, <2>1, IdleTyped, ReadsTyped DEF Mdb!Synced
  <2>. QED BY <1>11, <2>2 DEF Mdb!Synced, Mdb!TypeOK, CmdType, Places
<1>12. ASSUME Mdb!Tick PROVE Mdb!TypeOK'
  <2>1. mdbCmd' \in [Cmd -> CmdType]
    BY <1>12, <1>a DEF Mdb!Tick, CmdType, Places, Mdb!MdbAssumption
  <2>2. mdbStamp' \in [Sha -> 0..Grace + 1 \cup {None}]
    BY <1>12, <1>a DEF Mdb!Tick, Mdb!TypeOK, Mdb!MdbAssumption
  <2>. QED BY <1>12, <2>1, <2>2 DEF Mdb!Tick, Mdb!TypeOK, CmdType, Places
<1>. QED BY <1>b, <1>1, <1>2, <1>3, <1>4, <1>5, <1>6, <1>7, <1>8, <1>9, <1>10, <1>11, <1>12
         DEF Mdb!Next
-----------------------------------------------------------------------------
(* Each step keeps the invariant.                                          *)

(* The step of one command, and what it leaves alone.                      *)
LEMMA PublishKeeps ==
  ASSUME Modest, MdbInv, NEW s \in Sha, Mdb!Publish(s)
  PROVE  OneSync' /\ Mdb!LinksWhole' /\ TipInv' /\ SyncInv' /\ StampInv' /\ ReadInv'
<1>1. UNCHANGED <<mdbTree, mdbLink, mdbStamp, mdbCmd, mdbDeaths>>
  BY DEF Mdb!Publish
<1>2. TipInv'
  BY DEF Mdb!Publish, Modest, Mdb!MdbAssumption, MdbInv, Mdb!TypeOK, TipInv
<1>. QED BY <1>1, <1>2
         DEF MdbInv, OneSync, Mdb!LinksWhole, SyncInv, Knows, StampInv, ReadInv, ReadsWhole,
             Syncing, Moving, Sweeping, Mdb!Linked, Fresh, Spares

(* A command that reads has no part in a sync.                             *)
LEMMA ReadKeeps ==
  ASSUME Modest, MdbInv, NEW c \in Cmd,
         UNCHANGED <<tip, mdbTree, mdbLink, mdbStamp, mdbDeaths>>,
         \/ \E g \in Gen : Mdb!Resolve(c, g)
         \/ Mdb!Exit(c)
  PROVE  OneSync' /\ Mdb!LinksWhole' /\ TipInv' /\ SyncInv' /\ StampInv' /\ ReadInv'
<1>a. None \notin Sha
  BY DEF Modest, Mdb!MdbAssumption
<1>1. mdbCmd[c].at \in {"idle", "read"} /\ mdbCmd'[c].at \in {"idle", "read"}
  BY DEF Mdb!Resolve, Mdb!Exit, Mdb!Reads, Mdb!Idle, Mdb!At, MdbInv, Mdb!TypeOK
<1>2. \A d \in Cmd : d # c => mdbCmd'[d] = mdbCmd[d]
  BY DEF Mdb!Resolve, Mdb!Exit, MdbInv, Mdb!TypeOK
<1>3. mdbCmd'[c].at = "read" =>
        /\ mdbCmd'[c].gen \in Gen /\ mdbCmd'[c].sha \in Sha
        /\ mdbLink[mdbCmd'[c].gen] = mdbCmd'[c].sha
  BY DEF Mdb!Resolve, Mdb!Resolves, Mdb!Exit, Mdb!Reads, Mdb!Idle, Mdb!At, MdbInv, Mdb!TypeOK
<1>4. OneSync' /\ Mdb!LinksWhole' /\ TipInv'
  BY <1>1, <1>2 DEF MdbInv, OneSync, Mdb!LinksWhole, TipInv, Syncing
<1>6. SyncInv'
  <2>. SUFFICES ASSUME NEW d \in Cmd PROVE Knows(d)'
    BY DEF SyncInv
  <2>1. CASE d = c
    BY <2>1, <1>1, <1>3 DEF Knows, Sweeping, Moving
  <2>2. CASE d # c
    BY <2>2, <1>2 DEF MdbInv, SyncInv, Knows, Sweeping, Moving, Mdb!Linked
  <2>. QED BY <2>1, <2>2
<1>7. StampInv'
  <2>1. \A d \in Cmd : mdbCmd[d].at = "unstamp" \/ Moving(d) =>
           mdbCmd'[d] = mdbCmd[d] /\ (Moving(d))' = Moving(d)
    BY <1>1, <1>2 DEF Moving
  <2>2. \A d \in Cmd : Moving(d)' => Moving(d) /\ mdbCmd'[d] = mdbCmd[d]
    BY <1>1, <1>2 DEF Moving
  <2>. QED BY <2>1, <2>2 DEF MdbInv, StampInv
<1>5. ReadInv'
  <2>. SUFFICES ASSUME NEW d \in Cmd, Fresh(d)' PROVE ReadsWhole(d)'
    BY DEF ReadInv, ReadsWhole
  <2>1. \A e \in Cmd : mdbCmd'[e].at = "remove" => mdbCmd[e].at = "remove" /\ mdbCmd'[e].old = mdbCmd[e].old
    BY <1>1, <1>2
  <2>2. CASE d = c
    <3>1. PICK g \in Gen : mdbLink[g] = mdbCmd'[d].sha /\ mdbLink[g] # None
      BY <2>2, <1>3, <1>a DEF Fresh
    <3>2. \A e \in Cmd : mdbCmd[e].at = "remove" => mdbCmd[e].old # mdbLink[g]
      BY <3>1 DEF MdbInv, SyncInv, Knows, Sweeping, Mdb!Linked
    <3>. QED BY <3>1, <3>2, <2>1 DEF ReadsWhole, Spares, MdbInv, Mdb!LinksWhole
  <2>3. CASE d # c
    <3>1. \A e \in Cmd : Moving(e) => mdbCmd'[e] = mdbCmd[e] /\ Moving(e)'
      BY <1>1, <1>2 DEF Moving
    <3>2. mdbCmd'[d] = mdbCmd[d] /\ ReadsWhole(d) /\ Fresh(d)
      BY <2>3, <1>2 DEF MdbInv, ReadInv, Fresh
    <3>. QED BY <3>1, <3>2, <2>1 DEF ReadsWhole, Spares
  <2>. QED BY <2>2, <2>3
<1>. QED BY <1>4, <1>5, <1>6, <1>7

(* While one command syncs, the others rest or read.                       *)
LEMMA OthersRest ==
  ASSUME MdbInv, NEW c \in Cmd, Syncing(c), \A d \in Cmd : d # c => mdbCmd'[d] = mdbCmd[d]
  PROVE  /\ \A d \in Cmd : d # c => mdbCmd[d].at \in {"idle", "read"}
         /\ OneSync'
         /\ Knows(c)' => SyncInv'
         /\ \A d \in Cmd : d # c /\ Fresh(d)' => Fresh(d) /\ mdbCmd[d].sha \in Sha
<1>1. \A d \in Cmd : d # c => mdbCmd[d].at \in {"idle", "read"}
  BY DEF MdbInv, OneSync, Syncing
<1>2. OneSync'
  BY <1>1 DEF OneSync, Syncing
<1>3. ASSUME NEW d \in Cmd, d # c PROVE Knows(d)'
  BY <1>1, <1>3 DEF MdbInv, SyncInv, Knows, Moving, Sweeping
<1>4. ASSUME NEW d \in Cmd, d # c, Fresh(d)' PROVE Fresh(d) /\ mdbCmd[d].sha \in Sha
  BY <1>4 DEF Fresh, MdbInv, SyncInv, Knows
<1>. QED BY <1>1, <1>2, <1>3, <1>4 DEF SyncInv

LEMMA FetchKeeps ==
  ASSUME Modest, MdbInv, NEW c \in Cmd, Mdb!Fetch(c)
  PROVE  OneSync' /\ Mdb!LinksWhole' /\ TipInv' /\ SyncInv' /\ StampInv' /\ ReadInv'
<1>0. UNCHANGED <<tip, mdbTree, mdbLink, mdbStamp, mdbDeaths>> /\ mdbCmd[c].at = "fetch"
  BY DEF Mdb!Fetch
<1>1. \A d \in Cmd : d # c => mdbCmd'[d] = mdbCmd[d]
  BY DEF Mdb!Fetch, MdbInv, Mdb!TypeOK
<1>2. /\ mdbCmd'[c].gen = mdbCmd[c].gen
      /\ \/ /\ mdbCmd'[c].at \in {"export", "swap"}
            /\ tip[mdbCmd[c].gen] # None
            /\ mdbCmd'[c].sha = tip[mdbCmd[c].gen]
            /\ mdbCmd'[c].at = "swap" => mdbTree[tip[mdbCmd[c].gen]] # "none"
         \/ mdbCmd'[c].at = "list" /\ mdbCmd'[c].sha \in {None, mdbLink[mdbCmd[c].gen]}
  <2>. DEFINE g == mdbCmd[c].gen
  <2>1. CASE /\ tip[g] # None
             /\ mdbCmd' = [mdbCmd EXCEPT ![c] =
                     [@ EXCEPT !.sha = tip[g],
                               !.at = IF mdbTree[tip[g]] = "none" THEN "export" ELSE "swap"]]
    <3>1. /\ mdbCmd'[c].gen = g /\ mdbCmd'[c].sha = tip[g]
          /\ mdbCmd'[c].at = IF mdbTree[tip[g]] = "none" THEN "export" ELSE "swap"
      BY <2>1 DEF MdbInv, Mdb!TypeOK
    <3>. QED BY <2>1, <3>1
  <2>2. CASE mdbCmd' = [mdbCmd EXCEPT ![c] =
                  [@ EXCEPT !.sha = IF Mdb!Resolves(g) THEN mdbLink[g] ELSE None, !.at = "list"]]
    <3>1. /\ mdbCmd'[c].gen = g /\ mdbCmd'[c].at = "list"
          /\ mdbCmd'[c].sha = IF Mdb!Resolves(g) THEN mdbLink[g] ELSE None
      BY <2>2 DEF MdbInv, Mdb!TypeOK
    <3>. QED BY <3>1
  <2>. QED BY <2>1, <2>2 DEF Mdb!Fetch
<1>3. OneSync' /\ (Knows(c)' => SyncInv')
  BY <1>0, <1>1, OthersRest DEF Syncing
<1>4. Knows(c)'
  <2>1. mdbCmd[c].gen \in Gen
    BY <1>0 DEF MdbInv, SyncInv, Knows
  <2>2. tip[mdbCmd[c].gen] # None =>
          /\ tip[mdbCmd[c].gen] \in Sha /\ genOf[tip[mdbCmd[c].gen]] = mdbCmd[c].gen
          /\ mdbTree[tip[mdbCmd[c].gen]] \in {"none", "whole"}
    BY <2>1 DEF MdbInv, Mdb!TypeOK, TipInv
  <2>. QED BY <1>0, <1>2, <2>1, <2>2 DEF Knows, Moving, Sweeping
<1>5. Mdb!LinksWhole' /\ TipInv'
  BY <1>0 DEF MdbInv, Mdb!LinksWhole, TipInv
<1>6. \A d \in Cmd : (Moving(d)' \/ mdbCmd'[d].at \in {"unstamp", "remove", "read"}
                       \/ Moving(d) \/ mdbCmd[d].at \in {"unstamp", "read"}) =>
                     mdbCmd'[d] = mdbCmd[d]
  BY <1>0, <1>1, <1>2 DEF Moving
<1>7. StampInv'
  BY <1>0, <1>6 DEF MdbInv, StampInv, Moving
<1>8. ReadInv'
  <2>. SUFFICES ASSUME NEW d \in Cmd, Fresh(d)' PROVE ReadsWhole(d)'
    BY DEF ReadInv, ReadsWhole
  <2>1. mdbCmd'[d] = mdbCmd[d] /\ ReadsWhole(d) /\ Fresh(d)
    BY <1>6 DEF MdbInv, ReadInv, Fresh
  <2>. QED BY <2>1, <1>0, <1>6 DEF ReadsWhole, Spares, Moving
<1>. QED BY <1>3, <1>4, <1>5, <1>7, <1>8

LEMMA ExportKeeps ==
  ASSUME Modest, MdbInv, NEW c \in Cmd, Mdb!Export(c)
  PROVE  OneSync' /\ Mdb!LinksWhole' /\ TipInv' /\ SyncInv' /\ StampInv' /\ ReadInv'
<1>0. UNCHANGED <<tip, mdbLink, mdbStamp, mdbDeaths>> /\ mdbCmd[c].at = "export"
  BY DEF Mdb!Export
<1>1. \A d \in Cmd : d # c => mdbCmd'[d] = mdbCmd[d]
  BY DEF Mdb!Export, MdbInv, Mdb!TypeOK
<1>2. /\ mdbCmd'[c].at = "swap" /\ mdbCmd'[c].gen = mdbCmd[c].gen /\ mdbCmd'[c].sha = mdbCmd[c].sha
      /\ mdbCmd[c].gen \in Gen /\ mdbCmd[c].sha \in Sha /\ genOf[mdbCmd[c].sha] = mdbCmd[c].gen
  BY DEF Mdb!Export, MdbInv, Mdb!TypeOK, SyncInv, Knows
<1>3. OneSync' /\ (Knows(c)' => SyncInv')
  BY <1>0, <1>1, OthersRest DEF Syncing
<1>4. mdbTree'[mdbCmd[c].sha] = "whole" /\ \A s \in Sha : s # mdbCmd[c].sha => mdbTree'[s] = mdbTree[s]
  BY <1>2 DEF Mdb!Export, MdbInv, Mdb!TypeOK
<1>5. Knows(c)'
  BY <1>2, <1>4 DEF Knows, Moving, Sweeping
<1>6. Mdb!LinksWhole' /\ TipInv'
  BY <1>0, <1>4 DEF MdbInv, Mdb!TypeOK, Mdb!LinksWhole, TipInv
<1>7. \A d \in Cmd : (Moving(d)' \/ mdbCmd'[d].at \in {"unstamp", "remove", "read"}
                       \/ Moving(d) \/ mdbCmd[d].at \in {"unstamp", "read"}) =>
                     mdbCmd'[d] = mdbCmd[d]
  BY <1>0, <1>1, <1>2 DEF Moving
<1>8. StampInv'
  BY <1>0, <1>7 DEF MdbInv, StampInv, Moving
<1>9. ReadInv'
  <2>. SUFFICES ASSUME NEW d \in Cmd, Fresh(d)' PROVE ReadsWhole(d)'
    BY DEF ReadInv, ReadsWhole
  <2>1. mdbCmd'[d] = mdbCmd[d] /\ ReadsWhole(d) /\ Fresh(d) /\ mdbCmd[d].sha \in Sha
    BY <1>7 DEF MdbInv, ReadInv, Fresh, SyncInv, Knows
  <2>. QED BY <2>1, <1>0, <1>4, <1>7 DEF ReadsWhole, Spares, Moving
<1>. QED BY <1>3, <1>5, <1>6, <1>8, <1>9

LEMMA SwapKeeps ==
  ASSUME Modest, MdbInv, NEW c \in Cmd, Mdb!Swap(c)
  PROVE  OneSync' /\ Mdb!LinksWhole' /\ TipInv' /\ SyncInv' /\ StampInv' /\ ReadInv'
<1>. DEFINE g == mdbCmd[c].gen
            s == mdbCmd[c].sha
<1>a. None \notin Sha
  BY DEF Modest, Mdb!MdbAssumption
<1>0. UNCHANGED <<tip, mdbTree, mdbStamp, mdbDeaths>> /\ mdbCmd[c].at = "swap"
  BY DEF Mdb!Swap
<1>1. \A d \in Cmd : d # c => mdbCmd'[d] = mdbCmd[d]
  BY DEF Mdb!Swap, MdbInv, Mdb!TypeOK
<1>2. g \in Gen /\ s \in Sha /\ genOf[s] = g /\ mdbTree[s] = "whole"
  BY <1>0 DEF MdbInv, SyncInv, Knows
<1>3. mdbLink'[g] = s /\ \A h \in Gen : h # g => mdbLink'[h] = mdbLink[h]
  BY <1>2 DEF Mdb!Swap, MdbInv, Mdb!TypeOK
<1>4. /\ mdbCmd'[c].gen = g /\ mdbCmd'[c].sha = s /\ mdbCmd'[c].old = mdbLink[g]
      /\ mdbCmd'[c].at = IF mdbLink[g] = s THEN "list" ELSE "unstamp"
  BY DEF Mdb!Swap, MdbInv, Mdb!TypeOK
<1>5. /\ OneSync' /\ (Knows(c)' => SyncInv')
      /\ \A d \in Cmd : d # c => mdbCmd[d].at \in {"idle", "read"}
  BY <1>0, <1>1, OthersRest DEF Syncing
<1>6. Mdb!LinksWhole' /\ TipInv'
  BY <1>0, <1>2, <1>3 DEF MdbInv, Mdb!LinksWhole, TipInv
<1>7. Knows(c)'
  BY <1>2, <1>3, <1>4 DEF Knows, Moving, Sweeping, MdbInv, Mdb!LinksWhole
<1>8. StampInv'
  <2>. SUFFICES ASSUME mdbDeaths = 0
       PROVE  /\ \A h \in Gen : mdbLink'[h] # None =>
                   mdbStamp[mdbLink'[h]] = None \/ \E d \in Cmd : mdbCmd'[d].at = "unstamp" /\ mdbCmd'[d].sha = mdbLink'[h]
              /\ \A d \in Cmd : Moving(d)' /\ mdbCmd'[d].old # None => mdbStamp[mdbCmd'[d].old] = None
    BY <1>0 DEF StampInv
  <2>1. \A h \in Gen : mdbLink[h] # None => mdbStamp[mdbLink[h]] = None
    BY <1>0, <1>5 DEF MdbInv, StampInv
  <2>2. \A d \in Cmd : Moving(d)' => d = c
    BY <1>1, <1>5 DEF Moving
  <2>. QED BY <1>2, <1>3, <1>4, <2>1, <2>2
<1>9. ReadInv'
  <2>. SUFFICES ASSUME NEW d \in Cmd, Fresh(d)' PROVE ReadsWhole(d)'
    BY DEF ReadInv, ReadsWhole
  <2>1. mdbCmd'[d] = mdbCmd[d] /\ ReadsWhole(d) /\ Fresh(d) /\ mdbCmd[d].sha \in Sha
    BY <1>1, <1>4 DEF MdbInv, ReadInv, Fresh, SyncInv, Knows
  <2>2. \A e \in Cmd : mdbCmd'[e].at # "remove" /\ ~Moving(e)
    BY <1>0, <1>1, <1>4, <1>5 DEF Moving
  <2>3. Spares(d)'
    <3>1. CASE \E h \in Gen : h # g /\ mdbLink[h] = mdbCmd[d].sha
      BY <3>1, <1>3, <2>1 DEF Spares
    <3>2. CASE mdbLink[g] = mdbCmd[d].sha
      BY <3>2, <1>2, <1>3, <1>4, <2>1 DEF Spares, Moving
    <3>3. CASE ~\E h \in Gen : mdbLink[h] = mdbCmd[d].sha
      BY <3>3, <2>1, <2>2, <1>0 DEF Spares, ReadsWhole
    <3>. QED BY <3>1, <3>2, <3>3
  <2>. QED BY <2>1, <2>2, <2>3, <1>0 DEF ReadsWhole
<1>. QED BY <1>5, <1>6, <1>7, <1>8, <1>9

LEMMA UnstampKeeps ==
  ASSUME Modest, MdbInv, NEW c \in Cmd, Mdb!Unstamp(c)
  PROVE  OneSync' /\ Mdb!LinksWhole' /\ TipInv' /\ SyncInv' /\ StampInv' /\ ReadInv'
<1>. DEFINE s == mdbCmd[c].sha
<1>a. None \notin Nat /\ None \notin Sha
  BY DEF Modest, Mdb!MdbAssumption
<1>0. UNCHANGED <<tip, mdbTree, mdbLink, mdbDeaths>> /\ mdbCmd[c].at = "unstamp"
  BY DEF Mdb!Unstamp
<1>1. \A d \in Cmd : d # c => mdbCmd'[d] = mdbCmd[d]
  BY DEF Mdb!Unstamp, MdbInv, Mdb!TypeOK
<1>2. /\ mdbCmd[c].gen \in Gen /\ s \in Sha /\ mdbLink[mdbCmd[c].gen] = s
      /\ mdbCmd[c].old # s
      /\ mdbCmd[c].old # None => genOf[mdbCmd[c].old] = mdbCmd[c].gen
  BY <1>0 DEF MdbInv, SyncInv, Knows, Moving
<1>3. /\ mdbCmd'[c].at = "stamp" /\ mdbCmd'[c].gen = mdbCmd[c].gen /\ mdbCmd'[c].sha = s
      /\ mdbCmd'[c].old = mdbCmd[c].old
  BY DEF Mdb!Unstamp, MdbInv, Mdb!TypeOK
<1>4. mdbStamp'[s] = None /\ \A r \in Sha : r # s => mdbStamp'[r] = mdbStamp[r]
  BY <1>2 DEF Mdb!Unstamp, MdbInv, Mdb!TypeOK
<1>5. /\ OneSync' /\ (Knows(c)' => SyncInv')
      /\ \A d \in Cmd : d # c => mdbCmd[d].at \in {"idle", "read"}
  BY <1>0, <1>1, OthersRest DEF Syncing
<1>6. Mdb!LinksWhole' /\ TipInv'
  BY <1>0 DEF MdbInv, Mdb!LinksWhole, TipInv
<1>7. Knows(c)'
  BY <1>0, <1>2, <1>3 DEF Knows, Moving, Sweeping
<1>8. StampInv'
  <2>. SUFFICES ASSUME mdbDeaths = 0
       PROVE  /\ \A h \in Gen : mdbLink[h] # None => mdbStamp'[mdbLink[h]] = None
              /\ \A d \in Cmd : Moving(d)' /\ mdbCmd'[d].old # None => mdbStamp'[mdbCmd'[d].old] = None
    BY <1>0 DEF StampInv
  <2>1. ASSUME NEW h \in Gen, mdbLink[h] # None PROVE mdbStamp'[mdbLink[h]] = None
    <3>1. mdbLink[h] \in Sha
      BY <2>1 DEF MdbInv, Mdb!TypeOK
    <3>2. mdbStamp[mdbLink[h]] = None \/ mdbLink[h] = s
      BY <2>1, <1>0, <1>5 DEF MdbInv, StampInv
    <3>. QED BY <3>1, <3>2, <1>4
  <2>2. \A d \in Cmd : Moving(d)' => d = c
    BY <1>1, <1>5 DEF Moving
  <2>3. mdbCmd[c].old # None => mdbCmd[c].old \in Sha /\ mdbStamp[mdbCmd[c].old] = None
    BY <1>0 DEF MdbInv, StampInv, Moving, Mdb!TypeOK
  <2>. QED BY <1>2, <1>3, <1>4, <2>1, <2>2, <2>3
<1>9. ReadInv'
  <2>. SUFFICES ASSUME NEW d \in Cmd, Fresh(d)' PROVE ReadsWhole(d)'
    BY DEF ReadInv, ReadsWhole
  <2>1. mdbCmd'[d] = mdbCmd[d] /\ ReadsWhole(d) /\ Fresh(d) /\ mdbCmd[d].sha \in Sha
    BY <1>1, <1>3 DEF MdbInv, ReadInv, Fresh, SyncInv, Knows
  <2>2. \A e \in Cmd : mdbCmd'[e].at # "remove" /\ (Moving(e) => e = c)
    BY <1>0, <1>1, <1>3, <1>5 DEF Moving
  <2>3. Spares(d)'
    BY <2>1, <2>2, <1>0, <1>2, <1>3, <1>4 DEF Spares, ReadsWhole, Moving
  <2>. QED BY <2>1, <2>2, <2>3, <1>0 DEF ReadsWhole
<1>. QED BY <1>5, <1>6, <1>7, <1>8, <1>9

LEMMA StampKeeps ==
  ASSUME Modest, MdbInv, NEW c \in Cmd, Mdb!StampOld(c)
  PROVE  OneSync' /\ Mdb!LinksWhole' /\ TipInv' /\ SyncInv' /\ StampInv' /\ ReadInv'
<1>. DEFINE s == mdbCmd[c].old
<1>a. None \notin Nat /\ None \notin Sha /\ Grace \in Nat
  BY DEF Modest, Mdb!MdbAssumption
<1>0. UNCHANGED <<tip, mdbTree, mdbLink, mdbDeaths>> /\ mdbCmd[c].at = "stamp"
  BY DEF Mdb!StampOld
<1>1. \A d \in Cmd : d # c => mdbCmd'[d] = mdbCmd[d]
  BY DEF Mdb!StampOld, MdbInv, Mdb!TypeOK
<1>2. /\ mdbCmd[c].gen \in Gen /\ mdbLink[mdbCmd[c].gen] = mdbCmd[c].sha
      /\ s # mdbCmd[c].sha
      /\ s # None => s \in Sha /\ genOf[s] = mdbCmd[c].gen
  BY <1>0 DEF MdbInv, SyncInv, Knows, Moving, Mdb!TypeOK
<1>3. /\ mdbCmd'[c].at = "list" /\ mdbCmd'[c].gen = mdbCmd[c].gen /\ mdbCmd'[c].sha = mdbCmd[c].sha
  BY DEF Mdb!StampOld, MdbInv, Mdb!TypeOK
<1>4. /\ s # None => mdbStamp'[s] = 0
      /\ \A r \in Sha : r # s => mdbStamp'[r] = mdbStamp[r]
  BY <1>2 DEF Mdb!StampOld, MdbInv, Mdb!TypeOK
<1>5. /\ OneSync' /\ (Knows(c)' => SyncInv')
      /\ \A d \in Cmd : d # c => mdbCmd[d].at \in {"idle", "read"}
  BY <1>0, <1>1, OthersRest DEF Syncing
<1>6. Mdb!LinksWhole' /\ TipInv'
  BY <1>0 DEF MdbInv, Mdb!LinksWhole, TipInv
<1>7. Knows(c)'
  BY <1>0, <1>2, <1>3 DEF Knows, Moving, Sweeping
<1>b. \A d \in Cmd : ~Moving(d)' /\ mdbCmd[d].at # "unstamp" /\ (Moving(d) => d = c)
  BY <1>0, <1>1, <1>3, <1>5 DEF Moving
<1>8. StampInv'
  <2>. SUFFICES ASSUME mdbDeaths = 0, NEW h \in Gen, mdbLink[h] # None
       PROVE  mdbStamp'[mdbLink[h]] = None
    BY <1>0, <1>b DEF StampInv
  <2>1. mdbLink[h] \in Sha /\ genOf[mdbLink[h]] = h
    BY DEF MdbInv, Mdb!TypeOK, Mdb!LinksWhole
  <2>2. mdbStamp[mdbLink[h]] = None
    BY <1>b DEF MdbInv, StampInv
  <2>3. mdbLink[h] # s
    BY <2>1, <1>2, <1>a
  <2>. QED BY <2>1, <2>2, <2>3, <1>4
<1>9. ReadInv'
  <2>. SUFFICES ASSUME NEW d \in Cmd, Fresh(d)' PROVE ReadsWhole(d)'
    BY DEF ReadInv, ReadsWhole
  <2>1. /\ mdbCmd'[d] = mdbCmd[d] /\ ReadsWhole(d) /\ Fresh(d) /\ mdbCmd[d].sha \in Sha
        /\ mdbCmd[d].age \in 0..Grace
    BY <1>1, <1>3 DEF MdbInv, ReadInv, Fresh, SyncInv, Knows, Mdb!TypeOK
  <2>2. \A e \in Cmd : mdbCmd'[e].at # "remove"
    BY <1>1, <1>3, <1>5
  <2>3. Spares(d)'
    <3>1. CASE mdbCmd[d].sha = s
      BY <3>1, <2>1, <1>4, <1>a DEF Spares
    <3>2. CASE mdbCmd[d].sha # s
      BY <3>2, <2>1, <1>0, <1>4, <1>b DEF Spares, ReadsWhole
    <3>. QED BY <3>1, <3>2
  <2>. QED BY <2>1, <2>2, <2>3, <1>0 DEF ReadsWhole
<1>. QED BY <1>5, <1>6, <1>7, <1>8, <1>9

LEMMA ListKeeps ==
  ASSUME Modest, MdbInv, NEW c \in Cmd, Mdb!List(c)
  PROVE  OneSync' /\ Mdb!LinksWhole' /\ TipInv' /\ SyncInv' /\ StampInv' /\ ReadInv'
<1>0. UNCHANGED <<tip, mdbTree, mdbLink, mdbStamp, mdbDeaths>> /\ mdbCmd[c].at = "list"
  BY DEF Mdb!List
<1>1. \A d \in Cmd : d # c => mdbCmd'[d] = mdbCmd[d]
  BY DEF Mdb!List, MdbInv, Mdb!TypeOK
<1>2. /\ mdbCmd'[c].at = "prune" /\ mdbCmd'[c].gen = mdbCmd[c].gen /\ mdbCmd'[c].sha = mdbCmd[c].sha
      /\ mdbCmd'[c].refs = Mdb!Linked /\ mdbCmd'[c].todo = {s \in Sha : mdbStamp[s] # None}
  BY DEF Mdb!List, MdbInv, Mdb!TypeOK
<1>3. /\ OneSync' /\ (Knows(c)' => SyncInv')
      /\ \A d \in Cmd : d # c => mdbCmd[d].at \in {"idle", "read"}
  BY <1>0, <1>1, OthersRest DEF Syncing
<1>4. Knows(c)'
  <2>1. mdbCmd[c].gen \in Gen /\ (mdbCmd[c].sha # None => mdbLink[mdbCmd[c].gen] = mdbCmd[c].sha)
    BY <1>0 DEF MdbInv, SyncInv, Knows
  <2>2. Mdb!Linked' = Mdb!Linked
    BY <1>0 DEF Mdb!Linked
  <2>. QED BY <1>0, <1>2, <2>1, <2>2 DEF Knows, Moving, Sweeping
<1>5. Mdb!LinksWhole' /\ TipInv'
  BY <1>0 DEF MdbInv, Mdb!LinksWhole, TipInv
<1>6. \A d \in Cmd : (Moving(d)' \/ mdbCmd'[d].at \in {"unstamp", "remove", "read"}
                       \/ Moving(d) \/ mdbCmd[d].at \in {"unstamp", "read"}) =>
                     mdbCmd'[d] = mdbCmd[d]
  BY <1>0, <1>1, <1>2 DEF Moving
<1>7. StampInv'
  BY <1>0, <1>6 DEF MdbInv, StampInv, Moving
<1>8. ReadInv'
  <2>. SUFFICES ASSUME NEW d \in Cmd, Fresh(d)' PROVE ReadsWhole(d)'
    BY DEF ReadInv, ReadsWhole
  <2>1. mdbCmd'[d] = mdbCmd[d] /\ ReadsWhole(d) /\ Fresh(d)
    BY <1>6 DEF MdbInv, ReadInv, Fresh
  <2>. QED BY <2>1, <1>0, <1>6 DEF ReadsWhole, Spares, Moving
<1>. QED BY <1>3, <1>4, <1>5, <1>7, <1>8

LEMMA PruneKeeps ==
  ASSUME Modest, MdbInv, NEW c \in Cmd, Mdb!PruneOne(c)
  PROVE  OneSync' /\ Mdb!LinksWhole' /\ TipInv' /\ SyncInv' /\ StampInv' /\ ReadInv'
<1>a. None \notin Sha /\ Grace \in Nat
  BY DEF Modest, Mdb!MdbAssumption
<1>0. UNCHANGED <<tip, mdbTree, mdbLink, mdbStamp, mdbDeaths>> /\ mdbCmd[c].at = "prune"
  BY DEF Mdb!PruneOne
<1>1. \A d \in Cmd : d # c => mdbCmd'[d] = mdbCmd[d]
  BY DEF Mdb!PruneOne, MdbInv, Mdb!TypeOK
<1>b. /\ mdbCmd[c].gen \in Gen /\ (mdbCmd[c].sha # None => mdbLink[mdbCmd[c].gen] = mdbCmd[c].sha)
      /\ mdbCmd[c].refs = Mdb!Linked /\ mdbCmd[c].todo \subseteq Sha
      /\ \A s \in mdbCmd[c].todo : mdbStamp[s] # None
  BY <1>0 DEF MdbInv, SyncInv, Knows, Sweeping, Mdb!TypeOK
<1>2. PICK s \in mdbCmd[c].todo :
        /\ mdbCmd'[c].gen = mdbCmd[c].gen /\ mdbCmd'[c].sha = mdbCmd[c].sha
        /\ mdbCmd'[c].refs = Mdb!Linked /\ mdbCmd'[c].todo = mdbCmd[c].todo \ {s} /\ mdbCmd'[c].old = s
        /\ mdbCmd'[c].at = IF s \in Mdb!Linked THEN "drop"
                        ELSE IF mdbStamp[s] > Grace THEN "remove" ELSE "prune"
  <2>1. PICK s \in mdbCmd[c].todo :
          mdbCmd' = [mdbCmd EXCEPT ![c] =
                 [@ EXCEPT !.todo = mdbCmd[c].todo \ {s}, !.old = s,
                           !.at = IF s \in mdbCmd[c].refs THEN "drop"
                                  ELSE IF mdbStamp[s] > Grace THEN "remove" ELSE "prune"]]
    BY DEF Mdb!PruneOne
  <2>2. /\ mdbCmd'[c].gen = mdbCmd[c].gen /\ mdbCmd'[c].sha = mdbCmd[c].sha
        /\ mdbCmd'[c].refs = mdbCmd[c].refs /\ mdbCmd'[c].todo = mdbCmd[c].todo \ {s} /\ mdbCmd'[c].old = s
        /\ mdbCmd'[c].at = IF s \in mdbCmd[c].refs THEN "drop"
                        ELSE IF mdbStamp[s] > Grace THEN "remove" ELSE "prune"
    BY <2>1 DEF MdbInv, Mdb!TypeOK
  <2>. QED BY <2>2, <1>b
<1>c. mdbCmd'[c].at \in {"prune", "drop", "remove"}
  BY <1>2
<1>3. /\ OneSync' /\ (Knows(c)' => SyncInv')
      /\ \A d \in Cmd : d # c => mdbCmd[d].at \in {"idle", "read"}
  BY <1>0, <1>1, OthersRest DEF Syncing
<1>4. Knows(c)'
  <2>1. Mdb!Linked' = Mdb!Linked
    BY <1>0 DEF Mdb!Linked
  <2>2. mdbCmd'[c].at = "remove" => s \notin Mdb!Linked
    BY <1>2
  <2>. QED BY <1>0, <1>b, <1>c, <1>2, <2>1, <2>2 DEF Knows, Moving, Sweeping
<1>5. Mdb!LinksWhole' /\ TipInv'
  BY <1>0 DEF MdbInv, Mdb!LinksWhole, TipInv
<1>6. \A d \in Cmd : /\ ~Moving(d) /\ ~Moving(d)' /\ mdbCmd[d].at # "unstamp"
                     /\ mdbCmd'[d].at = "read" => mdbCmd'[d] = mdbCmd[d]
                     /\ mdbCmd'[d].at = "remove" => d = c
  BY <1>0, <1>1, <1>3, <1>c DEF Moving
<1>7. StampInv'
  BY <1>0, <1>6 DEF MdbInv, StampInv
<1>8. ReadInv'
  <2>. SUFFICES ASSUME NEW d \in Cmd, Fresh(d)' PROVE ReadsWhole(d)'
    BY DEF ReadInv, ReadsWhole
  <2>1. /\ mdbCmd'[d] = mdbCmd[d] /\ ReadsWhole(d) /\ Fresh(d) /\ mdbCmd[d].sha \in Sha
        /\ mdbCmd[d].age \in 0..Grace
    BY <1>6 DEF MdbInv, ReadInv, Fresh, SyncInv, Knows, Mdb!TypeOK
  <2>2. Spares(d) /\ ~\E e \in Cmd : Moving(e)
    BY <2>1, <1>6 DEF ReadsWhole
  <2>3. Spares(d)'
    BY <2>1, <2>2, <1>0 DEF Spares
  <2>4. mdbCmd'[c].at = "remove" => s # mdbCmd[d].sha
    <3>. SUFFICES ASSUME mdbCmd'[c].at = "remove", s = mdbCmd[d].sha PROVE FALSE
      OBVIOUS
    <3>1. s \notin Mdb!Linked /\ mdbStamp[s] > Grace
      BY <1>2
    <3>2. mdbStamp[s] # None /\ mdbStamp[s] \in 0..Grace + 1
      BY <1>b, <2>1 DEF MdbInv, Mdb!TypeOK
    <3>3. ~\E g \in Gen : mdbLink[g] = s
      BY <3>1, <2>1, <1>a DEF Mdb!Linked
    <3>. QED BY <2>1, <2>2, <3>1, <3>2, <3>3, <1>a DEF Spares, Fresh
  <2>. QED BY <2>1, <2>3, <2>4, <1>0, <1>2, <1>6 DEF ReadsWhole
<1>. QED BY <1>3, <1>4, <1>5, <1>7, <1>8

LEMMA RemoveKeeps ==
  ASSUME Modest, MdbInv, NEW c \in Cmd, Mdb!Remove(c)
  PROVE  OneSync' /\ Mdb!LinksWhole' /\ TipInv' /\ SyncInv' /\ StampInv' /\ ReadInv'
<1>. DEFINE s == mdbCmd[c].old
<1>0. UNCHANGED <<tip, mdbLink, mdbStamp, mdbDeaths>> /\ mdbCmd[c].at = "remove"
  BY DEF Mdb!Remove
<1>1. \A d \in Cmd : d # c => mdbCmd'[d] = mdbCmd[d]
  BY DEF Mdb!Remove, MdbInv, Mdb!TypeOK
<1>2. /\ mdbCmd[c].gen \in Gen /\ (mdbCmd[c].sha # None => mdbLink[mdbCmd[c].gen] = mdbCmd[c].sha)
      /\ mdbCmd[c].refs = Mdb!Linked /\ s \in Sha /\ s \notin mdbCmd[c].todo
      /\ s \notin Mdb!Linked
      /\ \A r \in mdbCmd[c].todo : mdbStamp[r] # None
  BY <1>0 DEF MdbInv, SyncInv, Knows, Sweeping
<1>3. /\ mdbCmd'[c].at = "drop" /\ mdbCmd'[c].gen = mdbCmd[c].gen /\ mdbCmd'[c].sha = mdbCmd[c].sha
      /\ mdbCmd'[c].refs = mdbCmd[c].refs /\ mdbCmd'[c].todo = mdbCmd[c].todo /\ mdbCmd'[c].old = s
  BY DEF Mdb!Remove, MdbInv, Mdb!TypeOK
<1>4. mdbTree'[s] = "none" /\ \A r \in Sha : r # s => mdbTree'[r] = mdbTree[r]
  BY <1>2 DEF Mdb!Remove, MdbInv, Mdb!TypeOK
<1>5. /\ OneSync' /\ (Knows(c)' => SyncInv')
      /\ \A d \in Cmd : d # c => mdbCmd[d].at \in {"idle", "read"}
  BY <1>0, <1>1, OthersRest DEF Syncing
<1>6. Knows(c)'
  <2>1. Mdb!Linked' = Mdb!Linked
    BY <1>0 DEF Mdb!Linked
  <2>. QED BY <1>0, <1>2, <1>3, <2>1 DEF Knows, Moving, Sweeping
<1>7. Mdb!LinksWhole' /\ TipInv'
  BY <1>0, <1>2, <1>4 DEF MdbInv, Mdb!TypeOK, Mdb!LinksWhole, TipInv, Mdb!Linked
<1>8. \A d \in Cmd : /\ ~Moving(d) /\ ~Moving(d)' /\ mdbCmd[d].at # "unstamp"
                     /\ mdbCmd'[d].at = "read" => mdbCmd'[d] = mdbCmd[d]
                     /\ mdbCmd'[d].at # "remove"
  BY <1>0, <1>1, <1>3, <1>5 DEF Moving
<1>9. StampInv'
  BY <1>0, <1>8 DEF MdbInv, StampInv
<1>10. ReadInv'
  <2>. SUFFICES ASSUME NEW d \in Cmd, Fresh(d)' PROVE ReadsWhole(d)'
    BY DEF ReadInv, ReadsWhole
  <2>1. mdbCmd'[d] = mdbCmd[d] /\ ReadsWhole(d) /\ Fresh(d) /\ mdbCmd[d].sha \in Sha
    BY <1>8 DEF MdbInv, ReadInv, Fresh, SyncInv, Knows
  <2>2. mdbCmd[d].sha # s
    BY <1>0, <2>1 DEF ReadsWhole
  <2>. QED BY <2>1, <2>2, <1>0, <1>4, <1>8 DEF ReadsWhole, Spares
<1>. QED BY <1>5, <1>6, <1>7, <1>9, <1>10

LEMMA DropKeeps ==
  ASSUME Modest, MdbInv, NEW c \in Cmd, Mdb!DropStamp(c)
  PROVE  OneSync' /\ Mdb!LinksWhole' /\ TipInv' /\ SyncInv' /\ StampInv' /\ ReadInv'
<1>. DEFINE s == mdbCmd[c].old
<1>0. UNCHANGED <<tip, mdbTree, mdbLink, mdbDeaths>> /\ mdbCmd[c].at = "drop"
  BY DEF Mdb!DropStamp
<1>1. \A d \in Cmd : d # c => mdbCmd'[d] = mdbCmd[d]
  BY DEF Mdb!DropStamp, MdbInv, Mdb!TypeOK
<1>2. /\ mdbCmd[c].gen \in Gen /\ (mdbCmd[c].sha # None => mdbLink[mdbCmd[c].gen] = mdbCmd[c].sha)
      /\ mdbCmd[c].refs = Mdb!Linked /\ s \in Sha /\ s \notin mdbCmd[c].todo
      /\ mdbCmd[c].todo \subseteq Sha /\ \A r \in mdbCmd[c].todo : mdbStamp[r] # None
  BY <1>0 DEF MdbInv, SyncInv, Knows, Sweeping, Mdb!TypeOK
<1>3. /\ mdbCmd'[c].at = "prune" /\ mdbCmd'[c].gen = mdbCmd[c].gen /\ mdbCmd'[c].sha = mdbCmd[c].sha
      /\ mdbCmd'[c].refs = mdbCmd[c].refs /\ mdbCmd'[c].todo = mdbCmd[c].todo
  BY DEF Mdb!DropStamp, MdbInv, Mdb!TypeOK
<1>4. mdbStamp'[s] = None /\ \A r \in Sha : r # s => mdbStamp'[r] = mdbStamp[r]
  BY <1>2 DEF Mdb!DropStamp, MdbInv, Mdb!TypeOK
<1>5. /\ OneSync' /\ (Knows(c)' => SyncInv')
      /\ \A d \in Cmd : d # c => mdbCmd[d].at \in {"idle", "read"}
  BY <1>0, <1>1, OthersRest DEF Syncing
<1>6. Knows(c)'
  <2>1. Mdb!Linked' = Mdb!Linked
    BY <1>0 DEF Mdb!Linked
  <2>2. \A r \in mdbCmd[c].todo : mdbStamp'[r] # None
    BY <1>2, <1>4
  <2>. QED BY <1>0, <1>2, <1>3, <2>1, <2>2 DEF Knows, Moving, Sweeping
<1>7. Mdb!LinksWhole' /\ TipInv'
  BY <1>0 DEF MdbInv, Mdb!LinksWhole, TipInv
<1>8. \A d \in Cmd : /\ ~Moving(d) /\ ~Moving(d)' /\ mdbCmd[d].at # "unstamp"
                     /\ mdbCmd'[d].at = "read" => mdbCmd'[d] = mdbCmd[d]
                     /\ mdbCmd'[d].at # "remove"
  BY <1>0, <1>1, <1>3, <1>5 DEF Moving
<1>9. StampInv'
  <2>1. \A g \in Gen : mdbLink[g] # None => mdbLink[g] \in Sha
    BY DEF MdbInv, Mdb!TypeOK
  <2>. QED BY <1>0, <1>4, <1>8, <2>1 DEF MdbInv, StampInv
<1>10. ReadInv'
  <2>. SUFFICES ASSUME NEW d \in Cmd, Fresh(d)' PROVE ReadsWhole(d)'
    BY DEF ReadInv, ReadsWhole
  <2>1. mdbCmd'[d] = mdbCmd[d] /\ ReadsWhole(d) /\ Fresh(d) /\ mdbCmd[d].sha \in Sha
    BY <1>8 DEF MdbInv, ReadInv, Fresh, SyncInv, Knows
  <2>. QED BY <2>1, <1>0, <1>4, <1>8 DEF ReadsWhole, Spares
<1>. QED BY <1>5, <1>6, <1>7, <1>9, <1>10

LEMMA SyncedKeeps ==
  ASSUME Modest, MdbInv, NEW c \in Cmd, Mdb!Synced(c)
  PROVE  OneSync' /\ Mdb!LinksWhole' /\ TipInv' /\ SyncInv' /\ StampInv' /\ ReadInv'
<1>0. UNCHANGED <<tip, mdbTree, mdbLink, mdbStamp, mdbDeaths>> /\ mdbCmd[c].at = "prune"
  BY DEF Mdb!Synced
<1>1. \A d \in Cmd : d # c => mdbCmd'[d] = mdbCmd[d]
  BY DEF Mdb!Synced, MdbInv, Mdb!TypeOK
<1>2. mdbCmd[c].gen \in Gen /\ (mdbCmd[c].sha # None => mdbLink[mdbCmd[c].gen] = mdbCmd[c].sha)
  BY <1>0 DEF MdbInv, SyncInv, Knows, Sweeping
<1>3. \/ mdbCmd'[c] = Mdb!Idle
      \/ mdbCmd[c].sha # None /\ mdbCmd'[c] = Mdb!Reads(mdbCmd[c].gen, mdbCmd[c].sha)
  BY DEF Mdb!Synced, MdbInv, Mdb!TypeOK
<1>4. /\ mdbCmd'[c].at \in {"idle", "read"}
      /\ mdbCmd'[c].at = "read" =>
           /\ mdbCmd'[c].gen \in Gen /\ mdbLink[mdbCmd'[c].gen] = mdbCmd'[c].sha
           /\ mdbCmd'[c].sha \in Sha
  BY <1>2, <1>3 DEF Mdb!Idle, Mdb!Reads, Mdb!At, MdbInv, Mdb!TypeOK
<1>5. /\ OneSync' /\ (Knows(c)' => SyncInv')
      /\ \A d \in Cmd : d # c => mdbCmd[d].at \in {"idle", "read"}
  BY <1>0, <1>1, OthersRest DEF Syncing
<1>6. Knows(c)'
  BY <1>4 DEF Knows, Moving, Sweeping
<1>7. Mdb!LinksWhole' /\ TipInv'
  BY <1>0 DEF MdbInv, Mdb!LinksWhole, TipInv
<1>8. \A d \in Cmd : /\ ~Moving(d) /\ ~Moving(d)' /\ mdbCmd[d].at # "unstamp"
                     /\ mdbCmd'[d].at # "remove"
  BY <1>0, <1>1, <1>4, <1>5 DEF Moving
<1>9. StampInv'
  BY <1>0, <1>8 DEF MdbInv, StampInv
<1>10. ReadInv'
  <2>. SUFFICES ASSUME NEW d \in Cmd, Fresh(d)' PROVE ReadsWhole(d)'
    BY DEF ReadInv, ReadsWhole
  <2>1. CASE d = c
    <3>1. PICK g \in Gen : mdbLink[g] = mdbCmd'[d].sha /\ mdbTree[mdbLink[g]] = "whole"
      <4>1. mdbLink[mdbCmd'[c].gen] = mdbCmd'[c].sha /\ mdbCmd'[c].gen \in Gen /\ mdbCmd'[c].sha \in Sha
        BY <2>1, <1>4 DEF Fresh
      <4>. QED BY <4>1, <2>1 DEF MdbInv, Mdb!LinksWhole, Modest, Mdb!MdbAssumption
    <3>. QED BY <3>1, <1>0, <1>8 DEF ReadsWhole, Spares
  <2>2. CASE d # c
    <3>1. mdbCmd'[d] = mdbCmd[d] /\ ReadsWhole(d) /\ Fresh(d)
      BY <2>2, <1>1 DEF MdbInv, ReadInv, Fresh
    <3>. QED BY <3>1, <1>0, <1>8 DEF ReadsWhole, Spares
  <2>. QED BY <2>1, <2>2
<1>. QED BY <1>5, <1>6, <1>7, <1>9, <1>10

LEMMA LockKeeps ==
  ASSUME Modest, MdbInv, NEW c \in Cmd, NEW g \in Gen, Mdb!Lock(c, g)
  PROVE  OneSync' /\ Mdb!LinksWhole' /\ TipInv' /\ SyncInv' /\ StampInv' /\ ReadInv'
<1>0. UNCHANGED <<tip, mdbTree, mdbLink, mdbStamp, mdbDeaths>> /\ mdbCmd[c].at = "idle"
  BY DEF Mdb!Lock
<1>1. \A d \in Cmd : d # c => mdbCmd'[d] = mdbCmd[d]
  BY DEF Mdb!Lock, MdbInv, Mdb!TypeOK
<1>2. mdbCmd'[c].at = "fetch" /\ mdbCmd'[c].gen = g
  BY DEF Mdb!Lock, Mdb!At, MdbInv, Mdb!TypeOK
<1>3. \A d \in Cmd : mdbCmd[d].at \in {"idle", "read"}
  BY DEF Mdb!Lock, Mdb!Locked
<1>4. OneSync'
  BY <1>1, <1>3 DEF OneSync, Syncing
<1>5. SyncInv'
  <2>. SUFFICES ASSUME NEW d \in Cmd PROVE Knows(d)'
    BY DEF SyncInv
  <2>1. CASE d = c
    BY <2>1, <1>2 DEF Knows, Moving, Sweeping
  <2>2. CASE d # c
    BY <2>2, <1>1, <1>3 DEF MdbInv, SyncInv, Knows, Moving, Sweeping
  <2>. QED BY <2>1, <2>2
<1>6. Mdb!LinksWhole' /\ TipInv'
  BY <1>0 DEF MdbInv, Mdb!LinksWhole, TipInv
<1>7. \A d \in Cmd : /\ ~Moving(d) /\ ~Moving(d)' /\ mdbCmd[d].at # "unstamp"
                     /\ mdbCmd'[d].at # "remove"
                     /\ mdbCmd'[d].at = "read" => mdbCmd'[d] = mdbCmd[d]
  BY <1>1, <1>2, <1>3 DEF Moving
<1>8. StampInv'
  BY <1>0, <1>7 DEF MdbInv, StampInv
<1>9. ReadInv'
  <2>. SUFFICES ASSUME NEW d \in Cmd, Fresh(d)' PROVE ReadsWhole(d)'
    BY DEF ReadInv, ReadsWhole
  <2>1. mdbCmd'[d] = mdbCmd[d] /\ ReadsWhole(d) /\ Fresh(d)
    BY <1>7 DEF MdbInv, ReadInv, Fresh
  <2>. QED BY <2>1, <1>0, <1>7 DEF ReadsWhole, Spares
<1>. QED BY <1>4, <1>5, <1>6, <1>8, <1>9

(* The one death leaves no stamp on the tree that a sync has just left.    *)
LEMMA DieKeeps ==
  ASSUME Modest, MdbInv, NEW c \in Cmd, Mdb!Die(c)
  PROVE  OneSync' /\ Mdb!LinksWhole' /\ TipInv' /\ SyncInv' /\ StampInv' /\ ReadInv'
<1>a. None \notin Sha
  BY DEF Modest, Mdb!MdbAssumption
<1>0. /\ UNCHANGED <<tip, mdbLink, mdbStamp>> /\ Syncing(c)
      /\ mdbDeaths = 0 /\ mdbDeaths' # 0
  <2>1. UNCHANGED <<tip, mdbLink, mdbStamp>> /\ Syncing(c)
    BY DEF Mdb!Die, Syncing
  <2>2. MaxDeaths \in Nat /\ MaxDeaths <= 1 /\ mdbDeaths \in 0..MaxDeaths
    BY DEF Modest, Mdb!MdbAssumption, MdbInv, Mdb!TypeOK
  <2>3. mdbDeaths < MaxDeaths /\ mdbDeaths' = mdbDeaths + 1
    BY DEF Mdb!Die
  <2>. QED BY <2>1, <2>2, <2>3
<1>1. \A d \in Cmd : d # c => mdbCmd'[d] = mdbCmd[d]
  BY DEF Mdb!Die, MdbInv, Mdb!TypeOK
<1>2. mdbCmd'[c].at = "idle"
  BY DEF Mdb!Die, Mdb!Idle, Mdb!At, MdbInv, Mdb!TypeOK
<1>3. /\ OneSync' /\ (Knows(c)' => SyncInv')
      /\ \A d \in Cmd : d # c => mdbCmd[d].at \in {"idle", "read"}
  BY <1>0, <1>1, OthersRest
<1>4. Knows(c)'
  BY <1>2 DEF Knows, Moving, Sweeping
<1>5. \/ UNCHANGED mdbTree
      \/ /\ mdbCmd[c].at = "remove" /\ mdbCmd[c].old \in Sha
         /\ tip[genOf[mdbCmd[c].old]] # mdbCmd[c].old
         /\ \A r \in Sha : r # mdbCmd[c].old => mdbTree'[r] = mdbTree[r]
         /\ \A g \in Gen : mdbLink[g] # mdbCmd[c].old
  <2>. SUFFICES ASSUME ~UNCHANGED mdbTree
       PROVE  /\ mdbCmd[c].at = "remove" /\ mdbCmd[c].old \in Sha
              /\ tip[genOf[mdbCmd[c].old]] # mdbCmd[c].old
              /\ \A r \in Sha : r # mdbCmd[c].old => mdbTree'[r] = mdbTree[r]
              /\ \A g \in Gen : mdbLink[g] # mdbCmd[c].old
    OBVIOUS
  <2>1. /\ mdbCmd[c].at = "remove" /\ tip[genOf[mdbCmd[c].old]] # mdbCmd[c].old
        /\ mdbTree' = [mdbTree EXCEPT ![mdbCmd[c].old] = "half"]
    BY DEF Mdb!Die, Modest
  <2>2. mdbCmd[c].old \in Sha /\ mdbCmd[c].old \notin Mdb!Linked
    BY <2>1 DEF MdbInv, SyncInv, Knows, Sweeping
  <2>. QED BY <2>1, <2>2, <1>a DEF Mdb!Linked, MdbInv, Mdb!TypeOK
<1>6. Mdb!LinksWhole' /\ TipInv'
  <2>1. Mdb!LinksWhole'
    BY <1>0, <1>5 DEF MdbInv, Mdb!TypeOK, Mdb!LinksWhole
  <2>2. TipInv'
    <3>. SUFFICES ASSUME NEW g \in Gen, tip[g] # None
         PROVE  genOf[tip[g]] = g /\ mdbTree'[tip[g]] # "half"
      BY <1>0 DEF TipInv
    <3>1. tip[g] \in Sha /\ genOf[tip[g]] = g /\ mdbTree[tip[g]] # "half"
      BY DEF MdbInv, Mdb!TypeOK, TipInv
    <3>. QED BY <3>1, <1>5
  <2>. QED BY <2>1, <2>2
<1>7. StampInv'
  BY <1>0 DEF StampInv
<1>8. ReadInv'
  <2>. SUFFICES ASSUME NEW d \in Cmd, Fresh(d)' PROVE ReadsWhole(d)'
    BY DEF ReadInv, ReadsWhole
  <2>1. mdbCmd'[d] = mdbCmd[d] /\ ReadsWhole(d) /\ Fresh(d) /\ mdbCmd[d].sha \in Sha
    BY <1>1, <1>2 DEF MdbInv, ReadInv, Fresh, SyncInv, Knows
  <2>2. \A e \in Cmd : mdbCmd'[e].at # "remove" /\ (Moving(e) => e = c)
    BY <1>1, <1>2, <1>3 DEF Moving
  <2>3. Spares(d)'
    <3>1. CASE Moving(c) /\ mdbCmd[c].old = mdbCmd[d].sha
      <4>1. mdbStamp[mdbCmd[d].sha] = None
        BY <3>1, <2>1, <1>0, <1>a DEF MdbInv, StampInv
      <4>. QED BY <4>1, <2>1, <1>0 DEF Spares
    <3>2. CASE ~(Moving(c) /\ mdbCmd[c].old = mdbCmd[d].sha)
      BY <3>2, <2>1, <2>2, <1>0 DEF Spares, ReadsWhole
    <3>. QED BY <3>1, <3>2
  <2>4. mdbTree'[mdbCmd[d].sha] = "whole"
    BY <2>1, <1>5 DEF ReadsWhole
  <2>. QED BY <2>1, <2>2, <2>3, <2>4, <1>0 DEF ReadsWhole
<1>. QED BY <1>3, <1>4, <1>6, <1>7, <1>8

LEMMA TickKeeps ==
  ASSUME Modest, MdbInv, Mdb!Tick
  PROVE  OneSync' /\ Mdb!LinksWhole' /\ TipInv' /\ SyncInv' /\ StampInv' /\ ReadInv'
<1>a. None \notin Nat /\ Grace \in Nat
  BY DEF Modest, Mdb!MdbAssumption
<1>0. UNCHANGED <<tip, mdbTree, mdbLink, mdbDeaths>>
  BY DEF Mdb!Tick
<1>1. \A d \in Cmd :
        /\ mdbCmd'[d].at = mdbCmd[d].at /\ mdbCmd'[d].gen = mdbCmd[d].gen /\ mdbCmd'[d].sha = mdbCmd[d].sha
        /\ mdbCmd'[d].old = mdbCmd[d].old /\ mdbCmd'[d].refs = mdbCmd[d].refs /\ mdbCmd'[d].todo = mdbCmd[d].todo
        /\ mdbCmd[d].at = "read" =>
             mdbCmd'[d].age = IF mdbCmd[d].age < Grace THEN mdbCmd[d].age + 1 ELSE mdbCmd[d].age
  BY DEF Mdb!Tick, MdbInv, Mdb!TypeOK
<1>2. \A s \in Sha : /\ mdbStamp[s] = None <=> mdbStamp'[s] = None
                     /\ mdbStamp[s] # None => mdbStamp'[s] \in {mdbStamp[s], mdbStamp[s] + 1}
  BY <1>a DEF Mdb!Tick, MdbInv, Mdb!TypeOK
<1>3. OneSync' /\ Mdb!LinksWhole' /\ TipInv'
  BY <1>0, <1>1 DEF MdbInv, OneSync, Mdb!LinksWhole, TipInv, Syncing
<1>4. SyncInv'
  <2>. SUFFICES ASSUME NEW d \in Cmd PROVE Knows(d)'
    BY DEF SyncInv
  <2>1. Mdb!Linked' = Mdb!Linked
    BY <1>0 DEF Mdb!Linked
  <2>2. Knows(d) /\ mdbCmd[d].todo \subseteq Sha
    BY DEF MdbInv, SyncInv, Mdb!TypeOK
  <2>. QED BY <2>1, <2>2, <1>0, <1>1, <1>2 DEF Knows, Moving, Sweeping
<1>5. StampInv'
  <2>. SUFFICES ASSUME mdbDeaths = 0
       PROVE  /\ \A g \in Gen : mdbLink[g] # None =>
                   mdbStamp'[mdbLink[g]] = None
                     \/ \E c \in Cmd : mdbCmd'[c].at = "unstamp" /\ mdbCmd'[c].sha = mdbLink[g]
              /\ \A c \in Cmd : Moving(c)' /\ mdbCmd'[c].old # None => mdbStamp'[mdbCmd'[c].old] = None
    BY <1>0 DEF StampInv
  <2>1. \A g \in Gen : mdbLink[g] # None => mdbLink[g] \in Sha
    BY DEF MdbInv, Mdb!TypeOK
  <2>2. \A c \in Cmd : mdbCmd[c].old # None => mdbCmd[c].old \in Sha
    BY DEF MdbInv, Mdb!TypeOK
  <2>. QED BY <2>1, <2>2, <1>1, <1>2 DEF MdbInv, StampInv, Moving
<1>6. ReadInv'
  <2>. SUFFICES ASSUME NEW d \in Cmd, Fresh(d)' PROVE ReadsWhole(d)'
    BY DEF ReadInv, ReadsWhole
  <2>1. /\ mdbCmd[d].age \in 0..Grace /\ mdbCmd[d].at = "read" /\ mdbCmd[d].sha \in Sha
        /\ mdbStamp[mdbCmd[d].sha] \in 0..Grace + 1 \cup {None}
    BY <1>1 DEF MdbInv, Mdb!TypeOK, SyncInv, Knows, Fresh
  <2>2. Fresh(d) /\ mdbCmd'[d].age = mdbCmd[d].age + 1
    BY <2>1, <1>1, <1>a DEF Fresh
  <2>3. ReadsWhole(d)
    BY DEF MdbInv, ReadInv
  <2>4. Spares(d)'
    <3>1. CASE mdbStamp[mdbCmd[d].sha] # None /\ mdbStamp[mdbCmd[d].sha] <= mdbCmd[d].age
      BY <3>1, <2>1, <2>2, <1>1, <1>2, <1>a DEF Spares
    <3>2. CASE mdbStamp[mdbCmd[d].sha] = None
      BY <3>2, <2>1, <1>1, <1>2 DEF Spares
    <3>3. CASE \/ \E g \in Gen : mdbLink[g] = mdbCmd[d].sha
               \/ \E c \in Cmd : Moving(c) /\ mdbCmd[c].old = mdbCmd[d].sha
      BY <3>3, <1>0, <1>1 DEF Spares, Moving
    <3>. QED BY <3>1, <3>2, <3>3, <2>2, <2>3 DEF ReadsWhole, Spares
  <2>. QED BY <2>2, <2>3, <2>4, <1>0, <1>1 DEF ReadsWhole
<1>. QED BY <1>3, <1>4, <1>5, <1>6

LEMMA StepKeeps == ASSUME Modest, MdbInv, [Mdb!Next]_(Mdb!vars) PROVE MdbInv'
<1>1. Mdb!TypeOK'
  BY StepTyped DEF MdbInv
<1>2. OneSync' /\ Mdb!LinksWhole' /\ TipInv' /\ SyncInv' /\ StampInv' /\ ReadInv'
  <2>1. CASE UNCHANGED Mdb!vars
    BY <2>1 DEF Mdb!vars, MdbInv, OneSync, Mdb!LinksWhole, TipInv, SyncInv, Knows, StampInv, ReadInv,
                ReadsWhole, Syncing, Moving, Sweeping, Mdb!Linked, Fresh, Spares
  <2>2. CASE \E c \in Cmd : (\E g \in Gen : Mdb!Resolve(c, g)) \/ Mdb!Exit(c)
    BY <2>2, ReadKeeps DEF Mdb!Resolve, Mdb!Exit
  <2>3. CASE \E c \in Cmd, g \in Gen : Mdb!Lock(c, g)
    BY <2>3, LockKeeps
  <2>4. CASE \E c \in Cmd : \/ Mdb!Fetch(c) \/ Mdb!Export(c) \/ Mdb!Swap(c) \/ Mdb!Unstamp(c) \/ Mdb!StampOld(c)
                            \/ Mdb!List(c) \/ Mdb!PruneOne(c) \/ Mdb!Remove(c) \/ Mdb!DropStamp(c)
                            \/ Mdb!Synced(c) \/ Mdb!Die(c)
    BY <2>4, FetchKeeps, ExportKeeps, SwapKeeps, UnstampKeeps, StampKeeps, ListKeeps,
       PruneKeeps, RemoveKeeps, DropKeeps, SyncedKeeps, DieKeeps
  <2>5. CASE Mdb!Tick \/ \E s \in Sha : Mdb!Publish(s)
    BY <2>5, TickKeeps, PublishKeeps
  <2>. QED BY <2>1, <2>2, <2>3, <2>4, <2>5 DEF Mdb!Next
<1>. QED BY <1>1, <1>2 DEF MdbInv

(* The inductive invariant, deaths included.                                *)
THEOREM SyncsKeep == ASSUME Modest PROVE Mdb!Spec => []MdbInv
<1>1. Mdb!Init => MdbInv
  BY InitHolds
<1>2. MdbInv /\ [Mdb!Next]_(Mdb!vars) => MdbInv'
  BY StepKeeps
<1>. QED BY <1>1, <1>2, PTL DEF Mdb!Spec

-----------------------------------------------------------------------------
(* The three together.                                                      *)

\* Each of the three runs as if alone.
THEOREM PartsRun == CollectSpec => Spec /\ Mdb!Spec /\ Follow!Spec
<1>1. CollectInit => Init /\ Mdb!Init /\ Follow!Init
  BY DEF CollectInit
<1>2. [CollectNext]_<<part, vars, mdbVars, logVars>> => [Next]_vars
  BY DEF CollectNext
<1>3. [CollectNext]_<<part, vars, mdbVars, logVars>> => [Mdb!Next]_(Mdb!vars)
  BY DEF CollectNext, mdbVars, Mdb!vars
<1>4. [CollectNext]_<<part, vars, mdbVars, logVars>> => [Follow!Next]_(Follow!vars)
  BY DEF CollectNext, logVars, Follow!vars
<1>. QED BY <1>1, <1>2, <1>3, <1>4, PTL DEF CollectSpec, Spec, Mdb!Spec, Follow!Spec

\* No reader is ever sent to half an export or to a pruned commit, and a
\* tree stays whole under its readers for the time of grace.
THEOREM TreesHold == ASSUME MaxDeaths <= 1 PROVE CollectSpec => []TreesThere
<1>1. Modest
  BY CollectionAssumption DEF Modest
<1>2. MdbInv => TreesThere
  BY DEF MdbInv, ReadInv, ReadsWhole, Fresh, TreesThere, Mdb!TreesThere, Mdb!LinksWhole,
         Mdb!ReadersKeep
<1>. QED BY <1>1, <1>2, SyncsKeep, PartsRun, PTL

\* LogFollow once more, with what LogFollowProofs proves of it: the same
\* definitions under a second name.
Followed == INSTANCE LogFollowProofs

LEMMA SameLog == Follow!Spec => Followed!Spec
<1>1. Follow!Init => Followed!Init
  BY DEF Follow!Init, Follow!Normal, Followed!Init, Followed!Normal
<1>2. Follow!Next => Followed!Next
  BY DEF Follow!Next, Followed!Next,
    Follow!Normal, Follow!Selecting, Follow!Write, Follow!Cut, Follow!Less,
    Follow!EndsLine, Follow!ReadFrom, Follow!Put, Follow!Puts, Follow!Ingest,
    Follow!WithoutFragment, Follow!SeedLooks, Follow!SeedReads, Follow!Poll, Follow!Read,
    Follow!Raise, Follow!Slid, Follow!Shifted, Follow!ApplyEvictions, Follow!Top,
    Follow!Size, Follow!MaxScroll, Follow!Up, Follow!Down, Follow!Home, Follow!End,
    Follow!Resolved, Follow!Centered, Follow!ToShow, Follow!Matching, Follow!Locate,
    Follow!Origin, Follow!Touched, Follow!Handles, Follow!Seeks, Follow!Focus,
    Follow!Scroll, Follow!Jump, Follow!Dismiss, Follow!Stepped, Follow!NextHit,
    Follow!OpenPrompt, Follow!Rewound, Follow!Fresh, Follow!Type, Follow!Commit,
    Follow!Abandon, Follow!StartSelect, Follow!Move, Follow!LeaveSelect, Follow!LineAt,
    Follow!Extended, Follow!Press, Follow!Release, Follow!Drag, Follow!Steered,
    Follow!Autoscroll, Follow!Tick, Follow!Skip, Follow!Clear, Follow!Shown,
    Follow!Render, Follow!Written, Follow!Kept, Follow!Min, Follow!Max, Follow!ToSet,
    Follow!SelectInSeq,
    Followed!Normal, Followed!Selecting, Followed!Write, Followed!Cut, Followed!Less,
    Followed!EndsLine, Followed!ReadFrom, Followed!Put, Followed!Puts, Followed!Ingest,
    Followed!WithoutFragment, Followed!SeedLooks, Followed!SeedReads, Followed!Poll,
    Followed!Read, Followed!Raise, Followed!Slid, Followed!Shifted,
    Followed!ApplyEvictions, Followed!Top, Followed!Size, Followed!MaxScroll, Followed!Up,
    Followed!Down, Followed!Home, Followed!End, Followed!Resolved, Followed!Centered,
    Followed!ToShow, Followed!Matching, Followed!Locate, Followed!Origin,
    Followed!Touched, Followed!Handles, Followed!Seeks, Followed!Focus, Followed!Scroll,
    Followed!Jump, Followed!Dismiss, Followed!Stepped, Followed!NextHit,
    Followed!OpenPrompt, Followed!Rewound, Followed!Fresh, Followed!Type, Followed!Commit,
    Followed!Abandon, Followed!StartSelect, Followed!Move, Followed!LeaveSelect,
    Followed!LineAt, Followed!Extended, Followed!Press, Followed!Release, Followed!Drag,
    Followed!Steered, Followed!Autoscroll, Followed!Tick, Followed!Skip, Followed!Clear,
    Followed!Shown, Followed!Render, Followed!Written, Followed!Kept, Followed!Min,
    Followed!Max, Followed!ToSet, Followed!SelectInSeq
<1>3. UNCHANGED Follow!vars => UNCHANGED Followed!vars
  BY DEF Follow!vars, Followed!vars
<1>. QED BY <1>1, <1>2, <1>3, PTL DEF Follow!Spec, Followed!Spec

LEMMA SameAssumption == Followed!LogAssumption
BY CollectionAssumption DEF Follow!LogAssumption, Followed!LogAssumption

\* The pane keeps the log as it was written.
THEOREM LogIsWhole == CollectSpec => []LogWhole
<1>1. Followed!Spec => []Followed!LogWhole
  BY SameAssumption, Followed!LogIsWhole
<1>2. Followed!LogWhole => LogWhole
  BY DEF LogWhole, Follow!LogWhole, Follow!Whole, Follow!Follows, Follow!Last, Follow!EndsLine,
         Follow!Size, Followed!LogWhole, Followed!Whole, Followed!Follows, Followed!Last,
         Followed!EndsLine, Followed!Size
<1>. QED BY <1>1, <1>2, PartsRun, SameLog, PTL

\* What landed is on the screen, or a frame is due.
THEOREM FramesDue == CollectSpec => []FrameDue
<1>1. Followed!Spec => []Followed!FrameDue
  BY SameAssumption, Followed!FramesDue
<1>2. Followed!FrameDue => FrameDue
  BY DEF FrameDue, Follow!FrameDue, Followed!FrameDue
<1>. QED BY <1>1, <1>2, PartsRun, SameLog, PTL

\* The paused view, the selection and the hit stay on their lines.
THEOREM ViewsStay == CollectSpec => ViewStays
<1>1. Followed!Spec => Followed!ViewStays
  BY SameAssumption, Followed!ViewsStay
<1>2. Followed!ViewStays => ViewStays
  BY DEF ViewStays, Follow!ViewStays, Follow!Kept, Follow!Max, Follow!vars, Followed!ViewStays,
         Followed!Kept, Followed!Max, Followed!vars
<1>. QED BY <1>1, <1>2, PartsRun, SameLog, PTL
=============================================================================
