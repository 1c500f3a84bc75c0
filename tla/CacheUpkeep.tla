---------------------------- MODULE CacheUpkeep ----------------------------
(***************************************************************************)
(* How cactup looks after its cache of compiled objects                     *)
(* (src/objcache/upkeep.rs, src/commands/cache.rs): builds note in logs     *)
(* which entries they used; `cache gc` walks the store, plans from the      *)
(* walk, and carries the plan out.  Only one gc runs at a time (LinkLock    *)
(* on gc.lock); everything else goes on beside it.                          *)
(*                                                                          *)
(* One machine's directory.  An entry is its publication: the how-manieth   *)
(* of its key, which stands for its device, inode, size and modification    *)
(* time, and when it was.  A key has one unit record.  A log is the time of *)
(* its use of each key, whether it is a build's (.keys, one time for all)   *)
(* or a fold (.times).  Every entry and every record is one byte long.      *)
(* Left out are the temporary files (gc takes those a day old; they bear no *)
(* name of an entry, a record or a log) and the size stamp, which no step   *)
(* here reads.                                                              *)
(***************************************************************************)
EXTENDS Integers, FiniteSets

CONSTANTS
  Key,             \* the keys of the entries
  Build,           \* the builds that may be under way at once
  LogId,           \* names for use logs; a name is drawn anew for each
  Age,             \* --unused-for
  Aims,            \* what a gc may be asked for: "age", "size", "both"
  ToSize,          \* --to-size
  None,
  MaxTime,         \* bound: the file server's clock
  MaxGen           \* bound: publications of one key

ASSUME UpkeepAssumption ==
  /\ Age \in Nat \ {0} /\ MaxTime \in Nat /\ MaxGen \in Nat /\ ToSize \in Nat
  /\ Aims \subseteq {"age", "size", "both"}
  /\ {None, "units", "used"} \cap Key = {}
  /\ IsFiniteSet(Key)

VARIABLES
  now,             \* the file server's clock
  entry,           \* each key's entry
  gens,            \* how often each key was published
  record,          \* the keys with a unit record
  linked,          \* the keys whose publisher has the record still to write
  logs,            \* what each use log says
  hits,            \* what each build has found since it last logged
  gc,              \* the gc: where it is, its aim, what its walk has read
  seen,            \* the entries its walk found
  recs,            \* the records its walk found, then those to remove
  inLogs,          \* the logs its walk read and it has still to remove
  plan,            \* what it is to remove and to keep
  target           \* the file it has looked at and is about to remove; how
                   \* often its key was published then, and whether the look
                   \* failed with the entry there (blind)

storeVars == <<entry, gens, record, linked>>
gcVars == <<gc, seen, recs, inLogs, plan, target>>
vars == <<now, storeVars, logs, hits, gcVars>>

Time == 0 .. MaxTime
Never == -1
Gone == [gen |-> 0, at |-> 0]
Entry == [gen : 0 .. MaxGen, at : Time]
Log == [Key -> Time \cup {Never}]
NoLog == [k \in Key |-> Never]       \* no such file: none says nothing

GcOff == [at |-> "off", aim |-> "age", read |-> {}, began |-> 0]
NoPlan == [entries |-> {}, keep |-> {}, cut |-> 0, uses |-> NoLog]
NoTarget == [key |-> None, gens |-> 0, blind |-> FALSE]

OnDisk == {id \in LogId : logs[id] # NoLog}
\* Machine::last_uses: the last use of k the logs `ids` know of is at t.
LastUsed(ids, k, t) ==
  /\ \A id \in ids : logs[id][k] <= t
  /\ t # Never => \E id \in ids : logs[id][k] = t

Init ==
  /\ now = 0
  /\ entry = [k \in Key |-> Gone] /\ gens = [k \in Key |-> 0]
  /\ record = {} /\ linked = {}
  /\ logs = [id \in LogId |-> NoLog]
  /\ hits = [b \in Build |-> {}]
  /\ gc = GcOff /\ seen = [k \in Key |-> Gone] /\ recs = {} /\ inLogs = {}
  /\ plan = NoPlan /\ target = NoTarget

Tick ==
  /\ now < MaxTime
  /\ now' = now + 1
  /\ UNCHANGED <<storeVars, logs, hits, gcVars>>

-----------------------------------------------------------------------------
(* Builds.                                                                  *)

\* A compile is served the entry of k.
Hit(b, k) ==
  /\ entry[k] # Gone /\ k \notin hits[b]
  /\ hits' = [hits EXCEPT ![b] = @ \cup {k}]
  /\ UNCHANGED <<now, storeVars, logs, gcVars>>

\* A compile's object is linked under k, where no entry is.
Publish(k) ==
  /\ entry[k] = Gone /\ gens[k] < MaxGen
  /\ gens' = [gens EXCEPT ![k] = @ + 1]
  /\ entry' = [entry EXCEPT ![k] = [gen |-> gens'[k], at |-> now]]
  /\ linked' = linked \cup {k}
  /\ UNCHANGED <<now, record, logs, hits, gcVars>>

\* The same compile then writes the unit record, keeping one that is there.
\* (The look and the link are one step: the link alone decides.)
RecordUnit(k) ==
  /\ k \in linked
  /\ linked' = linked \ {k}
  /\ record' = record \cup {k}
  /\ UNCHANGED <<now, entry, gens, logs, hits, gcVars>>

\* A compile killed before it wrote the record.
RecordLost(k) ==
  /\ k \in linked
  /\ linked' = linked \ {k}
  /\ UNCHANGED <<now, entry, gens, record, logs, hits, gcVars>>

\* The end of the build step: one new log of all it found, at this time.
LogUse(b) ==
  /\ hits[b] # {}
  /\ \E id \in LogId \ OnDisk :
       logs' = [logs EXCEPT ![id] = [k \in Key |-> IF k \in hits[b] THEN now ELSE Never]]
  /\ hits' = [hits EXCEPT ![b] = {}]
  /\ UNCHANGED <<now, storeVars, gcVars>>

\* A build that is killed before it logs, or cannot: a warning.
LogFails(b) ==
  /\ hits[b] # {}
  /\ hits' = [hits EXCEPT ![b] = {}]
  /\ UNCHANGED <<now, storeVars, logs, gcVars>>

\* `cache verify`, a reader or an audit removes a damaged entry; its record
\* stays.
Invalidate(k) ==
  /\ entry[k] # Gone
  /\ entry' = [entry EXCEPT ![k] = Gone]
  /\ UNCHANGED <<now, gens, record, linked, logs, hits, gcVars>>
-----------------------------------------------------------------------------
(* `cache gc`: the walk.  The directories are read in parallel, in any      *)
(* order.                                                                   *)

GcBegin(aim) ==
  /\ gc.at = "off"
  /\ gc' = [at |-> "walk", aim |-> aim, read |-> {}, began |-> now]
  /\ UNCHANGED <<now, storeVars, logs, hits, seen, recs, inLogs, plan, target>>

Walk(piece) ==
  /\ gc.at = "walk" /\ piece \notin gc.read
  /\ gc' = [gc EXCEPT !.read = @ \cup {piece}]
  /\ UNCHANGED <<now, storeVars, logs, hits, plan, target>>

WalkEntries(k) ==
  /\ Walk(k)
  /\ seen' = [seen EXCEPT ![k] = entry[k]]
  /\ UNCHANGED <<recs, inLogs>>

\* A look at the entry fails: it is passed over.
WalkPasses(k) ==
  /\ entry[k] # Gone
  /\ Walk(k)
  /\ UNCHANGED <<seen, recs, inLogs>>

WalkUnits ==
  /\ Walk("units")
  /\ recs' = record
  /\ UNCHANGED <<seen, inLogs>>

(* Mutant: a log that cannot be read is taken to say nothing. *)
WalkUsed_PassesOver ==
  /\ Walk("used")
  /\ inLogs' \in SUBSET OnDisk
  /\ UNCHANGED <<seen, recs>>

\* Every log is read, or the gc ends (GcStops).
WalkUsed ==
  /\ Walk("used")
  /\ inLogs' = OnDisk
  /\ UNCHANGED <<seen, recs>>

-----------------------------------------------------------------------------
(* The plan.                                                                *)

\* The last use or publication of k's entry is before the cutoff.
Before(k, uses, cut) == uses[k] < cut /\ seen[k].at < cut

Cutoff(aim) == IF aim = "size" \/ now < Age THEN 0 ELSE now - Age

\* k was last used or published no later than j.
NoLater(uses, k, j) ==
  \/ uses[k] <= uses[j] /\ seen[k].at <= uses[j]
  \/ uses[k] <= seen[j].at /\ seen[k].at <= seen[j].at

Weigh(keys) == Cardinality(keys) + Cardinality(keys \cap recs)

\* `over` is the least recently used of `young`, just as many as leave no
\* more than ToSize bytes.
JustEnough(over, young, uses) ==
  /\ Weigh(young \ over) > ToSize => over = young
  /\ \A k \in over, j \in young \ over : NoLater(uses, k, j)
  /\ over # {} =>
       \E k \in over : /\ \A j \in over : NoLater(uses, j, k)
                       /\ Weigh((young \ over) \cup {k}) > ToSize

Plan ==
  /\ gc.at = "walk" /\ gc.read = Key \cup {"units", "used"}
  /\ \E uses \in Log, over \in SUBSET Key :
       LET cut == Cutoff(gc.aim)
           there == {k \in Key : seen[k] # Gone}
           old == {k \in there : Before(k, uses, cut)}
           keep == there \ (old \cup over)
       IN  /\ \A k \in Key : LastUsed(inLogs, k, uses[k])
           /\ over \subseteq there \ old
           /\ IF gc.aim = "age" THEN over = {} ELSE JustEnough(over, there \ old, uses)
           /\ plan' = [entries |-> old \cup over, keep |-> keep, cut |-> cut,
                       uses |-> [k \in Key |-> IF k \in keep THEN uses[k] ELSE Never]]
           /\ recs' = recs \ keep
  /\ gc' = [gc EXCEPT !.at = "entries", !.read = {}]
  /\ UNCHANGED <<now, storeVars, logs, hits, seen, inLogs, target>>

-----------------------------------------------------------------------------
(* Carrying it out: each file is looked at, then removed.                   *)

carryFrame == <<now, gens, linked, logs, hits, seen, inLogs>>

\* Entry::still_there; a name that leads elsewhere, or a look that fails, is
\* passed over (the latter as LookEntry, then Stuck).
LookEntry(k) ==
  /\ gc.at = "entries" /\ target = NoTarget /\ k \in plan.entries
  /\ plan' = [plan EXCEPT !.entries = @ \ {k}]
  /\ target' = IF entry[k] = seen[k] THEN [key |-> k, gens |-> gens[k], blind |-> FALSE] ELSE NoTarget
  /\ UNCHANGED <<carryFrame, entry, record, gc, recs>>

RemoveEntry ==
  /\ gc.at = "entries" /\ target # NoTarget
  /\ entry' = [entry EXCEPT ![target.key] = Gone]
  /\ target' = NoTarget
  /\ UNCHANGED <<carryFrame, record, gc, recs, plan>>

(* Mutant: the records the plan named go, whatever was published since. *)
LookRecord_OnPlan(k) ==
  /\ gc.at = "records" /\ target = NoTarget /\ k \in recs
  /\ recs' = recs \ {k}
  /\ target' = [key |-> k, gens |-> gens[k], blind |-> FALSE]
  /\ UNCHANGED <<carryFrame, entry, record, gc, plan>>

\* An entry whose look fails, for whatever reason, is taken to be gone.
LookRecord(k) ==
  /\ gc.at = "records" /\ target = NoTarget /\ k \in recs
  /\ recs' = recs \ {k}
  /\ \E fails \in BOOLEAN :
       target' = IF fails \/ entry[k] = Gone
                 THEN [key |-> k, gens |-> gens[k], blind |-> entry[k] # Gone]
                 ELSE NoTarget
  /\ UNCHANGED <<carryFrame, entry, record, gc, plan>>

RemoveRecord ==
  /\ gc.at = "records" /\ target # NoTarget
  /\ record' = record \ {target.key}
  /\ target' = NoTarget
  /\ UNCHANGED <<carryFrame, entry, gc, recs, plan>>

\* A file that cannot be removed stays, and the next is taken.
Stuck ==
  /\ target # NoTarget
  /\ target' = NoTarget
  /\ UNCHANGED <<carryFrame, entry, record, gc, recs, plan>>

EndEntries ==
  /\ gc.at = "entries" /\ target = NoTarget /\ plan.entries = {}
  /\ gc' = [gc EXCEPT !.at = "records"]
  /\ UNCHANGED <<carryFrame, entry, record, recs, plan, target>>

EndRecords ==
  /\ gc.at = "records" /\ target = NoTarget /\ recs = {}
  /\ gc' = [gc EXCEPT !.at = "fold"]
  /\ UNCHANGED <<carryFrame, entry, record, recs, plan, target>>

(* Mutant: the old logs go first. *)
Fold_OldGoFirst ==
  /\ gc.at = "fold"
  /\ \/ \E id \in inLogs : /\ inLogs' = inLogs \ {id}
                           /\ logs' = [logs EXCEPT ![id] = NoLog]
                           /\ gc' = gc
     \/ /\ inLogs = {} /\ inLogs' = inLogs
        /\ IF plan.uses = NoLog THEN logs' = logs
           ELSE \E id \in LogId \ OnDisk : logs' = [logs EXCEPT ![id] = plan.uses]
        /\ gc' = [gc EXCEPT !.at = "unlink"]
  /\ UNCHANGED <<now, storeVars, hits, seen, recs, plan, target>>

\* The new log is in place before the old ones go; without a use to keep,
\* none is written.
Fold ==
  /\ gc.at = "fold"
  /\ IF plan.uses = NoLog THEN logs' = logs
     ELSE \E id \in LogId \ OnDisk : logs' = [logs EXCEPT ![id] = plan.uses]
  /\ gc' = [gc EXCEPT !.at = "unlink"]
  /\ UNCHANGED <<now, storeVars, hits, seen, recs, inLogs, plan, target>>

RemoveLog(id) ==
  /\ gc.at = "unlink" /\ id \in inLogs
  /\ inLogs' = inLogs \ {id}
  /\ logs' = [logs EXCEPT ![id] = NoLog]
  /\ UNCHANGED <<now, storeVars, hits, gc, seen, recs, plan, target>>

KeepLog(id) ==
  /\ gc.at = "unlink" /\ id \in inLogs
  /\ inLogs' = inLogs \ {id}
  /\ UNCHANGED <<now, storeVars, logs, hits, gc, seen, recs, plan, target>>

Forget ==
  /\ gc' = GcOff /\ seen' = [k \in Key |-> Gone] /\ recs' = {} /\ inLogs' = {}
  /\ plan' = NoPlan /\ target' = NoTarget

GcEnds ==
  /\ gc.at = "unlink" /\ inLogs = {}
  /\ Forget
  /\ UNCHANGED <<now, storeVars, logs, hits>>

\* Ctrl-C, a kill, a directory or a log that cannot be read, a fold that
\* cannot be written: what was done until then stays done.
GcStops ==
  /\ gc.at # "off"
  /\ Forget
  /\ UNCHANGED <<now, storeVars, logs, hits>>

-----------------------------------------------------------------------------
BuildStep ==
  \/ \E b \in Build, k \in Key : Hit(b, k)
  \/ \E b \in Build : LogUse(b) \/ LogFails(b)
  \/ \E k \in Key : Publish(k) \/ RecordUnit(k) \/ RecordLost(k) \/ Invalidate(k)

WalkStep ==
  \/ \E aim \in Aims : GcBegin(aim)
  \/ \E k \in Key : WalkEntries(k) \/ WalkPasses(k)
  \/ WalkUnits \/ WalkUsed \/ Plan

CarryStep ==
  \/ \E k \in Key : LookEntry(k) \/ LookRecord(k)
  \/ RemoveEntry \/ RemoveRecord \/ Stuck \/ EndEntries \/ EndRecords
  \/ Fold \/ \E id \in LogId : RemoveLog(id) \/ KeepLog(id)
  \/ GcEnds \/ GcStops

Next ==
  \/ Tick
  \/ BuildStep
  \/ WalkStep
  \/ CarryStep

Spec == Init /\ [][Next]_vars

-----------------------------------------------------------------------------
(* Properties.                                                              *)

Pieces == Key \cup {"units", "used"}

\* Each variable has its type (of every action).
TypeOK ==
  /\ now \in Time
  /\ entry \in [Key -> Entry] /\ gens \in [Key -> 0 .. MaxGen]
  /\ record \subseteq Key /\ linked \subseteq Key
  /\ logs \in [LogId -> Log]
  /\ hits \in [Build -> SUBSET Key]
  /\ gc \in [at : {"off", "walk", "entries", "records", "fold", "unlink"},
             aim : {"age", "size", "both"}, read : SUBSET Pieces, began : Time]
  /\ seen \in [Key -> Entry] /\ recs \subseteq Key /\ inLogs \subseteq LogId
  /\ plan \in [entries : SUBSET Key, keep : SUBSET Key, cut : Time, uses : Log]
  /\ target \in [key : Key \cup {None}, gens : 0 .. MaxGen, blind : BOOLEAN]
  /\ target.key = None => target = NoTarget

\* An entry a gc is about to remove for its age was neither published nor,
\* by any log that was on disk when the gc began, used since the cutoff:
\* nothing the gc reads, in whatever order, hides a use from it
\* (read_piece, scan, plan, and the refusal over unreadable logs).
SparesUsed ==
  \A k \in Key :
    /\ gc.at = "entries" /\ gc.aim = "age" /\ target.key = k
    /\ entry[k] # Gone /\ entry[k] = seen[k]
    => /\ entry[k].at < plan.cut
       /\ \A id \in LogId : logs[id][k] < plan.cut \/ logs[id][k] >= gc.began

\* What a gc is about to remove is what it looked at: an entry the walk
\* found, or the record of an entry that is not there; unless the key was
\* published anew between that look and now, or the look at a record's
\* entry failed (Entry::still_there and the look at the entry in carry_out).
RemovesWhatItSaw ==
  \A k \in Key :
    /\ target.key = k /\ entry[k] # Gone
    /\ IF gc.at = "entries" THEN entry[k] # seen[k] ELSE ~target.blind
    => gens[k] > target.gens

\* What is known on disk of the last use of k: not before t.
KnownSince(k, t) == (\E id \in LogId : logs[id][k] >= t) \/ entry[k].at >= t

\* No step makes an entry look less recently used than it was, wherever a
\* gc is cut short and whatever is logged beside it; but for entries that
\* the gc removing the folded logs does not keep (carry_out: the new log is
\* in place before the old ones go).
FoldKeepsUses ==
  [][\A k \in Key, t \in Time :
       /\ entry[k] # Gone /\ entry'[k] = entry[k]
       /\ gc.at = "unlink" => k \in plan.keep
       /\ KnownSince(k, t)
       => KnownSince(k, t)']_vars
=============================================================================
