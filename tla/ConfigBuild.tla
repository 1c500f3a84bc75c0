---------------------------- MODULE ConfigBuild ----------------------------
(***************************************************************************)
(* One config and what is built for it (build/mod.rs: rebuild_decision,    *)
(* prepare_with_cache, execute).                                           *)
(*                                                                         *)
(* `cactup build` compares what the user has now with what the config's    *)
(* last build recorded and decides how much to build again.  The decision  *)
(* is frozen into an attempt, which runs at once or hours later in the     *)
(* queue; there the sources are looked at again, what they invalidate is   *)
(* removed, make runs, and what was found is recorded.  Meanwhile the user *)
(* edits, moves repositories and changes lists and options, and the batch  *)
(* system kills the job and may start it again.                            *)
(*                                                                         *)
(* A thorn's files are a text, the count of the write that made it (what   *)
(* mtimes, stamps and source states tell apart), and a shape, what the     *)
(* fingerprint of its .ccl files and file names tells apart.  An object is *)
(* the sources it was compiled from, so a config whose objects are mixed   *)
(* is seen to be.                                                          *)
(***************************************************************************)
EXTENDS Integers

CONSTANTS
    Thorn,             \* thorn names a thornlist may hold
    Provider,          \* the directories that may provide a thorn
    Options,           \* optionlists with a universe, as build_relevant tells them apart
    Flesh,             \* commits of the Cactus flesh
    Shape,             \* fingerprints of a thorn's shape
    None,              \* no provider (not listed), no record, no file
    MaxChanges,        \* bound: changes the user makes
    SettledTree,       \* no flesh or shape moves under a build, see Settled
    ForcesAfterFailure,\* a build that did not finish is followed by one with -f
    RequeueEscalated   \* whether the batch system requeues an escalated build

(* What is in a thorn's files, which thorn comes from where, what a probe  *)
(* finds, and what an object was compiled from.                            *)
Text == 0 .. MaxChanges
Files == [text : Text, shape : Shape]
Listing == [Thorn -> Provider \cup {None}]
ReadingType == [flesh : Flesh \cup {None}, prov : Listing,
                files : [Thorn -> [text : Text, shape : Shape \cup {None}]]]
Source == [prov : Provider, text : Text, shape : Shape, flesh : Flesh, opts : Options]

ASSUME ConfigBuildAssumption ==
    /\ None \notin Provider \cup Options \cup Flesh
    /\ None \notin Listing
    /\ None \notin ReadingType
    /\ None \notin [Thorn -> SUBSET Source]
    /\ MaxChanges \in Nat
    /\ SettledTree \in BOOLEAN
    /\ ForcesAfterFailure \in BOOLEAN
    /\ RequeueEscalated \in BOOLEAN

VARIABLES
    opts, list, flesh, tree,   \* what the user has now
    changes,                   \* how many the user made so far
    dir,                       \* configs/<name>/ exists
    meta,                      \* cactup-config.toml: what the last success compiled
    snapshot,                  \* the optionlist copy of the last success
    processed,                 \* the processed thornlist of the last success
    obj,                       \* per thorn, the sources its objects hold
    exe,                       \* exe/cactus_<name>: per thorn, what is linked
    last,                      \* outcome of the attempt that ran last
    att                        \* the attempt in flight

user == <<opts, list, flesh, tree, changes>>
records == <<meta, snapshot, processed>>
vars == <<user, dir, records, obj, exe, last, att>>

Nothing == [t \in Thorn |-> {}]

----------------------------------------------------------------------------
(* What a probe of the sources finds (source_heads, thorn_shapes).         *)

NoFiles == [text |-> 0, shape |-> None]

Reading(l) ==
    [flesh |-> flesh,
     prov  |-> l,
     files |-> [t \in Thorn |-> IF l[t] = None THEN NoFiles ELSE tree[t][l[t]]]]

(* A thorn that is newly listed is no change; one that was dropped is.     *)
ProviderDelta(old, new) ==
    {t \in Thorn : old.prov[t] # None /\ new.prov[t] # old.prov[t]}

ShapeDelta(old, new) ==
    {t \in Thorn : old.prov[t] # None /\ new.files[t].shape # old.files[t].shape}

TextDelta(old, new) ==
    {t \in Thorn : /\ old.prov[t] # None /\ new.prov[t] # None
                   /\ new.files[t].text # old.files[t].text}

FleshMoved(old, new) == old # None /\ old.flesh # new.flesh

(* Mutant: a thorn's new shape invalidates nothing.                        *)
Invalidated_NoShape(old, new) == IF old = None THEN {} ELSE ProviderDelta(old, new)

Invalidated(old, new) ==
    IF old = None THEN {} ELSE ProviderDelta(old, new) \cup ShapeDelta(old, new)

(* The decision, in the order of its reasons.  A build with -f is "full".  *)
Decision ==
    LET now == Reading(list) IN
    CASE snapshot = None -> "fresh"
      [] snapshot # None /\ (snapshot # opts \/ FleshMoved(meta, now)) -> "full"
      [] /\ snapshot = opts
         /\ ~FleshMoved(meta, now)
         /\ \/ processed # None /\ processed # list
            \/ Invalidated(meta, now) # {}
            \/ meta # None /\ TextDelta(meta, now) # {} -> "incremental"
      [] OTHER -> "current"

(* What lets a plain build end at once.                                    *)
UpToDate == Decision = "current" /\ exe # None /\ meta # None

----------------------------------------------------------------------------
(* The attempt.                                                            *)

Executing == {"begun", "opened", "making", "linked", "recorded", "snapped"}
NoReading == [flesh |-> None, prov |-> [t \in Thorn |-> None],
              files |-> [t \in Thorn |-> NoFiles]]
NoAttempt ==
    [at |-> "idle", opts |-> None, list |-> [t \in Thorn |-> None], full |-> FALSE,
     cleans |-> FALSE, queued |-> FALSE, escalated |-> FALSE, ran |-> FALSE,
     probe |-> NoReading, todo |-> {}]

Init ==
    /\ opts \in Options /\ list \in Listing /\ flesh \in Flesh
    /\ tree \in [Thorn -> [Provider -> [text : {0}, shape : Shape]]]
    /\ changes = 0
    /\ dir = FALSE
    /\ meta = None /\ snapshot = None /\ processed = None
    /\ obj = Nothing /\ exe = None /\ last = "none"
    /\ att = NoAttempt

(* SettledTree: nobody moves the flesh or reshapes a thorn while a build   *)
(* works with what it read of them, nor between two runs of one attempt.   *)
Settled ==
    SettledTree => ~ \/ att.at \in Executing
                     \/ att.at = "staged" /\ (att.ran \/ ~att.queued)

Change == changes < MaxChanges /\ changes' = changes + 1

SetOptions(o) ==
    /\ o # opts
    /\ Change
    /\ opts' = o
    /\ UNCHANGED <<list, flesh, tree, dir, records, obj, exe, last, att>>

SetProvider(t, p) ==
    /\ p # list[t]
    /\ Change
    /\ list' = [list EXCEPT ![t] = p]
    /\ UNCHANGED <<opts, flesh, tree, dir, records, obj, exe, last, att>>

MoveFlesh(f) ==
    /\ Settled
    /\ f # flesh
    /\ Change
    /\ flesh' = f
    /\ UNCHANGED <<opts, list, tree, dir, records, obj, exe, last, att>>

(* An edit, or a checkout that leaves the shape alone.                     *)
Edit(t, p) ==
    /\ Change
    /\ tree' = [tree EXCEPT ![t][p].text = changes + 1]
    /\ UNCHANGED <<opts, list, flesh, dir, records, obj, exe, last, att>>

(* A change of .ccl files or of the set of files: new bytes too.           *)
Reshape(t, p, s) ==
    /\ Settled
    /\ s # tree[t][p].shape
    /\ Change
    /\ tree' = [tree EXCEPT ![t][p] = [text |-> changes + 1, shape |-> s]]
    /\ UNCHANGED <<opts, list, flesh, dir, records, obj, exe, last, att>>

----------------------------------------------------------------------------
(* `cactup build` up to the staged attempt.  The script has a realclean    *)
(* only where the decision is full; "full" in the record means that        *)
(* nothing else is to be removed.                                          *)
Prepare(force, queued) ==
    /\ att.at = "idle" \/ ~dir
    /\ ForcesAfterFailure /\ last = "failed" => force
    /\ force \/ ~UpToDate
    /\ dir' = TRUE
    /\ LET decision == IF force THEN "full" ELSE Decision IN
       att' = [NoAttempt EXCEPT
                 !.at = "staged", !.opts = opts, !.list = list, !.queued = queued,
                 !.full = decision # "incremental",
                 !.cleans = decision = "full",
                 !.probe = IF queued THEN NoReading ELSE Reading(list)]
    /\ UNCHANGED <<user, records, obj, exe, last>>

(* The queue gives a job up, or its submission failed.                     *)
Abandon ==
    /\ att.at = "staged"
    /\ att' = NoAttempt
    /\ UNCHANGED <<user, dir, records, obj, exe, last>>

(* Mutant: the config's directory is made where it is gone.                *)
Begin_NoLook ==
    /\ att.at = "staged"
    /\ att' = [att EXCEPT !.at = "begun", !.ran = TRUE]
    /\ last' = "failed"
    /\ UNCHANGED <<user, dir, records, obj, exe>>

(* execute up to the record that it runs.  An attempt whose config was     *)
(* deleted ends here.                                                      *)
Begin ==
    /\ att.at = "staged"
    /\ IF dir
         THEN /\ att' = [att EXCEPT !.at = "begun", !.ran = TRUE]
              /\ last' = "failed"
         ELSE /\ att' = NoAttempt
              /\ UNCHANGED last
    /\ UNCHANGED <<user, dir, records, obj, exe>>

(* The probe of a build that comes from the queue; a foreground build      *)
(* works with the one its decision was made on (PROBE_REUSE_WINDOW).       *)
Probe == IF att.queued THEN Reading(att.list) ELSE att.probe

(* The probe, what the last build recorded, and what follows from the two: *)
(* an incremental build becomes a full one where the flesh has moved, and  *)
(* one that stays incremental loses the state of thorns it invalidates.    *)
Open ==
    /\ att.at = "begun"
    /\ LET escalated == ~att.full /\ FleshMoved(meta, Probe) IN
       /\ att' = [att EXCEPT !.at = "opened", !.probe = Probe,
                             !.full = @ \/ escalated, !.escalated = escalated]
       /\ obj' = IF att.full \/ escalated THEN obj
                 ELSE [t \in Thorn |->
                         IF t \in Invalidated(meta, Probe) THEN {} ELSE obj[t]]
    /\ UNCHANGED <<user, dir, records, exe, last>>

(* The realclean of an escalated build or of the script, and the configure *)
(* step, which reads the attempt's optionlist and thornlist.               *)
Configure ==
    /\ att.at = "opened"
    /\ att' = [att EXCEPT !.at = "making",
                          !.todo = {t \in Thorn : att.list[t] # None}]
    /\ obj' = IF att.cleans \/ att.escalated THEN Nothing ELSE obj
    /\ UNCHANGED <<user, dir, records, exe, last>>

(* What make compiles a thorn from now.                                    *)
Live(t) ==
    [prov |-> att.list[t], text |-> tree[t][att.list[t]].text,
     shape |-> tree[t][att.list[t]].shape, flesh |-> flesh, opts |-> att.opts]

Alike(o, s) ==
    /\ o.prov = s.prov /\ o.shape = s.shape
    /\ o.flesh = s.flesh /\ o.opts = s.opts

(* make sees by their times which files were written since their objects,  *)
(* and nothing else: where directory, file set, flesh or options changed   *)
(* under the objects, some or all of them survive.                         *)
Make(t) ==
    /\ att.at = "making"
    /\ t \in att.todo
    /\ att' = [att EXCEPT !.todo = @ \ {t}]
    /\ \E made \in IF \A o \in obj[t] : Alike(o, Live(t))
                     THEN {{Live(t)}}
                     ELSE {obj[t], obj[t] \cup {Live(t)}, {Live(t)}} :
         obj' = [obj EXCEPT ![t] = made]
    /\ UNCHANGED <<user, dir, records, exe, last>>

(* The link; the utilities are built after it.                             *)
Link ==
    /\ att.at = "making"
    /\ att.todo = {}
    /\ att' = [att EXCEPT !.at = "linked"]
    /\ exe' = [t \in Thorn |-> IF att.list[t] = None THEN {} ELSE obj[t]]
    /\ UNCHANGED <<user, dir, records, obj, last>>

(* A build that succeeded is recorded in four writes: what it compiled,    *)
(* the options, the thornlist, the outcome.                                *)
StoreMeta ==
    /\ att.at = "linked"
    /\ att' = [att EXCEPT !.at = "recorded"]
    /\ meta' = att.probe
    /\ UNCHANGED <<user, dir, snapshot, processed, obj, exe, last>>

InstallOptions ==
    /\ att.at = "recorded"
    /\ att' = [att EXCEPT !.at = "snapped"]
    /\ snapshot' = att.opts
    /\ UNCHANGED <<user, dir, meta, processed, obj, exe, last>>

(* The thornlist, and then the outcome.  A job that the scheduler starts   *)
(* again after it has recorded its outcome (scontrol requeue) is left out. *)
Finish ==
    /\ att.at = "snapped"
    /\ att' = NoAttempt
    /\ processed' = att.list
    /\ last' = "complete"
    /\ UNCHANGED <<user, dir, meta, snapshot, obj, exe>>

(* A step fails, or the build is killed.                                   *)
Fail ==
    /\ att.at \in Executing
    /\ att' = NoAttempt
    /\ UNCHANGED <<user, dir, records, obj, exe, last>>

(* The batch system kills the job (preemption, a lost node) and queues it  *)
(* again: the attempt runs once more as its record now describes it.       *)
Requeue ==
    /\ att.at \in Executing
    /\ att.queued
    /\ RequeueEscalated \/ ~att.escalated
    /\ att' = [att EXCEPT !.at = "staged", !.escalated = FALSE,
                          !.probe = NoReading, !.todo = {}]
    /\ UNCHANGED <<user, dir, records, obj, exe, last>>

(* `cactup config delete`, with -f also while a build is queued.  It may   *)
(* die before it removes the executable.                                   *)
DeleteConfig ==
    /\ dir
    /\ att.at \in {"idle", "staged"}
    /\ dir' = FALSE
    /\ meta' = None /\ snapshot' = None /\ processed' = None
    /\ obj' = Nothing
    /\ exe' \in {None, exe}
    /\ last' = "none"
    /\ UNCHANGED <<user, att>>

Next ==
    \/ \E o \in Options : SetOptions(o)
    \/ \E t \in Thorn, p \in Provider \cup {None} : SetProvider(t, p)
    \/ \E f \in Flesh : MoveFlesh(f)
    \/ \E t \in Thorn, p \in Provider : Edit(t, p)
    \/ \E t \in Thorn, p \in Provider, s \in Shape : Reshape(t, p, s)
    \/ \E force, queued \in BOOLEAN : Prepare(force, queued)
    \/ Abandon \/ Begin \/ Open \/ Configure
    \/ \E t \in Thorn : Make(t)
    \/ Link \/ StoreMeta \/ InstallOptions \/ Finish
    \/ Fail \/ Requeue \/ DeleteConfig

Spec == Init /\ [][Next]_vars

----------------------------------------------------------------------------
(* The kinds of value every variable has.                                  *)
TypeOK ==
    /\ opts \in Options /\ list \in Listing /\ flesh \in Flesh
    /\ tree \in [Thorn -> [Provider -> Files]]
    /\ changes \in Text
    /\ dir \in BOOLEAN
    /\ meta \in ReadingType \cup {None}
    /\ snapshot \in Options \cup {None}
    /\ processed \in Listing \cup {None}
    /\ obj \in [Thorn -> SUBSET Source]
    /\ exe \in [Thorn -> SUBSET Source] \cup {None}
    /\ last \in {"none", "failed", "complete"}
    /\ att \in [at : Executing \cup {"idle", "staged"}, opts : Options \cup {None},
                list : Listing, full : BOOLEAN, cleans : BOOLEAN, queued : BOOLEAN,
                escalated : BOOLEAN, ran : BOOLEAN, probe : ReadingType,
                todo : SUBSET Thorn]

(* What the user's thorn is now.                                           *)
Now(t) == [prov |-> list[t], text |-> tree[t][list[t]].text,
           shape |-> tree[t][list[t]].shape, flesh |-> flesh, opts |-> opts]

(* `cactup build` says "up to date" after a build that succeeded only when *)
(* the executable holds, of every listed thorn, exactly the sources the    *)
(* user has now, compiled with the options of now, and no other thorn:     *)
(* whatever was edited, moved, swapped, dropped and put back before, and   *)
(* during the builds that led here (prepare_with_cache, execute).          *)
UpToDateIsTrue ==
    att.at = "idle" /\ last = "complete" /\ UpToDate =>
        exe = [t \in Thorn |-> IF list[t] = None THEN {} ELSE {Now(t)}]

(* A config that was deleted while a build of it waited in the queue stays *)
(* deleted: nothing is compiled or recorded in its directory until a new   *)
(* build of it is asked for (the first check of execute).                  *)
DeletedStaysDeleted ==
    ~dir => /\ obj = Nothing
            /\ meta = None /\ snapshot = None /\ processed = None
            /\ att.at \in {"idle", "staged"}
=============================================================================
