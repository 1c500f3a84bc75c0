----------------------------- MODULE BuildAttempt -----------------------------
(***************************************************************************)
(* The attempts to build one config and those who write their records      *)
(* (build/attempt.rs, commands/build.rs, build::execute).                  *)
(*                                                                         *)
(* Every `cactup build` stages a numbered attempt with a record,           *)
(* build.toml.  It is run here, in the foreground, or by a job: then the   *)
(* command that submitted it, the process on the compute node, `build      *)
(* stop` and `build prune` all work on one file, each with a copy it read  *)
(* before.  record.lock orders some of them.  The batch system starts the  *)
(* job when it likes, forgets it, kills it or queues it again.             *)
(*                                                                         *)
(* The commands run beside each other in several terminals.  Locks exclude *)
(* and a dead holder's lock does not count (LinkLock).  Config delete is   *)
(* ConfigBuild's.                                                          *)
(***************************************************************************)
EXTENDS Integers, FiniteSets

CONSTANTS
    Cmd,           \* terminals
    None,          \* no job, no outcome, no attempt
    MaxAttempts,   \* bound: attempts, and so jobs
    MaxRequeues,   \* bound: jobs the scheduler queues again
    MaxFails,      \* bound: queries the scheduler does not answer
    StartsApart,   \* no two builds are started at the same time, see Alone
    StopsInPeace,  \* no record is written while a stop works on it, see Peace
    JobsRecorded   \* no command dies between submitting a job and recording it

Id == 0 .. MaxAttempts - 1
Job == 1 .. MaxAttempts
Outcome == {None, "complete", "failed"}
Record == [job : Job \cup {None}, outcome : Outcome, settled : BOOLEAN]

ASSUME BuildAttemptAssumption ==
    /\ MaxAttempts \in Nat /\ MaxRequeues \in Nat /\ MaxFails \in Nat
    /\ None \notin Nat /\ None \notin Record /\ None \notin {"complete", "failed", "job"}
    /\ None \notin Cmd /\ "job" \notin Cmd
    /\ StartsApart \in BOOLEAN /\ StopsInPeace \in BOOLEAN /\ JobsRecorded \in BOOLEAN

VARIABLES
    rec,       \* rec[i]: the build.toml of attempt i, None where there is none
    jobs,      \* what the scheduler has of each job, and the attempt it is for
    run,       \* run[i]: the process that executes attempt i
    cmd,       \* what each terminal is doing, to which attempt, with which copy
    requeues, fails

vars == <<rec, jobs, run, cmd, requeues, fails>>

Fresh == [job |-> None, outcome |-> None, settled |-> FALSE]
Idle == [at |-> "idle", id |-> None, copy |-> Fresh]
NoRun == [at |-> "none", by |-> None, copy |-> Fresh, ok |-> FALSE]

Init ==
    /\ rec = [i \in Id |-> None]
    /\ jobs = [j \in Job |-> [of |-> None, st |-> "none"]]
    /\ run = [i \in Id |-> NoRun]
    /\ cmd = [c \in Cmd |-> Idle]
    /\ requeues = 0 /\ fails = 0

----------------------------------------------------------------------------
(* The attempts, their locks and the scheduler's answers.                  *)

Ids == {i \in Id : rec[i] # None}
Latest(i) == i \in Ids /\ \A k \in Ids : k <= i
NextId(i) == i \in Id /\ IF Ids = {} THEN i = 0 ELSE Latest(i - 1)

LockLive(i) == run[i].at \in {"locked", "making"}
BuildLockHeld == \E i \in Id : run[i].at \in {"locked", "making", "ended"}
RecordLocked(i) == \E c \in Cmd : cmd[c].at = "handoff" /\ cmd[c].id = i

Listed(j) == jobs[j].st \in {"queued", "running"}

(* Mutant: nothing is asked about after the outcome.                       *)
AskedJob_UntilEnd(r) == r.job # None /\ r.outcome = None

(* A job is asked about until its attempt has an outcome, and after it     *)
(* until a stop settled it: the scheduler may queue it again.              *)
PendingJob(r) == r.job # None /\ r.outcome = None
AskedJob(r) == r.job # None /\ (r.outcome = None \/ ~r.settled)

Unanswered == fails < MaxFails /\ fails' = fails + 1
Answered == UNCHANGED fails

(* What the stop command does to a job, and to the process it runs.        *)
Stopped(j) == [jobs EXCEPT ![j].st = "gone"]
Killed(j) ==
    [i \in Id |-> IF i = jobs[j].of /\ run[i].by = "job" THEN NoRun ELSE run[i]]

(* The assumptions of StartsApart and StopsInPeace.                        *)
Starting(c) ==
    \/ cmd[c].at \in {"cleared", "staged", "handoff"}
    \/ cmd[c].at = "blocking" /\ rec[cmd[c].id] # None /\ rec[cmd[c].id].job = None
    \/ cmd[c].at = "building" /\ run[cmd[c].id].at = "opened"
Alone == StartsApart => \A c \in Cmd : ~Starting(c)
Peace(i) ==
    StopsInPeace => \A c \in Cmd : ~(cmd[c].at \in {"stopping", "marking"} /\ cmd[c].id = i)

----------------------------------------------------------------------------
(* `build run` and `build submit`.                                         *)

Cleared(c) == cmd' = [cmd EXCEPT ![c] = [Idle EXCEPT !.at = "cleared"]]

(* guard_no_live_attempt.  A failed query is an error before the outcome;  *)
(* after it the start is refused without -f, and with it the job stopped.  *)
Guard(c, force) ==
    /\ cmd[c].at = "idle"
    /\ Alone
    /\ \/ /\ \A i \in Ids : Latest(i) => ~LockLive(i) /\ ~AskedJob(rec[i])
          /\ Answered
          /\ UNCHANGED <<jobs, run>>
       \/ \E i \in Ids :
            /\ Latest(i) /\ ~LockLive(i) /\ AskedJob(rec[i])
            /\ LET j == rec[i].job IN
               \/ /\ ~Listed(j)
                  /\ Answered
                  /\ UNCHANGED <<jobs, run>>
               \/ /\ force
                  /\ \/ Listed(j) /\ Answered
                     \/ rec[i].outcome # None /\ Unanswered
                  /\ jobs' = Stopped(j)
                  /\ run' = Killed(j)
    /\ Cleared(c)
    /\ UNCHANGED <<rec, requeues>>

(* prepare: the next number, its directory and its record.                 *)
Create(c) ==
    /\ cmd[c].at = "cleared"
    /\ \E i \in Id :
         /\ NextId(i)
         /\ rec' = [rec EXCEPT ![i] = Fresh]
         /\ cmd' = [cmd EXCEPT ![c] = [at |-> "staged", id |-> i, copy |-> Fresh]]
    /\ UNCHANGED <<jobs, run, requeues, fails>>

(* With record.lock held until the job is recorded, from the copy the      *)
(* command has had since it staged the attempt.                            *)
Submit(c) ==
    /\ cmd[c].at = "staged"
    /\ \E j \in Job :
         /\ \A k \in Job : jobs[k].st = "none" <=> k >= j
         /\ jobs' = [jobs EXCEPT ![j] = [of |-> cmd[c].id, st |-> "queued"]]
         /\ cmd' = [cmd EXCEPT ![c].at = "handoff", ![c].copy.job = j]
    /\ UNCHANGED <<rec, run, requeues, fails>>

RecordJob(c) ==
    /\ cmd[c].at = "handoff"
    /\ Peace(cmd[c].id)
    /\ rec' = [rec EXCEPT ![cmd[c].id] = cmd[c].copy]
    /\ cmd' = [cmd EXCEPT ![c].at = "watching"]
    /\ UNCHANGED <<jobs, run, requeues, fails>>

(* A submit command that blocks until the build is over.  It names its job *)
(* at any time until it returns, and the callback records it in what is on *)
(* disk by then.                                                           *)
SubmitBlocking(c) ==
    /\ cmd[c].at = "staged"
    /\ \E j \in Job :
         /\ \A k \in Job : jobs[k].st = "none" <=> k >= j
         /\ jobs' = [jobs EXCEPT ![j] = [of |-> cmd[c].id, st |-> "queued"]]
         /\ cmd' = [cmd EXCEPT ![c].at = "blocking", ![c].copy.job = j]
    /\ UNCHANGED <<rec, run, requeues, fails>>

(* Mutant: the callback stores the submitter's own copy.                   *)
Callback_OwnCopy(c) ==
    LET i == cmd[c].id IN
    /\ cmd[c].at = "blocking"
    /\ rec[i] # None /\ rec[i].job = None
    /\ ~RecordLocked(i) /\ Peace(i)
    /\ rec' = [rec EXCEPT ![i] = cmd[c].copy]
    /\ UNCHANGED <<jobs, run, cmd, requeues, fails>>

Callback(c) ==
    LET i == cmd[c].id IN
    /\ cmd[c].at = "blocking"
    /\ rec[i] # None /\ rec[i].job = None
    /\ ~RecordLocked(i) /\ Peace(i)
    /\ rec' = [rec EXCEPT ![i].job = cmd[c].copy.job]
    /\ UNCHANGED <<jobs, run, cmd, requeues, fails>>

BlockReturns(c) ==
    LET i == cmd[c].id IN
    /\ cmd[c].at = "blocking"
    /\ ~Listed(cmd[c].copy.job)
    /\ rec[i] # None => rec[i].job # None
    /\ cmd' = [cmd EXCEPT ![c].at = "watching"]
    /\ UNCHANGED <<rec, jobs, run, requeues, fails>>

(* Mutant: only a recorded outcome ends the watch.                         *)
WatchOver_Recorded(i) == rec[i] # None => rec[i].outcome # None

(* watch_build (--block, --follow): the recorded outcome, or the news that *)
(* neither the scheduler nor the attempt's lock knows of a build.          *)
WatchOver(i) ==
    rec[i] # None =>
        \/ rec[i].outcome # None
        \/ ~LockLive(i) /\ (rec[i].job # None => ~Listed(rec[i].job))

Watch(c) ==
    /\ cmd[c].at = "watching"
    /\ WatchOver(cmd[c].id)
    /\ cmd' = [cmd EXCEPT ![c] = Idle]
    /\ UNCHANGED <<rec, jobs, run, requeues, fails>>

(* A build in the foreground executes the attempt it staged.               *)
Foreground(c) ==
    /\ cmd[c].at = "staged"
    /\ run' = [run EXCEPT ![cmd[c].id] =
                 [at |-> "opened", by |-> c, copy |-> cmd[c].copy, ok |-> FALSE]]
    /\ cmd' = [cmd EXCEPT ![c].at = "building"]
    /\ UNCHANGED <<rec, jobs, requeues, fails>>

(* A command is interrupted or ends in an error, wherever it is.           *)
Die(c) ==
    /\ cmd[c].at # "idle"
    /\ JobsRecorded => cmd[c].at # "handoff" /\ ~(cmd[c].at = "blocking" /\ Starting(c))
    /\ cmd' = [cmd EXCEPT ![c] = Idle]
    /\ run' = [i \in Id |-> IF run[i].by = c THEN NoRun ELSE run[i]]
    /\ UNCHANGED <<rec, jobs, requeues, fails>>

----------------------------------------------------------------------------
(* `build stop` reads the latest attempt's record, and without its lock.   *)
StopOpens(c) ==
    /\ cmd[c].at = "idle"
    /\ \E i \in Ids :
         /\ Latest(i)
         /\ cmd' = [cmd EXCEPT ![c] = [at |-> "stopping", id |-> i, copy |-> rec[i]]]
    /\ UNCHANGED <<rec, jobs, run, requeues, fails>>

StopGoesTo(c, where) ==
    cmd' = [cmd EXCEPT ![c] = IF where = "idle" THEN Idle ELSE [@ EXCEPT !.at = where]]

(* After the outcome: a job that is still listed is stopped, one that      *)
(* could not be asked about is stopped and then settled.                   *)
StopEnded(c) ==
    LET j == cmd[c].copy.job IN
    /\ cmd[c].at = "stopping"
    /\ cmd[c].copy.outcome # None
    /\ IF ~AskedJob(cmd[c].copy) THEN StopGoesTo(c, "idle") /\ UNCHANGED <<jobs, run, fails>>
       ELSE \/ ~Listed(j) /\ Answered /\ StopGoesTo(c, "idle") /\ UNCHANGED <<jobs, run>>
            \/ /\ Listed(j) /\ Answered /\ StopGoesTo(c, "idle")
               /\ jobs' = Stopped(j) /\ run' = Killed(j)
            \/ /\ Unanswered /\ StopGoesTo(c, "settling")
               /\ jobs' = Stopped(j) /\ run' = Killed(j)
    /\ UNCHANGED <<rec, requeues>>

StopSettles(c) ==
    LET i == cmd[c].id IN
    /\ cmd[c].at = "settling"
    /\ ~RecordLocked(i) /\ Peace(i)
    /\ rec' = IF rec[i] = None THEN rec ELSE [rec EXCEPT ![i].settled = TRUE]
    /\ StopGoesTo(c, "idle")
    /\ UNCHANGED <<jobs, run, requeues, fails>>

(* Before it: the job is stopped if the scheduler lists it (a query that   *)
(* fails ends the command), a build in the foreground is left alone.       *)
StopLive(c) ==
    LET j == cmd[c].copy.job IN
    /\ cmd[c].at = "stopping"
    /\ cmd[c].copy.outcome = None
    /\ IF j # None /\ Listed(j)
         THEN jobs' = Stopped(j) /\ run' = Killed(j)
         ELSE UNCHANGED <<jobs, run>>
    /\ StopGoesTo(c, "marking")
    /\ UNCHANGED <<rec, requeues, fails>>

(* Either way the attempt is recorded as over, in the copy that was read   *)
(* at the start.                                                           *)
StopMarks(c) ==
    LET i == cmd[c].id IN
    /\ cmd[c].at = "marking"
    /\ rec' = IF rec[i] = None THEN rec
              ELSE [rec EXCEPT ![i] = [cmd[c].copy EXCEPT !.outcome = "failed", !.settled = FALSE]]
    /\ StopGoesTo(c, "idle")
    /\ UNCHANGED <<jobs, run, requeues, fails>>

(* `build prune --keep 1`: every attempt but the latest, unless it is live *)
(* by its record, the scheduler or its lock.                               *)
AttemptIsLive(i) ==
    /\ rec[i].outcome = None
    /\ LockLive(i) \/ (PendingJob(rec[i]) /\ Listed(rec[i].job))

Prune(c) ==
    /\ cmd[c].at = "idle"
    /\ \E i \in Ids :
         /\ ~Latest(i) /\ ~AttemptIsLive(i) /\ Peace(i)
         /\ rec' = [rec EXCEPT ![i] = None]
    /\ UNCHANGED <<jobs, run, cmd, requeues, fails>>

----------------------------------------------------------------------------
(* The scheduler, and the process that executes an attempt.                *)

JobEnds(i) == [j \in Job |-> IF jobs[j].of = i /\ jobs[j].st = "running" /\ run[i].by = "job"
                             THEN [jobs[j] EXCEPT !.st = "gone"] ELSE jobs[j]]

(* A job starts and reads its record; it fails where that is gone.         *)
JobStarts(j) ==
    LET i == jobs[j].of IN
    /\ jobs[j].st = "queued"
    /\ run[i].at = "none"
    /\ IF rec[i] = None
         THEN jobs' = [jobs EXCEPT ![j].st = "gone"] /\ UNCHANGED run
         ELSE /\ jobs' = [jobs EXCEPT ![j].st = "running"]
              /\ run' = [run EXCEPT ![i] =
                           [at |-> "opened", by |-> "job", copy |-> rec[i], ok |-> FALSE]]
    /\ UNCHANGED <<rec, cmd, requeues, fails>>

(* The config's build lock, not waited for, and the attempt's own.         *)
TakeLocks(i) ==
    /\ run[i].at = "opened"
    /\ IF BuildLockHeld \/ rec[i] = None
         THEN run' = [run EXCEPT ![i] = NoRun] /\ jobs' = JobEnds(i)
         ELSE run' = [run EXCEPT ![i].at = "locked"] /\ UNCHANGED jobs
    /\ UNCHANGED <<rec, cmd, requeues, fails>>

(* Mutant: the process's copy as it is.                                    *)
KeepingJob_NoLook(i) == run[i].copy

(* store_meta_keeping_job: the process's copy with the job on disk.        *)
KeepingJob(i) == [run[i].copy EXCEPT !.job = IF rec[i].job # None THEN rec[i].job ELSE @]

(* The record that it runs; an earlier outcome is cleared.                 *)
Begin(i) ==
    /\ run[i].at = "locked"
    /\ ~RecordLocked(i) /\ Peace(i)
    /\ rec[i] # None
    /\ LET now == [KeepingJob(i) EXCEPT !.outcome = None, !.settled = FALSE] IN
       /\ rec' = [rec EXCEPT ![i] = now]
       /\ run' = [run EXCEPT ![i].at = "making", ![i].copy = now]
    /\ UNCHANGED <<jobs, cmd, requeues, fails>>

(* make is over and running.lock is gone.                                  *)
Made(i, ok) ==
    /\ run[i].at = "making"
    /\ run' = [run EXCEPT ![i].at = "ended", ![i].ok = ok]
    /\ UNCHANGED <<rec, jobs, cmd, requeues, fails>>

(* The outcome.  A job stays listed until it leaves the queue.             *)
End(i) ==
    /\ run[i].at = "ended"
    /\ ~RecordLocked(i) /\ Peace(i)
    /\ rec' = IF rec[i] = None THEN rec
              ELSE [rec EXCEPT ![i] = [KeepingJob(i) EXCEPT
                      !.outcome = IF run[i].ok THEN "complete" ELSE "failed"]]
    /\ run' = [run EXCEPT ![i] = NoRun]
    /\ UNCHANGED <<jobs, cmd, requeues, fails>>

ForegroundEnds(c) ==
    /\ cmd[c].at = "building"
    /\ run[cmd[c].id].by # c
    /\ cmd' = [cmd EXCEPT ![c] = Idle]
    /\ UNCHANGED <<rec, jobs, run, requeues, fails>>

JobLeaves(j) ==
    /\ jobs[j].st = "running"
    /\ run[jobs[j].of].by # "job"
    /\ jobs' = [jobs EXCEPT ![j].st = "gone"]
    /\ UNCHANGED <<rec, run, cmd, requeues, fails>>

(* The job is killed: its node dies, or it is queued again, which may      *)
(* still happen after it has recorded its outcome.                         *)
JobDies(j) ==
    /\ jobs[j].st = "running"
    /\ jobs' = [jobs EXCEPT ![j].st = "gone"]
    /\ run' = Killed(j)
    /\ UNCHANGED <<rec, cmd, requeues, fails>>

JobRequeued(j) ==
    /\ jobs[j].st = "running"
    /\ requeues < MaxRequeues
    /\ requeues' = requeues + 1
    /\ jobs' = [jobs EXCEPT ![j].st = "queued"]
    /\ run' = Killed(j)
    /\ UNCHANGED <<rec, cmd, fails>>

Next ==
    \/ \E c \in Cmd :
         \/ \E force \in BOOLEAN : Guard(c, force)
         \/ Create(c) \/ Submit(c) \/ RecordJob(c)
         \/ SubmitBlocking(c) \/ Callback(c) \/ BlockReturns(c) \/ Watch(c)
         \/ Foreground(c) \/ ForegroundEnds(c) \/ Die(c)
         \/ StopOpens(c) \/ StopEnded(c) \/ StopSettles(c) \/ StopLive(c) \/ StopMarks(c)
         \/ Prune(c)
    \/ \E i \in Id : TakeLocks(i) \/ Begin(i) \/ End(i) \/ \E ok \in BOOLEAN : Made(i, ok)
    \/ \E j \in Job : JobStarts(j) \/ JobLeaves(j) \/ JobDies(j) \/ JobRequeued(j)

Spec == Init /\ [][Next]_vars

(* The scheduler starts what it has queued, make ends, a process that is   *)
(* not stopped goes on, and nobody calls stop so often that no build ever  *)
(* gets to write its record between two of them (Peace).                   *)
Fairness ==
    /\ \A c \in Cmd :
         /\ SF_vars(RecordJob(c)) /\ SF_vars(Callback(c))
         /\ WF_vars(BlockReturns(c)) /\ WF_vars(Watch(c))
         /\ WF_vars(StopEnded(c) \/ StopLive(c) \/ StopMarks(c))
    /\ \A i \in Id :
         /\ WF_vars(TakeLocks(i)) /\ WF_vars(\E ok \in BOOLEAN : Made(i, ok))
         /\ SF_vars(Begin(i)) /\ SF_vars(End(i))
    /\ \A j \in Job : WF_vars(JobStarts(j)) /\ WF_vars(JobLeaves(j))

FairSpec == Spec /\ Fairness
----------------------------------------------------------------------------
(* The kinds of value every variable has.                                  *)
TypeOK ==
    /\ rec \in [Id -> Record \cup {None}]
    /\ jobs \in [Job -> [of : Id \cup {None}, st : {"none", "queued", "running", "gone"}]]
    /\ run \in [Id -> [at : {"none", "opened", "locked", "making", "ended"},
                       by : Cmd \cup {"job", None}, copy : Record, ok : BOOLEAN]]
    /\ cmd \in [Cmd -> [at : {"idle", "cleared", "staged", "handoff", "blocking", "watching",
                              "building", "stopping", "settling", "marking"},
                        id : Id \cup {None}, copy : Record]]
    /\ requeues \in 0 .. MaxRequeues /\ fails \in 0 .. MaxFails

(* A build the scheduler still has is one the records know: as long as its *)
(* attempt exists, the record names its job, or the command that submitted *)
(* it is about to record it (submit_impl, store_meta_keeping_job).  What   *)
(* is not recorded no guard, stop or prune can find.                       *)
JobsKnown ==
    \A j \in Job : Listed(j) =>
        LET i == jobs[j].of IN
        \/ rec[i] = None
        \/ rec[i].job = j
        \/ \E c \in Cmd : cmd[c].at \in {"handoff", "blocking"} /\ cmd[c].id = i

(* Builds of one config never chain: at most one attempt waits in the      *)
(* queue or is being made, also when a job is queued again after its       *)
(* attempt recorded its outcome (guard_no_live_attempt).                   *)
Working(i) ==
    \/ run[i].at \in {"opened", "locked", "making"}
    \/ \E j \in Job : jobs[j].of = i /\ jobs[j].st = "queued"
NeverChain == \A i, k \in Id : Working(i) /\ Working(k) => i = k

(* An attempt that is recorded as complete stays so until it is built once *)
(* more or pruned: no command that had read the record before writes that  *)
(* outcome away (submit_impl's callback, stop_impl).                       *)
OutcomeKept ==
    [][\A i \in Id :
         rec[i] # None /\ rec'[i] # None /\ rec[i].outcome = "complete" =>
             rec'[i].outcome = "complete" \/ run'[i].at = "making"]_vars

(* `build submit --block` and --follow come to an end, whatever becomes of *)
(* the job: killed, forgotten, stopped, queued again (watch_build).        *)
WatchEnds == \A c \in Cmd : cmd[c].at = "watching" ~> cmd[c].at # "watching"
=============================================================================
