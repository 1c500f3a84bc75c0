------------------------------- MODULE TestRuns -------------------------------
(***************************************************************************)
(* The test run of one config (src/src/testsuite): `test run`, `submit`,   *)
(* `stop` and `delete`, and the jobs they submit, on a batch scheduler.    *)
(*                                                                         *)
(* A run is a directory with one record, test.toml, and numbered result    *)
(* sets, one of them active.  Commands hold test.lock for a part of their  *)
(* time, and look around before they take it.  Whoever executes the suite  *)
(* holds running.lock, and writes the whole record, from the copy it read, *)
(* under no lock of the record's.  The batch system starts a job when it   *)
(* likes, kills it, queues it again, forgets it.                           *)
(*                                                                         *)
(* Locks exclude, and of a dead holder's running.lock either may be        *)
(* believed for a time (LinkLock).  Left out are what a refusal looks at   *)
(* before anything is written, and machines whose job ids are pids.        *)
(***************************************************************************)
EXTENDS Naturals

CONSTANTS
  Cmd,          \* terminals
  MaxJobs,      \* bound: jobs submitted
  MaxSets,      \* bound: result sets
  MaxRequeues,  \* bound: jobs queued again
  MaxFails,     \* bound: queries the scheduler does not answer, records not opened
  Upsets,       \* of "overlap": two commands at a time; "lingers": a stopped
                \* job's process goes on; "unrecorded": a command dies between
                \* submitting a job and recording it
  None

Job == 1 .. MaxJobs

(* job: a submitted job's id.  ended: finished is set.  settled: a stop    *)
(* later than it (job-stopped), so that nobody asks about the job again.   *)
Record == [job : Job \cup {None}, ended : BOOLEAN, settled : BOOLEAN]

TestRunsAssumption ==
  /\ MaxJobs \in Nat /\ MaxSets \in Nat /\ MaxRequeues \in Nat /\ MaxFails \in Nat
  /\ None \notin Nat /\ None \notin Record /\ Cmd \cap Job = {}

VARIABLES
  dir,       \* whether the run's directory is there
  listed,    \* whether tests.toml has the run
  rec,       \* its test.toml, or None
  sets,      \* how many result sets it has
  active,    \* the active one, or None
  corpse,    \* whether a dead process left its running.lock
  jobs,      \* what the scheduler has of each job, and the set it is to fill
  run,       \* per job or terminal: the process that executes the suite
  cmd,       \* what each terminal is doing, with which copy of the record
  missed,    \* a delete took an unanswered query for a job's end, or a start a
             \* record it could not open for none
  requeues, fails

vars == <<dir, listed, rec, sets, active, corpse, jobs, run, cmd, missed, requeues, fails>>

Set == 0 .. MaxSets - 1
Fresh == [job |-> None, ended |-> FALSE, settled |-> FALSE]
Idle == [at |-> "idle", front |-> FALSE, force |-> FALSE, copy |-> Fresh,
         set |-> None, job |-> None]
NoRun == [at |-> "none", copy |-> Fresh, set |-> None]

Init ==
  /\ dir = FALSE /\ listed = FALSE
  /\ rec = None
  /\ sets = 0 /\ active = None
  /\ corpse = FALSE
  /\ jobs = [j \in Job |-> [st |-> "none", set |-> None]]
  /\ run = [p \in Cmd \cup Job |-> NoRun]
  /\ cmd = [c \in Cmd |-> Idle]
  /\ missed = FALSE
  /\ requeues = 0 /\ fails = 0

CmdSteps == {"idle", "look", "ask", "take", "write", "submit", "record", "front",
             "stop", "mark", "clear", "remove", "drop"}
RunSteps == {"none", "wait", "begin", "store", "suite", "end"}

Entry == [st : {"none", "queued", "running", "odd", "gone"}, set : Set \cup {None}]
Process == [at : RunSteps, copy : Record, set : Set \cup {None}]
Command == [at : CmdSteps, front : BOOLEAN, force : BOOLEAN, copy : Record,
            set : Set \cup {None}, job : Job \cup {None}]

TypeOK ==
  /\ dir \in BOOLEAN /\ listed \in BOOLEAN /\ corpse \in BOOLEAN /\ missed \in BOOLEAN
  /\ rec \in Record \cup {None}
  /\ sets \in 0 .. MaxSets
  /\ active \in Set \cup {None}
  /\ jobs \in [Job -> Entry]
  /\ run \in [Cmd \cup Job -> Process]
  /\ cmd \in [Cmd -> Command]
  /\ requeues \in 0 .. MaxRequeues /\ fails \in 0 .. MaxFails

-----------------------------------------------------------------------------
(* The locks, the scheduler's answers, and what a stop does.               *)

Locked == \E c \in Cmd : cmd[c].at \in {"write", "submit", "record", "mark"}

Suite == {"store", "suite"}
HeldLive ==
  IF \E p \in DOMAIN run : run[p].at \in Suite THEN {TRUE}
  ELSE IF corpse THEN BOOLEAN ELSE {FALSE}

(* pending_job.  An end stays open to a requeue until a stop settles it.   *)
Pending(r) == r.job # None /\ (~r.ended \/ ~r.settled)

Listed(j) == jobs[j].st \in {"queued", "running"}
(* Listed in a state that no pattern reads, and not known to have ended.   *)
Unread(r) == Pending(r) /\ ~r.ended /\ jobs[r.job].st = "odd"
Answered == UNCHANGED fails
Unanswered == fails < MaxFails /\ fails' = fails + 1

(* The process p ends where it is; its running.lock stays.                 *)
Killed(p) ==
  /\ run' = [run EXCEPT ![p] = NoRun]
  /\ corpse' = (corpse \/ run[p].at \in Suite)

Stopped(j) ==
  /\ jobs' = [jobs EXCEPT ![j].st = "gone"]
  /\ Killed(j) \/ ("lingers" \in Upsets /\ UNCHANGED <<run, corpse>>)

Goto(c, at) == cmd' = [cmd EXCEPT ![c] = [Idle EXCEPT !.at = at]]
Over(c) == cmd' = [cmd EXCEPT ![c] = Idle]

(* By assumption no command is typed beside another, but for a suite that  *)
(* runs in the foreground; it takes and lets go of its lock with nobody by.*)
Quiet(c) ==
  "overlap" \in Upsets \/ \A d \in Cmd \ {c} :
    \/ cmd[d].at = "idle"
    \/ cmd[d].at = "front" /\ run[d].at = "suite"

stored == <<dir, listed, rec, sets, active>>
counts == <<missed, requeues>>
outside == <<jobs, run, corpse>>

-----------------------------------------------------------------------------
(* start_impl, behind `test run` and `test submit`.                        *)

Start(c) ==
  /\ cmd[c].at = "idle" /\ Quiet(c)
  /\ dir' = TRUE /\ listed' = TRUE
  /\ \E front, force \in BOOLEAN :
       cmd' = [cmd EXCEPT ![c] = [Idle EXCEPT !.at = "look", !.front = front, !.force = force]]
  /\ UNCHANGED <<rec, sets, active, outside, counts, fails>>

Takes(c) == cmd' = [cmd EXCEPT ![c].at = "take", ![c].copy = Fresh]

(* A record that cannot be opened (unreadable, of a newer schema) is taken *)
(* for no old run: nothing is asked of its lock or of its job.             *)
OpenFails(c) ==
  /\ rec # None /\ Unanswered /\ missed' = TRUE
  /\ Takes(c)

(* Mutant: only the queue is asked.                                        *)
Look_QueueOnly(c) ==
  /\ cmd[c].at = "look"
  /\ \/ /\ IF rec # None /\ Pending(rec)
             THEN cmd' = [cmd EXCEPT ![c].at = "ask", ![c].copy = rec]
             ELSE Takes(c)
        /\ UNCHANGED <<missed, fails>>
     \/ OpenFails(c)
  /\ UNCHANGED <<stored, outside, requeues>>

(* The old run, if any: it is not to execute now.                          *)
Look(c) ==
  /\ cmd[c].at = "look"
  /\ \/ /\ IF rec = None THEN Takes(c)
           ELSE \E live \in HeldLive :
             IF live THEN Over(c)
             ELSE IF Pending(rec) THEN cmd' = [cmd EXCEPT ![c].at = "ask", ![c].copy = rec]
             ELSE Takes(c)
        /\ UNCHANGED <<missed, fails>>
     \/ OpenFails(c)
  /\ UNCHANGED <<stored, outside, requeues>>

(* Its job: listed, it is refused or, with -f, stopped.  A query that      *)
(* fails is an error before the end, and after it as good as listed.       *)
Ask(c) ==
  LET j == cmd[c].copy.job IN
  /\ cmd[c].at = "ask"
  /\ \/ ~Listed(j) /\ Answered /\ Takes(c) /\ UNCHANGED outside
     \/ /\ \/ Listed(j) /\ Answered
           \/ cmd[c].copy.ended /\ Unanswered
        /\ IF cmd[c].force THEN Stopped(j) /\ Takes(c)
                           ELSE Over(c) /\ UNCHANGED outside
     \/ ~cmd[c].copy.ended /\ Unanswered /\ Over(c) /\ UNCHANGED outside
  /\ UNCHANGED <<stored, counts>>

(* test.lock, which is not waited for, and the result set: the active one  *)
(* again (--overwrite, -f) or the next.                                    *)
Take(c) ==
  /\ cmd[c].at = "take"
  /\ IF Locked \/ ~dir THEN Over(c) /\ UNCHANGED <<sets, active>>
     ELSE \E s \in Set :
       /\ \/ s = active
          \/ s = sets /\ (cmd[c].force => active = None)
       /\ cmd' = [cmd EXCEPT ![c].at = "write", ![c].force = FALSE, ![c].set = s]
       /\ active' = s
       /\ sets' = IF s = sets THEN sets + 1 ELSE sets
  /\ UNCHANGED <<dir, listed, rec, outside, counts, fails>>

(* The new record, with no job as yet.  A run in the foreground lets go of *)
(* test.lock and goes on from this copy.                                   *)
Write(c) ==
  /\ cmd[c].at = "write"
  /\ IF ~dir THEN Over(c) /\ UNCHANGED <<rec, run>>
     ELSE /\ rec' = Fresh
          /\ IF cmd[c].front
               THEN /\ Goto(c, "front")
                    /\ run' = [run EXCEPT ![c] = [at |-> "begin", copy |-> Fresh,
                                                  set |-> cmd[c].set]]
               ELSE /\ cmd' = [cmd EXCEPT ![c].at = "submit"]
                    /\ UNCHANGED run
  /\ UNCHANGED <<dir, listed, sets, active, jobs, corpse, counts, fails>>

Submit(c) ==
  /\ cmd[c].at = "submit"
  /\ \E j \in Job :
       /\ \A k \in Job : jobs[k].st = "none" <=> k >= j
       /\ jobs' = [jobs EXCEPT ![j] = [st |-> "queued", set |-> cmd[c].set]]
       /\ cmd' = [cmd EXCEPT ![c] = [Idle EXCEPT !.at = "record", !.job = j]]
  /\ UNCHANGED <<stored, run, corpse, counts, fails>>

RecordJob(c) ==
  /\ cmd[c].at = "record"
  /\ rec' = IF dir THEN [Fresh EXCEPT !.job = cmd[c].job] ELSE rec
  /\ Over(c)
  /\ UNCHANGED <<dir, listed, sets, active, outside, counts, fails>>

(* A command dies, is interrupted or fails, wherever it is.                *)
Die(c) ==
  /\ cmd[c].at # "idle"
  /\ "unrecorded" \in Upsets \/ cmd[c].at # "record"
  /\ Over(c) /\ Killed(c)
  /\ UNCHANGED <<stored, jobs, counts, fails>>

-----------------------------------------------------------------------------
(* `test stop`.  The record is read before test.lock is taken.             *)

StopOpens(c) ==
  /\ cmd[c].at = "idle" /\ Quiet(c)
  /\ listed /\ rec # None
  /\ cmd' = [cmd EXCEPT ![c] = [Idle EXCEPT !.at = "stop", !.copy = rec]]
  /\ UNCHANGED <<stored, outside, counts, fails>>

Marks(c, r) == cmd' = [cmd EXCEPT ![c].at = "mark", ![c].copy = r]

(* What the scheduler says of a job it does not list as live.              *)
StopUnlisted(c, r) ==
  /\ ~Listed(r.job) /\ Answered
  /\ UNCHANGED outside
  /\ \/ /\ Unread(r) \/ FALSE \in HeldLive
        /\ Marks(c, IF Unread(r) THEN [r EXCEPT !.ended = TRUE, !.settled = FALSE] ELSE r)
     \/ TRUE \in HeldLive /\ Over(c)

(* After the end only a job that could not be asked about is recorded, as  *)
(* settled: the stop is sent all the same.                                 *)
StopListed(c, r) ==
  /\ Stopped(r.job)
  /\ \/ /\ Listed(r.job) /\ Answered
        /\ IF r.ended THEN Over(c) ELSE Marks(c, [r EXCEPT !.ended = TRUE, !.settled = FALSE])
     \/ /\ r.ended /\ Unanswered
        /\ Marks(c, [r EXCEPT !.settled = TRUE])

StopJudges(c) ==
  LET r == cmd[c].copy IN
  /\ cmd[c].at = "stop"
  /\ IF Locked \/ ~dir \/ ~Pending(r) THEN Over(c) /\ UNCHANGED <<outside, fails>>
     ELSE \/ StopListed(c, r)
          \/ StopUnlisted(c, r)
          \/ ~r.ended /\ Unanswered /\ Over(c) /\ UNCHANGED outside
  /\ UNCHANGED <<stored, counts>>

(* The whole record, from the copy.                                        *)
StopMarks(c) ==
  /\ cmd[c].at = "mark"
  /\ rec' = IF dir THEN cmd[c].copy ELSE rec
  /\ Over(c)
  /\ UNCHANGED <<dir, listed, sets, active, outside, counts, fails>>

-----------------------------------------------------------------------------
(* `test delete`.  The record is read before test.lock is taken, and the   *)
(* lock let go of before the directory goes.                               *)

DeleteOpens(c) ==
  /\ cmd[c].at = "idle" /\ Quiet(c)
  /\ listed /\ rec # None
  /\ \E force \in BOOLEAN :
       cmd' = [cmd EXCEPT ![c] = [Idle EXCEPT !.at = "clear", !.force = force, !.copy = rec]]
  /\ UNCHANGED <<stored, outside, counts, fails>>

(* An entry whose directory has gone.                                      *)
Prune(c) ==
  /\ cmd[c].at = "idle" /\ Quiet(c)
  /\ listed /\ ~dir
  /\ listed' = FALSE
  /\ UNCHANGED <<dir, rec, sets, active, outside, cmd, counts, fails>>

ClearUnlisted(c, r) ==
  /\ Pending(r) => ~Listed(r.job)
  /\ Answered
  /\ UNCHANGED <<outside, missed>>
  /\ \/ /\ IF Unread(r) THEN cmd[c].force ELSE FALSE \in HeldLive
        /\ Goto(c, "remove")
     \/ /\ TRUE \in HeldLive \/ (Unread(r) /\ ~cmd[c].force)
        /\ Over(c)

ClearListed(c, r) ==
  /\ Pending(r) /\ Listed(r.job) /\ Answered
  /\ IF cmd[c].force THEN Stopped(r.job) /\ Goto(c, "remove")
                     ELSE Over(c) /\ UNCHANGED outside
  /\ UNCHANGED missed

(* After the end a query that fails is taken as the job being over, with a *)
(* note; before it, it is an error.                                        *)
ClearUnanswered(c, r) ==
  /\ Pending(r) /\ Unanswered
  /\ UNCHANGED outside
  /\ IF r.ended /\ FALSE \in HeldLive THEN Goto(c, "remove") /\ missed' = TRUE
                                      ELSE Over(c) /\ UNCHANGED missed

DeleteClears(c) ==
  LET r == cmd[c].copy IN
  /\ cmd[c].at = "clear"
  /\ IF Locked \/ ~dir THEN Over(c) /\ UNCHANGED <<outside, missed, fails>>
     ELSE ClearUnlisted(c, r) \/ ClearListed(c, r) \/ ClearUnanswered(c, r)
  /\ UNCHANGED <<stored, requeues>>

DeleteRemoves(c) ==
  /\ cmd[c].at = "remove"
  /\ dir' = FALSE /\ rec' = None /\ sets' = 0 /\ active' = None /\ corpse' = FALSE
  /\ Goto(c, "drop")
  /\ UNCHANGED <<listed, jobs, run, counts, fails>>

DeleteDrops(c) ==
  /\ cmd[c].at = "drop"
  /\ listed' = FALSE
  /\ Over(c)
  /\ UNCHANGED <<dir, rec, sets, active, outside, counts, fails>>

-----------------------------------------------------------------------------
(* The compute node (run_compute), and execute_testsuite there and here.   *)

(* The process is over: a terminal is free, a job about to leave the queue.*)
Ends(p) ==
  /\ run' = [run EXCEPT ![p] = NoRun]
  /\ cmd' = IF p \in Cmd THEN [cmd EXCEPT ![p] = Idle] ELSE cmd

JobStarts(j) ==
  /\ jobs[j].st = "queued"
  /\ jobs' = [jobs EXCEPT ![j].st = "running"]
  /\ run' = IF rec = None THEN run
            ELSE [run EXCEPT ![j] = [at |-> "wait", copy |-> rec, set |-> jobs[j].set]]
  /\ UNCHANGED <<stored, corpse, cmd, counts, fails>>

Activated(s) == active' = s /\ sets' = IF s < sets THEN sets ELSE s + 1

(* Mutant: the record is not read again under the lock.                    *)
Handoff_FirstLook(j) ==
  /\ run[j].at = "wait" /\ ~Locked
  /\ IF rec = None THEN Ends(j) /\ UNCHANGED <<sets, active>>
     ELSE /\ run' = [run EXCEPT ![j].at = "begin", ![j].copy.ended = FALSE]
          /\ Activated(run[j].set)
          /\ UNCHANGED cmd
  /\ UNCHANGED <<dir, listed, rec, jobs, corpse, counts, fails>>

(* Under test.lock, which is waited for: the record as it is now, not      *)
(* ended, and the set it was submitted for.                                *)
Handoff(j) ==
  /\ run[j].at = "wait" /\ ~Locked
  /\ IF rec = None THEN Ends(j) /\ UNCHANGED <<sets, active>>
     ELSE /\ run' = [run EXCEPT ![j].at = "begin", ![j].copy = [rec EXCEPT !.ended = FALSE]]
          /\ Activated(run[j].set)
          /\ UNCHANGED cmd
  /\ UNCHANGED <<dir, listed, rec, jobs, corpse, counts, fails>>

(* running.lock is not waited for.                                         *)
Begin(p) ==
  /\ run[p].at = "begin"
  /\ \E live \in HeldLive :
       IF live \/ ~dir THEN Ends(p) /\ UNCHANGED corpse
       ELSE /\ run' = [run EXCEPT ![p].at = "store"]
            /\ corpse' = FALSE
            /\ UNCHANGED cmd
  /\ UNCHANGED <<stored, jobs, counts, fails>>

Store(p) ==
  /\ run[p].at = "store"
  /\ IF dir THEN /\ rec' = run[p].copy
                 /\ run' = [run EXCEPT ![p].at = "suite"]
                 /\ UNCHANGED cmd
            ELSE Ends(p) /\ UNCHANGED rec
  /\ UNCHANGED <<dir, listed, sets, active, jobs, corpse, counts, fails>>

(* The harness is done, and running.lock let go of before the record.      *)
SuiteEnds(p) ==
  /\ run[p].at = "suite"
  /\ p \in Cmd => Quiet(p)
  /\ run' = [run EXCEPT ![p].at = "end"]
  /\ UNCHANGED <<stored, jobs, corpse, cmd, counts, fails>>

Finish(p) ==
  /\ run[p].at = "end"
  /\ rec' = IF dir THEN [run[p].copy EXCEPT !.ended = TRUE, !.settled = FALSE] ELSE rec
  /\ Ends(p)
  /\ UNCHANGED <<dir, listed, sets, active, jobs, corpse, counts, fails>>

(* The batch system kills a job's process, queues a job again that it has  *)
(* not let go of, lists one for a while in a state that no pattern reads,  *)
(* and forgets it.  A process that waits too long for test.lock fails.     *)
JobDies(j) ==
  /\ run[j].at # "none"
  /\ Killed(j)
  /\ UNCHANGED <<stored, jobs, cmd, counts, fails>>

Requeue(j) ==
  /\ jobs[j].st = "running" /\ requeues < MaxRequeues
  /\ requeues' = requeues + 1
  /\ jobs' = [jobs EXCEPT ![j].st = "queued"]
  /\ Killed(j)
  /\ UNCHANGED <<stored, cmd, missed, fails>>

JobLeaves(j) ==
  /\ jobs[j].st \in {"running", "odd"} /\ run[j].at = "none"
  /\ \E st \in {"odd", "gone"} : jobs' = [jobs EXCEPT ![j].st = st]
  /\ UNCHANGED <<stored, run, corpse, cmd, counts, fails>>

Next ==
  \/ \E c \in Cmd :
       \/ Start(c) \/ Look(c) \/ Ask(c) \/ Take(c) \/ Write(c) \/ Submit(c) \/ RecordJob(c)
       \/ StopOpens(c) \/ StopJudges(c) \/ StopMarks(c)
       \/ DeleteOpens(c) \/ Prune(c) \/ DeleteClears(c) \/ DeleteRemoves(c) \/ DeleteDrops(c)
       \/ Die(c)
  \/ \E j \in Job :
       JobStarts(j) \/ Handoff(j) \/ JobDies(j) \/ Requeue(j) \/ JobLeaves(j)
  \/ \E p \in Cmd \cup Job : Begin(p) \/ Store(p) \/ SuiteEnds(p) \/ Finish(p)

Spec == Init /\ [][Next]_vars

-----------------------------------------------------------------------------
(* There is no reaper for test runs: a job that is in the queue is the one *)
(* the record names, or is about to be, in a run that tests.toml has, so   *)
(* that stop, delete and the next start find it; until a delete or a start *)
(* missed it.                                                              *)
JobsFound ==
  ~missed => \A j \in Job : Listed(j) =>
    /\ listed /\ dir
    /\ \/ rec # None /\ rec.job = j /\ Pending(rec)
       \/ \E c \in Cmd : cmd[c].at = "record" /\ cmd[c].job = j

(* Whoever executes the suite does so alone, in a directory that is still  *)
(* there, and its set is the active one, which show and log read; until a  *)
(* delete or a start missed it.                                            *)
SuiteAlone ==
  ~missed => \A p \in Cmd \cup Job : run[p].at \in Suite =>
    /\ dir /\ active = run[p].set
    /\ \A q \in Cmd \cup Job : run[q].at \in Suite => q = p

=============================================================================
