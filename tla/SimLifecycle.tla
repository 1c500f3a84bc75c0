---------------------------- MODULE SimLifecycle ----------------------------
(***************************************************************************)
(* The restarts of one simulation (src/sim) on a batch scheduler's machine. *)
(*                                                                          *)
(* A simulation is a directory of restarts, output-0000, output-0001, ...   *)
(* Each has a record (restart.toml) and, when it was submitted, one job;    *)
(* the symlink output-NNNN-active says which restart is the active one.     *)
(* Commands typed on the login nodes hold the simulation's lock (sim.lock,  *)
(* which LinkLock models) for as long as they act, so there is one at a     *)
(* time.  The jobs' own cactup processes take that lock only to make their  *)
(* restart the active one: everything else they write, the scheduler's      *)
(* doings, and deaths, happen between any two steps of a command.           *)
(*                                                                          *)
(* The job of a restart is named by the restart's id.  A command that dies  *)
(* and one that returns an error leave the same things behind; the lock of  *)
(* a dead one is broken by the next, which LinkLock is about.               *)
(***************************************************************************)
EXTENDS Integers, FiniteSets

CONSTANTS
  MaxRestarts,   \* bound: how many restarts the directory has room for
  Segments,      \* bound: the most segments one submission is split into
  MaxRequeues,   \* bound: how often the scheduler requeues a job
  MaxFails,      \* bound: how many status queries go wrong
  Fails,         \* how they go wrong: "unanswered", "hiccup"
  Commands,      \* the commands that are typed
  None,          \* no restart, no job
  UserWaits,     \* no new work while a pre-submitted restart is waiting
  JobsRecorded,  \* a submission that queued a job lives to record its id
  DeletesRemove, \* a delete that stopped the jobs lives to remove the directory
  QuickLaunch    \* no stop, clean or delete between a foreground run's launch
                 \* and the moment it holds its running.lock

VARIABLES
  meta,      \* restart.toml of every restart
  chained,   \* the job a restart's job depends on (chained-job-id), or None
  links,     \* the restarts with an -active symlink
  queue,     \* what the scheduler has of each restart's job
  doomed,    \* the jobs whose stop the scheduler took
  run,       \* the next step of each restart's own cactup process
  mine,      \* the record that process holds in memory
  corpse,    \* the restarts whose running.lock was left by a dead process
  beat,      \* the heartbeat file of each restart
  cmd,       \* the command that holds sim.lock
  gone,      \* whether the simulation's directory was removed
  requeues,  \* requeues so far
  fails      \* status queries that went wrong so far

vars == <<meta, chained, links, queue, doomed, run, mine, corpse, beat, cmd,
          gone, requeues, fails>>

(* What the processes and the scheduler change, and what a command changes. *)
runVars == <<run, mine, corpse, beat>>
jobVars == <<queue, doomed, requeues>>
recVars == <<meta, chained, links>>

-----------------------------------------------------------------------------
Id == 0 .. MaxRestarts - 1
Ops == {"submit", "run", "stop", "clean", "delete"}

ASSUME Constants ==
  /\ MaxRestarts \in Nat \ {0}
  /\ Segments \in Nat \ {0}
  /\ MaxRequeues \in Nat
  /\ MaxFails \in Nat
  /\ Fails \subseteq {"unanswered", "hiccup"}
  /\ Commands \subseteq Ops
  /\ None \notin Id
  /\ {UserWaits, JobsRecorded, DeletesRemove, QuickLaunch} \subseteq BOOLEAN

(* made: the directory exists.  job: the job id is recorded.  ended:        *)
(* terminated and finished are set.  settled: job-stopped is later than     *)
(* finished, so the job is not asked about any more.                        *)
Meta == [made : BOOLEAN, job : BOOLEAN, foreground : BOOLEAN,
         ended : BOOLEAN, settled : BOOLEAN]

NoMeta == [made |-> FALSE, job |-> FALSE, foreground |-> FALSE,
           ended |-> FALSE, settled |-> FALSE]

QueueStates == {"none", "queued", "running", "over"}
Beats       == {"none", "fresh", "stale"}

(* A process between its start and its end; sim.lock is held in Handing,    *)
(* running.lock in Running, and Cactus itself runs in "exec".               *)
Handing == {"rename", "load"}
Running == {"store", "exec"}
RunSteps == {"off", "wait", "begin", "end"} \cup Handing \cup Running

CmdSteps == {"idle", "reap", "unlink", "mark", "decide", "prepare", "activate",
             "launch", "queue", "record", "stop", "await", "finish",
             "deactivate", "live", "remove"}

(* op, force: what was typed.  then: where a clean goes on.  left: segments *)
(* still to submit.  prev: the job the next one is chained behind.  first:  *)
(* whether the next restart is made active.  cur: the restart at hand.      *)
Cmd == [op : Ops \cup {"none"}, force : BOOLEAN, at : CmdSteps,
        then : CmdSteps, left : 0 .. Segments, prev : Id \cup {None},
        first : BOOLEAN, cur : Id \cup {None}]

NoCmd == [op |-> "none", force |-> FALSE, at |-> "idle", then |-> "idle",
          left |-> 0, prev |-> None, first |-> FALSE, cur |-> None]

TypeOK ==
  /\ meta \in [Id -> Meta]
  /\ chained \in [Id -> Id \cup {None}]
  /\ links \subseteq Id
  /\ queue \in [Id -> QueueStates]
  /\ doomed \subseteq Id
  /\ run \in [Id -> RunSteps]
  /\ mine \in [Id -> Meta]
  /\ corpse \subseteq Id
  /\ beat \in [Id -> Beats]
  /\ cmd \in Cmd
  /\ gone \in BOOLEAN
  /\ requeues \in 0 .. MaxRequeues
  /\ fails \in 0 .. MaxFails

Init ==
  /\ meta = [i \in Id |-> NoMeta]
  /\ chained = [i \in Id |-> None]
  /\ links = {}
  /\ queue = [i \in Id |-> "none"]
  /\ doomed = {}
  /\ run = [i \in Id |-> "off"]
  /\ mine = [i \in Id |-> NoMeta]
  /\ corpse = {}
  /\ beat = [i \in Id |-> "none"]
  /\ cmd = NoCmd
  /\ gone = FALSE
  /\ requeues = 0
  /\ fails = 0

-----------------------------------------------------------------------------
(* What a command can learn.                                                *)

SimLockFree == cmd.at = "idle" /\ \A i \in Id : run[i] \notin Handing

Made == {i \in Id : meta[i].made}

(* The job a scheduler can be asked about: a foreground run has none.       *)
SchedulerJob(i) == meta[i].job /\ ~meta[i].foreground

Listed(i) == queue[i] \in {"queued", "running"}

(* is_held_live may be right about a dead holder, or not yet.               *)
HeldLive(i) ==
  IF run[i] \in Running THEN {TRUE}
  ELSE IF i \in corpse THEN BOOLEAN ELSE {FALSE}

(* One query.  It may fail (FailedQuery), or the scheduler may lose sight   *)
(* of a job for a moment, which reads as a job that is over.                *)
Answers(i) ==
  {IF Listed(i) THEN "listed" ELSE "over"}
    \cup (IF fails < MaxFails THEN Fails ELSE {})

(* ask_ended: a job not asked about after its end, or the query's answer.   *)
EndedAnswers(i) ==
  IF SchedulerJob(i) /\ ~meta[i].settled THEN Answers(i) ELSE {"unasked"}

Count(answer) == fails' = IF answer \in Fails THEN fails + 1 ELSE fails

Ended == {i \in Made : meta[i].ended}
NewestEnded == CHOOSE i \in Ended : \A j \in Ended : j <= i

(* Restarts of an earlier submission that have not begun, or not handed over. *)
Waiting == {i \in Id : Listed(i) /\ i \notin links /\ ~meta[i].ended}

Launching == {i \in Made : meta[i].foreground /\ run[i] = "begin"}

-----------------------------------------------------------------------------
(* The command at hand.                                                     *)

Goto(step) == cmd' = [cmd EXCEPT !.at = step]

(* It is over, done or failed: sim.lock is released. *)
Over == cmd' = NoCmd

(* clean_active returns to its caller. *)
Cleaned == cmd' = IF cmd.then = "idle" THEN NoCmd
                  ELSE [cmd EXCEPT !.at = cmd.then, !.cur = None]

Begin(op) ==
  /\ op \in Commands
  /\ SimLockFree
  /\ ~gone
  /\ UserWaits /\ op \in {"submit", "run"} => Waiting = {}
  /\ QuickLaunch /\ op \notin {"submit", "run"} => Launching = {}
  /\ \E force \in BOOLEAN, left \in 1 .. Segments :
       /\ op # "submit" => left = 1
       /\ op = "clean" \/ (op \in {"submit", "run"} /\ Fails = {}) => ~force
       /\ cmd' = [NoCmd EXCEPT
            !.op = op, !.force = force, !.first = TRUE,
            !.left = IF op \in {"submit", "run"} THEN left ELSE 0,
            !.at = CASE op \in {"submit", "run"} -> "reap"
                     [] op = "clean"  -> "unlink"
                     [] op = "stop"   -> "stop"
                     [] op = "delete" -> "live",
            !.then = IF op \in {"submit", "run"} THEN "decide" ELSE "idle"]
  /\ UNCHANGED <<recVars, jobVars, runVars, gone, fails>>

(* A command may fail, or its process die, before any of its steps. *)
Abort ==
  /\ cmd.at # "idle"
  /\ JobsRecorded => cmd.at # "record"
  /\ DeletesRemove => cmd.at # "remove"
  /\ Over
  /\ UNCHANGED <<recVars, jobVars, runVars, gone, fails>>

-----------------------------------------------------------------------------
(* reap_stale, under submit and run.                                        *)

(* Mutants: the heartbeat, or the lock, is not looked at. *)
TrulyDead_NoHeartbeat(i, listed, held) == ~listed /\ ~held
TrulyDead_NoLock(i, listed, held) == ~listed

(* The verdict on the active restart: what the queue said, whether its lock *)
(* is held, and its heartbeat unless its run recorded its end.              *)
TrulyDead(i, listed, held) ==
  /\ ~listed
  /\ ~held
  /\ meta[i].ended \/ beat[i] # "fresh"

(* After the end a failed query is taken as the job being over; before it,  *)
(* it is an error, and the command ends.  The throttles may pass over the   *)
(* active restart without a look at it.                                     *)
Reap ==
  /\ cmd.at = "reap"
  /\ \/ Goto("decide") /\ UNCHANGED fails
     \/ \E i \in links :
          LET asked == IF meta[i].ended THEN EndedAnswers(i)
                       ELSE IF SchedulerJob(i) THEN Answers(i) ELSE {"unasked"}
          IN \E answer \in asked, held \in HeldLive(i) :
               /\ Count(answer)
               /\ IF answer = "unanswered" /\ ~meta[i].ended THEN Over
                  ELSE Goto(IF TrulyDead(i, answer = "listed", held)
                            THEN "unlink" ELSE "decide")
  /\ UNCHANGED <<recVars, jobVars, runVars, gone>>

(* clean_active: remove the link, then mark the restart ended if its run    *)
(* never did.                                                               *)
Unlink ==
  /\ cmd.at = "unlink"
  /\ \/ links = {} /\ Goto(cmd.then) /\ UNCHANGED links
     \/ \E i \in links :
          /\ links' = links \ {i}
          /\ cmd' = [cmd EXCEPT !.at = "mark", !.cur = i]
  /\ UNCHANGED <<meta, chained, jobVars, runVars, gone, fails>>

Mark ==
  /\ cmd.at = "mark"
  /\ meta' = [meta EXCEPT ![cmd.cur].ended = TRUE,
                          ![cmd.cur].settled = meta[cmd.cur].ended /\ @]
  /\ Cleaned
  /\ UNCHANGED <<chained, links, jobVars, runVars, gone, fails>>

-----------------------------------------------------------------------------
(* submit_impl: what the new job is chained behind.                         *)

(* Mutant: nothing is chained behind a live job. *)
ChainBehind_NotChained(i) ==
  cmd' = [cmd EXCEPT !.at = "prepare", !.first = FALSE]

ChainBehind(i) ==
  cmd' = [cmd EXCEPT !.at = "prepare", !.prev = i, !.first = FALSE]
Unchained == Goto("prepare")
CleanFirst == cmd' = [cmd EXCEPT !.at = "unlink", !.then = "prepare"]

(* A stop the scheduler takes, or refuses as a job it does not know; sent   *)
(* for a job no query answered for, it settles the job (job-stopped).       *)
StopJobs(js) == doomed' = doomed \cup {i \in js : Listed(i)}
Settle(i) == meta' = [meta EXCEPT ![i].settled = TRUE]

(* The active restart has recorded its end. *)
DecideEnded(i) ==
  \E answer \in EndedAnswers(i), held \in HeldLive(i) :
    /\ Count(answer)
    /\ CASE answer = "unanswered" /\ ~cmd.force ->
              Over /\ UNCHANGED <<meta, doomed>>
         [] answer = "unanswered" /\ cmd.force ->
              /\ StopJobs({i}) /\ Settle(i)
              /\ IF held THEN Over ELSE CleanFirst
         [] answer = "listed" -> ChainBehind(i) /\ UNCHANGED <<meta, doomed>>
         [] OTHER ->
              /\ IF held THEN ChainBehind(i) ELSE CleanFirst
              /\ UNCHANGED <<meta, doomed>>

(* Mutant: the newest ended restart is not looked at. *)
DecideInactive_NoLook ==
  Unchained /\ UNCHANGED <<fails, meta, doomed>>

(* No restart is active: the newest that ended is asked about. *)
DecideInactive ==
  IF Ended = {} THEN Unchained /\ UNCHANGED <<fails, meta, doomed>>
  ELSE \E answer \in EndedAnswers(NewestEnded) :
    /\ Count(answer)
    /\ CASE answer = "listed" ->
              ChainBehind(NewestEnded) /\ UNCHANGED <<meta, doomed>>
         [] answer = "unanswered" /\ ~cmd.force ->
              Over /\ UNCHANGED <<meta, doomed>>
         [] answer = "unanswered" /\ cmd.force ->
              Unchained /\ StopJobs({NewestEnded}) /\ Settle(NewestEnded)
         [] OTHER -> Unchained /\ UNCHANGED <<meta, doomed>>

DecideSubmit ==
  /\ cmd.at = "decide" /\ cmd.op = "submit"
  /\ \/ links = {} /\ DecideInactive
     \/ \E i \in links :
          CASE ~SchedulerJob(i) -> Over /\ UNCHANGED <<fails, meta, doomed>>
            [] SchedulerJob(i) /\ ~meta[i].ended ->
                 ChainBehind(i) /\ UNCHANGED <<fails, meta, doomed>>
            [] SchedulerJob(i) /\ meta[i].ended -> DecideEnded(i)
  /\ UNCHANGED <<chained, links, queue, requeues, runVars, gone>>

(* run_interactive: refuse beside an active restart that has not ended,     *)
(* then beside the newest ended one's job if it may still run.              *)
DecideRun ==
  /\ cmd.at = "decide" /\ cmd.op = "run"
  /\ IF \E i \in links : ~meta[i].ended
     THEN Over /\ UNCHANGED <<fails, meta, doomed>>
     ELSE \E answer \in IF Ended = {} THEN {"unasked"}
                        ELSE EndedAnswers(NewestEnded) :
       /\ Count(answer)
       /\ CASE answer = "listed" -> Over /\ UNCHANGED <<meta, doomed>>
            [] answer = "unanswered" /\ ~cmd.force ->
                 Over /\ UNCHANGED <<meta, doomed>>
            [] answer = "unanswered" /\ cmd.force ->
                 /\ StopJobs({NewestEnded}) /\ Settle(NewestEnded)
                 /\ IF links # {} THEN CleanFirst ELSE Unchained
            [] OTHER ->
                 /\ IF links # {} THEN Over ELSE Unchained
                 /\ UNCHANGED <<meta, doomed>>
  /\ UNCHANGED <<chained, links, queue, requeues, runVars, gone>>

-----------------------------------------------------------------------------
(* The restarts of the command: one per segment.                            *)

NextId == Cardinality(Made)

(* output-NNNN and its record, with no job yet; a foreground run records    *)
(* its own pid.                                                             *)
Prepare ==
  /\ cmd.at = "prepare"
  /\ IF NextId \notin Id THEN Over /\ UNCHANGED <<meta, chained>>
     ELSE /\ meta' = [meta EXCEPT ![NextId] =
                        [NoMeta EXCEPT !.made = TRUE,
                                       !.job = cmd.op = "run",
                                       !.foreground = cmd.op = "run"]]
          /\ chained' = [chained EXCEPT ![NextId] = cmd.prev]
          /\ cmd' = [cmd EXCEPT !.cur = NextId,
                                !.at = IF cmd.first THEN "activate" ELSE "queue"]
  /\ UNCHANGED <<links, jobVars, runVars, gone, fails>>

(* make_active refuses while any restart is active. *)
Activate ==
  /\ cmd.at = "activate"
  /\ IF links # {} THEN Over /\ UNCHANGED links
     ELSE /\ links' = {cmd.cur}
          /\ Goto(IF cmd.op = "run" THEN "launch" ELSE "queue")
  /\ UNCHANGED <<meta, chained, jobVars, runVars, gone, fails>>

(* Mutant: no heartbeat before sim.lock is released. *)
Launch_NoBeat ==
  /\ cmd.at = "launch"
  /\ run' = [run EXCEPT ![cmd.cur] = "begin"]
  /\ mine' = [mine EXCEPT ![cmd.cur] = meta[cmd.cur]]
  /\ Over
  /\ UNCHANGED <<recVars, jobVars, beat, corpse, gone, fails>>

(* run_interactive: a fresh heartbeat, the lock dropped, and the run begins. *)
Launch ==
  /\ cmd.at = "launch"
  /\ beat' = [beat EXCEPT ![cmd.cur] = "fresh"]
  /\ run' = [run EXCEPT ![cmd.cur] = "begin"]
  /\ mine' = [mine EXCEPT ![cmd.cur] = meta[cmd.cur]]
  /\ Over
  /\ UNCHANGED <<recVars, jobVars, corpse, gone, fails>>

(* Scheduler::submit: the job is queued and its id printed. *)
Queue ==
  /\ cmd.at = "queue"
  /\ queue' = [queue EXCEPT ![cmd.cur] = "queued"]
  /\ Goto("record")
  /\ UNCHANGED <<recVars, doomed, requeues, runVars, gone, fails>>

(* The id is parsed and recorded; the next segment is chained behind it. *)
Record ==
  /\ cmd.at = "record"
  /\ meta' = [meta EXCEPT ![cmd.cur].job = TRUE]
  /\ cmd' = IF cmd.left = 1 THEN NoCmd
            ELSE [cmd EXCEPT !.left = cmd.left - 1, !.prev = cmd.cur,
                             !.first = FALSE, !.cur = None, !.at = "prepare"]
  /\ UNCHANGED <<chained, links, jobVars, runVars, gone, fails>>

-----------------------------------------------------------------------------
(* stop_sim.                                                                *)

(* An active restart that has not recorded its end.  TERMINATE exists only  *)
(* where Cactus has run; without it, or by force, the scheduler is asked.   *)
StopActive(i) ==
  /\ ~meta[i].ended
  /\ \/ /\ ~cmd.force /\ beat[i] # "none"
        /\ cmd' = [cmd EXCEPT !.at = "await", !.cur = i]
        /\ UNCHANGED doomed
     \/ /\ meta[i].foreground
        /\ \E held \in HeldLive(i) :
             IF held THEN Over
             ELSE cmd' = [cmd EXCEPT !.at = "finish", !.cur = i]
        /\ UNCHANGED doomed
     \/ /\ ~meta[i].foreground
        /\ StopJobs({j \in {i} : meta[j].job})
        /\ cmd' = [cmd EXCEPT !.at = "finish", !.cur = i]
  /\ UNCHANGED <<meta, fails>>

(* stop_ended: the newest ended restart's job.  A stop the scheduler took   *)
(* for a job it listed leaves the link to that job's run.                   *)
StopEnded ==
  /\ \A i \in links : meta[i].ended
  /\ IF Ended = {} THEN Over /\ UNCHANGED <<meta, doomed, fails>>
     ELSE \E answer \in EndedAnswers(NewestEnded) :
       /\ Count(answer)
       /\ IF answer \in {"listed", "unanswered"} THEN StopJobs({NewestEnded})
          ELSE UNCHANGED doomed
       /\ IF answer = "unanswered" THEN Settle(NewestEnded) ELSE UNCHANGED meta
       /\ IF answer = "listed" THEN Over ELSE Goto("deactivate")

Stop ==
  /\ cmd.at = "stop"
  /\ (\E i \in links : StopActive(i)) \/ StopEnded
  /\ UNCHANGED <<chained, links, queue, requeues, runVars, gone>>

(* Mutant: the run is taken to act on TERMINATE. *)
Await_OnFaith ==
  /\ cmd.at = "await"
  /\ Goto("finish")
  /\ UNCHANGED <<recVars, jobVars, runVars, gone, fails>>

(* await_run_exit: only a run that left is finished. *)
Await ==
  /\ cmd.at = "await"
  /\ LET i == cmd.cur IN
     IF SchedulerJob(i)
     THEN \E answer \in Answers(i) :
            /\ Count(answer)
            /\ IF answer \in {"listed", "unanswered"} THEN Over ELSE Goto("finish")
     ELSE /\ \E held \in HeldLive(i) : IF held THEN Over ELSE Goto("finish")
          /\ UNCHANGED fails
  /\ UNCHANGED <<recVars, jobVars, runVars, gone>>

Finish ==
  /\ cmd.at = "finish"
  /\ meta' = [meta EXCEPT ![cmd.cur].ended = TRUE, ![cmd.cur].settled = FALSE]
  /\ Goto("deactivate")
  /\ UNCHANGED <<chained, links, jobVars, runVars, gone, fails>>

Deactivate ==
  /\ cmd.at = "deactivate"
  /\ links' = {}
  /\ Over
  /\ UNCHANGED <<meta, chained, jobVars, runVars, gone, fails>>

-----------------------------------------------------------------------------
(* delete.                                                                  *)

(* Mutant: no ended restart's job is asked about. *)
AskedAbout_NotEnded == {i \in Made : SchedulerJob(i) /\ ~meta[i].ended}

(* live_jobs: of the ended restarts only the newest is asked about. *)
AskedAbout ==
  {i \in Made : /\ SchedulerJob(i)
                /\ meta[i].ended => i = NewestEnded /\ ~meta[i].settled}

Delete ==
  /\ cmd.at = "live"
  /\ \/ /\ \E i \in Made : meta[i].foreground /\ TRUE \in HeldLive(i)
        /\ Over /\ UNCHANGED <<doomed, fails>>
     \/ /\ \A i \in Made : meta[i].foreground => FALSE \in HeldLive(i)
        /\ \E wrong \in SUBSET AskedAbout :
             /\ Fails # {} \/ wrong = {}
             /\ fails' = fails + Cardinality(wrong)
             /\ fails' <= MaxFails
             /\ LET live == {i \in AskedAbout \ wrong : Listed(i)}
                IN \/ /\ \/ live # {} /\ ~cmd.force
                         \/ "unanswered" \in Fails /\ \E i \in wrong : ~meta[i].ended
                      /\ Over /\ UNCHANGED doomed
                   \/ /\ live = {} \/ cmd.force
                      /\ "hiccup" \in Fails \/ \A i \in wrong : meta[i].ended
                      /\ StopJobs(live)
                      /\ Goto("remove")
  /\ UNCHANGED <<recVars, queue, requeues, runVars, gone>>

(* The directory goes to TRASH, or is removed. *)
Remove ==
  /\ cmd.at = "remove"
  /\ gone' = TRUE
  /\ Over
  /\ UNCHANGED <<recVars, jobVars, runVars, fails>>

-----------------------------------------------------------------------------
(* A restart's own process: run_compute, execute_restart.                   *)

Next1(i, step) == run' = [run EXCEPT ![i] = step]

(* Mutant: it waits for the one before to succeed (afterok). *)
JobStarts_AfterOk(i) ==
  /\ ~gone
  /\ queue[i] = "queued"
  /\ chained[i] # None => queue[chained[i]] = "over" /\ meta[chained[i]].ended
  /\ queue' = [queue EXCEPT ![i] = "running"]
  /\ Next1(i, "wait")
  /\ UNCHANGED <<recVars, doomed, requeues, mine, corpse, beat, cmd, gone, fails>>

(* The scheduler starts the job once the one it depends on is over, however *)
(* it ended (afterany, in the submit scripts). *)
JobStarts(i) ==
  /\ ~gone
  /\ queue[i] = "queued"
  /\ chained[i] # None => queue[chained[i]] = "over"
  /\ queue' = [queue EXCEPT ![i] = "running"]
  /\ Next1(i, "wait")
  /\ UNCHANGED <<recVars, doomed, requeues, mine, corpse, beat, cmd, gone, fails>>

(* Mutants: the predecessor's link is left; sim.lock is not waited for. *)
Handoff_NoLock(i) ==
  /\ ~gone
  /\ run[i] = "wait"
  /\ IF links = {i} THEN Next1(i, "load") /\ UNCHANGED links
     ELSE Next1(i, "rename") /\ links' = {}
  /\ UNCHANGED <<meta, chained, jobVars, mine, corpse, beat, cmd, gone, fails>>

Handoff_LinkFirst(i) ==
  /\ ~gone
  /\ run[i] = "wait" /\ SimLockFree
  /\ Next1(i, IF links = {i} THEN "load" ELSE "rename")
  /\ UNCHANGED <<recVars, jobVars, mine, corpse, beat, cmd, gone, fails>>

(* lock_wait gives up on a holder that keeps the lock too long. *)
GivesUp(i) ==
  /\ ~gone
  /\ run[i] = "wait" /\ ~SimLockFree
  /\ Next1(i, "off")
  /\ UNCHANGED <<recVars, jobVars, mine, corpse, beat, cmd, gone, fails>>

(* handoff_active, under sim.lock: the predecessor's link goes first. *)
Handoff(i) ==
  /\ ~gone
  /\ run[i] = "wait" /\ SimLockFree
  /\ IF links = {i} THEN Next1(i, "load") /\ UNCHANGED links
     ELSE Next1(i, "rename") /\ links' = {}
  /\ UNCHANGED <<meta, chained, jobVars, mine, corpse, beat, cmd, gone, fails>>

Rename(i) ==
  /\ ~gone
  /\ run[i] = "rename"
  /\ links' = links \cup {i}
  /\ Next1(i, "load")
  /\ UNCHANGED <<meta, chained, jobVars, mine, corpse, beat, cmd, gone, fails>>

(* The record is read, and sim.lock released. *)
Load(i) ==
  /\ ~gone
  /\ run[i] = "load"
  /\ mine' = [mine EXCEPT ![i] = meta[i]]
  /\ Next1(i, "begin")
  /\ UNCHANGED <<recVars, jobVars, corpse, beat, cmd, gone, fails>>

(* running.lock is taken, a dead holder's broken, and the heartbeat touched. *)
TakeRunning(i) ==
  /\ ~gone
  /\ run[i] = "begin"
  /\ corpse' = corpse \ {i}
  /\ beat' = [beat EXCEPT ![i] = "fresh"]
  /\ Next1(i, "store")
  /\ UNCHANGED <<recVars, jobVars, mine, cmd, gone, fails>>

(* Running, so not ended: a requeued job clears the end it had recorded. *)
StoreStart(i) ==
  /\ ~gone
  /\ run[i] = "store"
  /\ meta' = [meta EXCEPT ![i] = [mine[i] EXCEPT !.ended = FALSE]]
  /\ Next1(i, "exec")
  /\ UNCHANGED <<chained, links, jobVars, mine, corpse, beat, cmd, gone, fails>>

(* The run-script is over; running.lock is released. *)
ExecEnds(i) ==
  /\ ~gone
  /\ run[i] = "exec"
  /\ Next1(i, "end")
  /\ UNCHANGED <<recVars, jobVars, mine, corpse, beat, cmd, gone, fails>>

StoreEnd(i) ==
  /\ ~gone
  /\ run[i] = "end"
  /\ meta' = [meta EXCEPT ![i] = [mine[i] EXCEPT !.ended = TRUE, !.settled = FALSE]]
  /\ Next1(i, "off")
  /\ mine' = [mine EXCEPT ![i] = NoMeta]
  /\ UNCHANGED <<chained, links, jobVars, corpse, beat, cmd, gone, fails>>

-----------------------------------------------------------------------------
(* The scheduler, deaths and time.                                          *)

(* The process is no more; what it held stays behind. *)
Killed(i) ==
  /\ Next1(i, "off")
  /\ mine' = [mine EXCEPT ![i] = NoMeta]
  /\ corpse' = IF run[i] \in Running THEN corpse \cup {i} ELSE corpse

(* It dies or fails, or the stop takes effect.  A job that waits in the     *)
(* queue is canceled by cactup only: canceling the middle of a chain by     *)
(* hand frees the job behind it while the one before it runs.               *)
Dies(i) ==
  /\ ~gone
  /\ \/ run[i] # "off"
     \/ queue[i] = "queued" /\ i \in doomed
  /\ Killed(i)
  /\ queue' = [queue EXCEPT ![i] = IF Listed(i) THEN "over" ELSE @]
  /\ UNCHANGED <<recVars, doomed, requeues, beat, cmd, gone, fails>>

(* The job of a process that is done leaves the queue. *)
JobLeaves(i) ==
  /\ ~gone
  /\ queue[i] = "running" /\ run[i] = "off"
  /\ queue' = [queue EXCEPT ![i] = "over"]
  /\ UNCHANGED <<recVars, doomed, requeues, runVars, cmd, gone, fails>>

(* Preemption, scontrol requeue: the job waits to run again. *)
Requeue(i) ==
  /\ ~gone
  /\ queue[i] = "running" /\ i \notin doomed
  /\ requeues < MaxRequeues
  /\ requeues' = requeues + 1
  /\ queue' = [queue EXCEPT ![i] = "queued"]
  /\ Killed(i)
  /\ UNCHANGED <<recVars, doomed, beat, cmd, gone, fails>>

(* A heartbeat no live run touches goes stale; the time from a launch to    *)
(* the run's first own heartbeat is taken to be shorter than that.          *)
BeatStales(i) ==
  /\ ~gone
  /\ beat[i] = "fresh"
  /\ run[i] \notin Running \cup {"end"}
  /\ ~(run[i] = "begin" /\ meta[i].foreground)
  /\ beat' = [beat EXCEPT ![i] = "stale"]
  /\ UNCHANGED <<recVars, jobVars, run, mine, corpse, cmd, gone, fails>>

(* A dead holder's running.lock is past LOCK_STALE_SECS. *)
CorpseExpires(i) ==
  /\ ~gone
  /\ i \in corpse
  /\ corpse' = corpse \ {i}
  /\ UNCHANGED <<recVars, jobVars, run, mine, beat, cmd, gone, fails>>

-----------------------------------------------------------------------------
Proceed ==
  \/ Abort \/ Reap \/ Unlink \/ Mark \/ DecideSubmit \/ DecideRun
  \/ Prepare \/ Activate \/ Launch \/ Queue \/ Record
  \/ Stop \/ Await \/ Finish \/ Deactivate \/ Delete \/ Remove

Command == Proceed \/ \E op \in Ops : Begin(op)

Process(i) ==
  \/ Handoff(i) \/ GivesUp(i) \/ Rename(i) \/ Load(i) \/ TakeRunning(i)
  \/ StoreStart(i) \/ ExecEnds(i) \/ StoreEnd(i)

Scheduler(i) == JobStarts(i) \/ Dies(i) \/ JobLeaves(i) \/ Requeue(i)

Time(i) == BeatStales(i) \/ CorpseExpires(i)

Next == Command \/ \E i \in Id : Process(i) \/ Scheduler(i) \/ Time(i)

Spec == Init /\ [][Next]_vars

(* A command that began goes on, and so does a process; the scheduler       *)
(* starts a job that may start, and lets go of one whose process is done.   *)
Fairness ==
  /\ WF_vars(Proceed)
  /\ \A i \in Id : /\ WF_vars(Process(i))
                   /\ WF_vars(JobStarts(i))
                   /\ WF_vars(JobLeaves(i))

FairSpec == Spec /\ Fairness

-----------------------------------------------------------------------------
(* There is never more than one active restart (the scan calls it fatal,    *)
(* "must be repaired by hand"), wherever a command or a handoff dies.       *)
OneActive == Cardinality(links) <= 1

(* Cactus never runs twice at once in one simulation, but for a run whose   *)
(* stop the scheduler took and that is on its way out.                      *)
OneRun ==
  \A i, j \in Id \ doomed : run[i] = "exec" /\ run[j] = "exec" => i = j

(* Every job the scheduler lists is recorded, but for the moment in which   *)
(* the submission that queued it writes its id down.                        *)
JobsKnown ==
  \A i \in Id : Listed(i) =>
    meta[i].job \/ (cmd.at = "record" /\ cmd.cur = i)

(* The restart whose Cactus runs, and which nobody has stopped, cleaned or  *)
(* marked ended, is the active one: stop and delete find it.                *)
RunIsActive ==
  \A i \in Id \ doomed : run[i] = "exec" /\ ~meta[i].ended => i \in links

(* The reaper removes the link only of a restart whose job is no longer     *)
(* listed and whose process is no more, or has only its end to record.      *)
ReapsTheDead ==
  [][\A i \in links \ links' :
       cmd.op \in {"submit", "run"} /\ cmd.at = "unlink" =>
         i \in doomed \/ (~Listed(i) /\ run[i] \in {"off", "end"})]_vars

(* Whatever the scheduler answers, the reaper's verdict spares a run that   *)
(* holds its running.lock, a foreground run that was launched, and a run    *)
(* that has yet to record its end.                                          *)
HasBegun(i) ==
  \/ run[i] \in Running
  \/ run[i] = "begin" /\ meta[i].foreground
  \/ run[i] = "end" /\ ~meta[i].ended

ReaperSparesRuns ==
  [][cmd.at = "reap" /\ cmd'.at = "unlink" => \A i \in links : ~HasBegun(i)]_vars

(* No end is recorded for a restart while its Cactus runs on, unless its    *)
(* job has been told to stop.                                               *)
EndIsTrue ==
  [][\A i \in Id : meta'[i].ended /\ ~meta[i].ended =>
       i \in doomed \/ run'[i] # "exec"]_vars

(* The directory is never removed while a job of the simulation is queued   *)
(* or running, unless it has been told to stop.                             *)
DeleteSparesJobs ==
  [][gone' # gone => \A i \in Id : Listed(i) => i \in doomed]_vars

(* Nor is it removed while a foreground run holds its running.lock.         *)
DeleteSparesRuns ==
  [][gone' # gone =>
       \A i \in Id : meta[i].foreground => run[i] \notin Running]_vars

(* A submitted job never waits for ever: it leaves the queue, whatever the  *)
(* commands and the rest of its chain do, or the simulation is deleted.     *)
JobsLeave == \A i \in Id : queue[i] = "queued" ~> queue[i] = "over" \/ gone
-----------------------------------------------------------------------------
(* What the proofs need to know of every reachable state.                   *)

(* sim.lock has one holder. *)
LockInv ==
  /\ cmd.at # "idle" => \A i \in Id : run[i] \notin Handing
  /\ \A i, j \in Id : run[i] \in Handing /\ run[j] \in Handing => i = j

(* There is one link, and none where a handoff is about to put its own. *)
LinkInv ==
  /\ \A i, j \in links : i = j
  /\ \A i \in Id : run[i] = "rename" => links = {}

(* What a command carries along. *)
CmdInv ==
  /\ cmd.at \in {"mark", "activate", "launch", "queue", "record", "await", "finish"}
       => cmd.cur \in Id
  /\ cmd.at \in {"reap", "decide", "prepare", "activate", "launch", "queue", "record"}
       => cmd.then # "idle"
  /\ cmd.then \in {"idle", "decide", "prepare"}
  /\ cmd.then # "idle" => cmd.left # 0

(* The restarts are made in order, and only what was made is at work. *)
MadeInv ==
  /\ \E n \in 0 .. MaxRestarts : Made = 0 .. n - 1
  /\ \A i \in Id : queue[i] # "none" \/ run[i] # "off" => meta[i].made
  /\ \A i \in Id : run[i] \in Running \cup {"begin", "end"} => mine[i].made
  /\ cmd.at \in {"activate", "launch", "queue", "record"} => meta[cmd.cur].made

(* A process that waits for sim.lock, or has it, is a job's, and one that   *)
(* read its record found the job in it.                                     *)
JobInv ==
  /\ JobsKnown
  /\ \A i \in Id : run[i] \in Handing \cup {"wait"} => Listed(i)
  /\ \A i \in Id : run[i] \in Running \cup {"begin", "end"} => mine[i].job
  /\ cmd.at \in {"activate", "launch"} /\ cmd.op = "run" => meta[cmd.cur].job
  /\ cmd.at = "launch" => cmd.op = "run"

-----------------------------------------------------------------------------
(* What the proofs need to know of foreground runs, of what is gone, and of *)
(* the chain.                                                               *)

(* Which commands take which steps. *)
OpInv ==
  /\ cmd.at \in {"unlink", "mark"} => cmd.op \in {"submit", "run", "clean"}
  /\ cmd.at \in {"reap", "decide", "prepare", "activate"} => cmd.op \in {"submit", "run"}
  /\ cmd.at \in {"queue", "record"} => cmd.op = "submit"
  /\ cmd.at = "launch" => cmd.op = "run"
  /\ cmd.at \in {"stop", "await", "finish", "deactivate"} => cmd.op = "stop"
  /\ cmd.at \in {"live", "remove"} => cmd.op = "delete"
  /\ cmd.op \in Commands \cup {"none"}
  /\ cmd.op = "clean" => cmd.then = "idle"
  /\ cmd.at = "reap" => cmd.then = "decide"
  /\ cmd.op = "run" \/ cmd.at \in {"activate", "launch"} => cmd.first
  /\ cmd.first => cmd.prev = None

(* A foreground run has no job and no handoff; any other process is a job's. *)
KindInv ==
  /\ \A i \in Id : meta[i].foreground =>
       queue[i] = "none" /\ run[i] \notin Handing \cup {"wait"}
  /\ \A i \in Id : run[i] # "off" => meta[i].foreground \/ queue[i] = "running"
  /\ \A i \in Id : run[i] \in Running \cup {"begin", "end"} =>
       mine[i].foreground = meta[i].foreground
  /\ \A i \in doomed : queue[i] # "none"

(* The restart at hand is the last one made, and nothing has become of it.  *)
FreshInv ==
  /\ cmd.at \in {"activate", "launch", "queue", "record"} =>
       /\ \A i \in Made : i <= cmd.cur
       /\ meta[cmd.cur].foreground = (cmd.op = "run")
  /\ cmd.at \in {"activate", "launch", "queue"} =>
       /\ queue[cmd.cur] = "none" /\ run[cmd.cur] = "off"
       /\ ~meta[cmd.cur].ended
       /\ chained[cmd.cur] = cmd.prev
  /\ cmd.at = "launch" => links = {cmd.cur}
  /\ \A i \in Id \ Made : ~meta[i].ended /\ ~meta[i].foreground
  /\ links \subseteq Made
  /\ cmd.at \in {"mark", "await", "finish"} => cmd.cur \in Made

(* A heartbeat is fresh for as long as its run is there to touch it, and    *)
(* from before the launch of a foreground run: no command acts on a run     *)
(* that is about to begin.                                                  *)
BeatInv ==
  /\ \A i \in Id : run[i] \in Running \cup {"end"} => beat[i] = "fresh"
  /\ QuickLaunch =>
       /\ \A i \in Launching : beat[i] = "fresh" /\ ~meta[i].ended
       /\ cmd.op \in {"stop", "clean", "delete"} => Launching = {}
       /\ cmd.at = "unlink" => links \cap Launching = {}
       /\ cmd.at = "mark" => cmd.cur \notin Launching

RunsInv ==
  /\ gone => cmd.at = "idle"
  /\ OpInv /\ KindInv /\ FreshInv /\ BeatInv

(* What the reaper and a clean take for dead, and what a stop takes for     *)
(* over, is: nothing in the queue, and a process that at most has its end   *)
(* to record.                                                               *)
Parted(i) == ~Listed(i) /\ run[i] \in {"off", "end"}

(* No query fails, no submission or launch dies half done, and nobody uses  *)
(* clean, which looks at nothing before it deactivates.                     *)
Certain == Fails = {} /\ JobsRecorded /\ QuickLaunch /\ "clean" \notin Commands

PartedInv ==
  /\ \A i \in Id : ~meta[i].settled
  /\ \A i \in Id : ~mine[i].settled
  /\ cmd.at = "unlink" => \A i \in links : Parted(i)
  /\ cmd.at = "mark" => Parted(cmd.cur)
  /\ cmd.at = "finish" => cmd.cur \in doomed \/ Parted(cmd.cur)
  /\ \A i \in Id : meta[i].foreground /\ run[i] \in Running => ~meta[i].ended

(* A run, or a job that may still take the link. *)
Ahead(i) ==
  \/ meta[i].foreground /\ run[i] \in Running \cup {"begin"}
  \/ Listed(i) /\ (i \in doomed => queue[i] = "queued" \/ run[i] \in {"wait", "rename"})

(* The job of j does not start before i's is over. *)
Behind(i, j) ==
  /\ ~meta[j].ended /\ ~meta[i].foreground
  /\ j \notin links \cup doomed
  /\ run[j] = "off" /\ queue[j] \in {"none", "queued"}
  /\ queue[j] = "queued" => chained[j] # None /\ chained[j] >= i

(* The handoff of i is done: the link is its own. *)
HandedOver(i) == run[i] \in {"load", "begin", "end"} \cup Running

(* Restarts take their turns in the order they were made, and the one that *)
(* has begun, or that recorded an end and was requeued, has the link.       *)
ChainInv ==
  /\ \A i, j \in Id : Ahead(i) /\ i < j /\ meta[j].made => Behind(i, j)
  /\ \A i \in Id : Ahead(i) /\ (meta[i].ended \/ HandedOver(i)) =>
       links \subseteq {i} /\ (i \in links \/ i \in doomed)

(* What a submission knows of the jobs there are, from its start on. *)
SubmitInv ==
  /\ cmd.op \in {"submit", "run"} /\ cmd.at \in {"reap", "unlink", "mark", "decide"} =>
       \A i \in Id : Ahead(i) => i \in links \/ meta[i].ended
  /\ cmd.at = "mark" \/ (cmd.at = "unlink" /\ cmd.then = "prepare") =>
       \A i \in Id : ~Ahead(i)
  /\ cmd.at \in {"prepare", "activate", "launch", "queue"} =>
       \A i \in Id : Ahead(i) => /\ cmd.prev # None /\ i <= cmd.prev
                                /\ ~meta[i].foreground
  /\ cmd.at = "record" => \A i \in Id : Ahead(i) => ~meta[i].foreground

(* What a stop has in hand is the active restart; once it has told it to   *)
(* stop, nothing keeps it there.                                            *)
StopInv ==
  /\ cmd.at \in {"await", "finish"} => links = {cmd.cur}
  /\ cmd.at = "deactivate" => \A i \in links : Ahead(i) => i \in doomed

(* Nobody submits while a chained job waits, and a delete that has stopped  *)
(* the jobs lives to remove the directory.                                  *)
Orderly == Certain /\ UserWaits /\ DeletesRemove

(* While the directory is there the chain is in order; once a delete has    *)
(* its answers, nothing is left that has not been told to stop.             *)
OrderInv ==
  IF gone \/ cmd.at = "remove"
  THEN \A i \in Id \ doomed : Parted(i)
  ELSE ChainInv /\ SubmitInv /\ StopInv

-----------------------------------------------------------------------------
(* The inductive invariant: what holds in any case, what holds where every   *)
(* verdict is certain, and what holds where the chain is kept in order.      *)
SimInv ==
  /\ TypeOK
  /\ LockInv /\ LinkInv /\ CmdInv /\ MadeInv /\ RunsInv
  /\ JobsRecorded => JobInv
  /\ Certain => PartedInv
  /\ Orderly => OrderInv

=============================================================================
