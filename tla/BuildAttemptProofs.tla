-------------------------- MODULE BuildAttemptProofs --------------------------
(***************************************************************************)
(* BuildAttempt proved for any number of terminals, attempts, requeues and *)
(* failing queries: which jobs the records know, that builds of one config *)
(* never chain, and that a recorded success stays.  Each is proved under   *)
(* those of StartsApart, StopsInPeace and JobsRecorded that it needs.      *)
(***************************************************************************)
EXTENDS BuildAttempt, TLAPS

(* What a record or a copy of one says: the attempt's own job, or none.     *)
OwnJob(i, r) == r.job # None => jobs[r.job].of = i

Jobless == {i \in Id : \A j \in Job : jobs[j].of # i}
JobGone == {i \in Id : \E j \in Job : jobs[j].of = i /\ jobs[j].st = "gone"}

(* There are attempts with these numbers, or there were.                    *)
Numbered == {i \in Id : \E k \in Ids : i <= k}

Incomplete == {i \in Id : rec[i] # None => rec[i].outcome # "complete"}

AtAttempt == {"staged", "handoff", "blocking", "watching", "building", "stopping",
              "settling", "marking"}

(* A number is given once.                                                  *)
NumberInv ==
  /\ \A c \in Cmd : IF cmd[c].at \in AtAttempt THEN cmd[c].id \in Numbered
                                               ELSE cmd[c].copy = Fresh
  /\ \A j \in Job : IF jobs[j].st = "none" THEN jobs[j].of = None
                    ELSE jobs[j].of \in Numbered
  /\ \A i \in Id : run[i].at # "none" => i \in Numbered

(* An attempt has one job, and nothing names another's.                     *)
OwnInv ==
  /\ \A j, k \in Job : jobs[j].of = jobs[k].of /\ jobs[j].of # None => j = k
  /\ \A i \in Id : rec[i] # None => OwnJob(i, rec[i])
  /\ \A i \in Id : OwnJob(i, run[i].copy)
  /\ \A c \in Cmd : OwnJob(cmd[c].id, cmd[c].copy)
  /\ \A c \in Cmd : cmd[c].at \in {"handoff", "blocking"} => cmd[c].copy.job # None

(* What was staged is its command's, until that gives it a job or builds it *)
(* itself; and then it has no job.                                          *)
StagedInv ==
  \A c \in Cmd :
    /\ cmd[c].at = "staged" =>
         /\ cmd[c].id \in Jobless /\ run[cmd[c].id].at = "none" /\ cmd[c].copy = Fresh
         /\ \A d \in Cmd : cmd[d].at \in {"staged", "building"} /\ cmd[d].id = cmd[c].id => d = c
    /\ cmd[c].at = "building" => cmd[c].id \in Jobless
    /\ cmd[c].at = "handoff" => ~cmd[c].copy.settled /\ cmd[c].copy.outcome = None
    /\ cmd[c].at \in {"staged", "handoff"} => cmd[c].id \in Incomplete

(* Whose a process is, and that what it is at has no end on record.         *)
RunInv ==
  \A i \in Id :
    /\ run[i].at = "none" <=> run[i].by = None
    /\ run[i].by = "job" => \E j \in Job : jobs[j].of = i /\ jobs[j].st = "running"
    /\ run[i].by \in Cmd => cmd[run[i].by].at = "building" /\ cmd[run[i].by].id = i
    /\ run[i].at \in {"making", "ended"} => i \in Incomplete

(* A job that is settled is gone for good.                                  *)
SettledInv ==
  /\ \A i \in Id : rec[i] # None /\ rec[i].settled => i \in JobGone
  /\ \A i \in Id : run[i].copy.settled => i \in JobGone
  /\ \A c \in Cmd : cmd[c].at = "settling" => cmd[c].id \in JobGone

(* While a stop works on a record, nobody but another stop writes it.       *)
StopInv ==
  \A c \in Cmd : LET i == cmd[c].id IN
    /\ cmd[c].at \in {"stopping", "marking"} => rec[i] # None /\ rec[i].job = cmd[c].copy.job
    /\ cmd[c].at = "stopping" /\ cmd[c].copy.outcome = None => i \in Incomplete
    /\ cmd[c].at = "marking" => cmd[c].copy.outcome = None /\ i \in Incomplete

(* Who keeps a build from being started: a job that may run, or run again,  *)
(* and a build in the foreground.                                           *)
Busy ==
  {i \in Id : \/ \E j \in Job : jobs[j].of = i /\ Listed(j)
              \/ run[i].by \in Cmd /\ run[i].at \in {"opened", "locked", "making"}}

Starters == {c \in Cmd : Starting(c)}

(* Only the latest attempt is busy, and none while the next is prepared.    *)
StartInv ==
  /\ \A c, d \in Starters : c = d
  /\ \A i \in Busy : Latest(i)
  /\ \A c \in Cmd : cmd[c].at \in {"cleared", "staged"} => Busy = {}
  /\ \A c \in Cmd : cmd[c].at \in {"staged", "handoff"} => Latest(cmd[c].id)

AttemptInv ==
  /\ TypeOK
  /\ NumberInv /\ OwnInv /\ StagedInv /\ RunInv /\ SettledInv
  /\ StopsInPeace => StopInv
  /\ StopsInPeace /\ JobsRecorded => JobsKnown
  /\ StopsInPeace /\ JobsRecorded /\ StartsApart => StartInv
-----------------------------------------------------------------------------
(* What the steps do, variable by variable.                                 *)

LEMMA Typed ==
  /\ Fresh \in Record /\ Idle.copy = Fresh /\ None \notin Id /\ None \notin Job
  /\ None \notin Record /\ None \notin Cmd /\ "job" \notin Cmd /\ None # "job"
  /\ Id \subseteq Nat /\ Job \subseteq Nat /\ MaxAttempts \in Nat
BY BuildAttemptAssumption DEF Fresh, Record, Idle, Id, Job, Outcome

(* One record is written, or one terminal goes on.                          *)
Writes(i, r) ==
  rec'[i] = r /\ \A k \in Id \ {i} : rec'[k] = rec[k]
Goes(c, at, id, copy) ==
  /\ cmd'[c].at = at /\ cmd'[c].id = id /\ cmd'[c].copy = copy
  /\ \A d \in Cmd \ {c} : cmd'[d] = cmd[d]

(* A job is stopped or killed, and the process it runs.                     *)
Stops(j) ==
  /\ \A k \in Job : jobs'[k].of = jobs[k].of
                    /\ jobs'[k].st = IF k = j THEN "gone" ELSE jobs[k].st
  /\ \A i \in Id : run'[i] = IF i = jobs[j].of /\ run[i].by = "job" THEN NoRun ELSE run[i]

LEMMA StopsEff ==
  ASSUME TypeOK, NEW j \in Job, jobs' = Stopped(j), run' = Killed(j)
  PROVE  Stops(j)
BY DEF Stops, Stopped, Killed, TypeOK

LEMMA GoesEff ==
  ASSUME TypeOK, NEW c \in Cmd
  PROVE  /\ Cleared(c) => Goes(c, "cleared", None, Fresh)
         /\ cmd' = [cmd EXCEPT ![c] = Idle] => Goes(c, "idle", None, Fresh)
         /\ \A at, id, copy : cmd' = [cmd EXCEPT ![c] = [at |-> at, id |-> id, copy |-> copy]]
              => Goes(c, at, id, copy)
         /\ \A at : cmd' = [cmd EXCEPT ![c].at = at] => Goes(c, at, cmd[c].id, cmd[c].copy)
         /\ \A at : StopGoesTo(c, at) /\ at # "idle" => Goes(c, at, cmd[c].id, cmd[c].copy)
         /\ StopGoesTo(c, "idle") => Goes(c, "idle", None, Fresh)
BY DEF TypeOK, Goes, Cleared, Idle, StopGoesTo

LEMMA GuardEff ==
  ASSUME TypeOK, NEW c \in Cmd, NEW force \in BOOLEAN, Guard(c, force)
  PROVE  /\ cmd[c].at = "idle" /\ Alone /\ Goes(c, "cleared", None, Fresh)
         /\ rec' = rec
         /\ \/ UNCHANGED <<jobs, run>>
            \/ \E i \in Ids : Latest(i) /\ ~LockLive(i) /\ rec[i].job \in Job /\ Stops(rec[i].job)
         /\ \A i \in Ids : Latest(i) =>
              \/ ~LockLive(i) /\ ~AskedJob(rec[i]) /\ UNCHANGED <<jobs, run>>
              \/ ~LockLive(i) /\ rec[i].job \in Job /\ ~Listed(rec[i].job) /\ UNCHANGED <<jobs, run>>
              \/ ~LockLive(i) /\ rec[i].job \in Job /\ Stops(rec[i].job)
<1>1. \A i \in Ids : i \in Id /\ rec[i] \in Record
  BY DEF Ids, TypeOK
<1>2. \A i \in Ids : AskedJob(rec[i]) => rec[i].job \in Job
  BY <1>1 DEF AskedJob, Record
<1>3. \A i, k \in Ids : Latest(i) /\ Latest(k) => i = k
  <2>. SUFFICES ASSUME NEW i \in Ids, NEW k \in Ids, Latest(i), Latest(k)
                PROVE  i = k
    OBVIOUS
  <2>1. i <= k /\ k <= i
    BY DEF Latest
  <2>2. i \in Nat /\ k \in Nat
    BY <1>1, Typed
  <2>. QED BY <2>1, <2>2
<1>4. cmd[c].at = "idle" /\ Alone /\ Goes(c, "cleared", None, Fresh) /\ rec' = rec
  BY GoesEff DEF Guard
<1>5. CASE /\ \A i \in Ids : Latest(i) => ~LockLive(i) /\ ~AskedJob(rec[i])
           /\ UNCHANGED <<jobs, run>>
  BY <1>4, <1>5
<1>6. ASSUME NEW i \in Ids, Latest(i), ~LockLive(i), AskedJob(rec[i]),
             \/ ~Listed(rec[i].job) /\ UNCHANGED <<jobs, run>>
             \/ jobs' = Stopped(rec[i].job) /\ run' = Killed(rec[i].job)
      PROVE  /\ \/ UNCHANGED <<jobs, run>>
                \/ \E k \in Ids : Latest(k) /\ ~LockLive(k) /\ rec[k].job \in Job /\ Stops(rec[k].job)
             /\ \A k \in Ids : Latest(k) =>
                  \/ ~LockLive(k) /\ ~AskedJob(rec[k]) /\ UNCHANGED <<jobs, run>>
                  \/ ~LockLive(k) /\ rec[k].job \in Job /\ ~Listed(rec[k].job) /\ UNCHANGED <<jobs, run>>
                  \/ ~LockLive(k) /\ rec[k].job \in Job /\ Stops(rec[k].job)
  <2>1. rec[i].job \in Job /\ \A k \in Ids : Latest(k) => k = i
    BY <1>2, <1>3, <1>6
  <2>. QED BY <1>6, <2>1, StopsEff
<1>. QED BY <1>4, <1>5, <1>6 DEF Guard

LEMMA CreateEff ==
  ASSUME TypeOK, NEW c \in Cmd, Create(c)
  PROVE  /\ cmd[c].at = "cleared" /\ UNCHANGED <<jobs, run>>
         /\ \E i \in Id : NextId(i) /\ Writes(i, Fresh) /\ Goes(c, "staged", i, Fresh)
BY GoesEff DEF Create, Writes, TypeOK

(* A job is submitted, for the attempt its command staged.                  *)
LEMMA SubmitEff ==
  ASSUME TypeOK, NEW c \in Cmd, Submit(c) \/ SubmitBlocking(c)
  PROVE  /\ cmd[c].at = "staged" /\ UNCHANGED <<rec, run>>
         /\ \E j \in Job :
              /\ jobs[j].st = "none" /\ jobs'[j].st = "queued" /\ jobs'[j].of = cmd[c].id
              /\ \A k \in Job \ {j} : jobs'[k] = jobs[k]
              /\ cmd'[c].copy = [cmd[c].copy EXCEPT !.job = j] /\ cmd'[c].id = cmd[c].id
              /\ cmd'[c].at = "handoff" \/ cmd'[c].at = "blocking"
              /\ \A d \in Cmd \ {c} : cmd'[d] = cmd[d]
<1>1. ASSUME NEW at, NEW j \in Job, jobs[j].st = "none",
             jobs' = [jobs EXCEPT ![j] = [of |-> cmd[c].id, st |-> "queued"]],
             cmd' = [cmd EXCEPT ![c].at = at, ![c].copy.job = j]
      PROVE  /\ jobs'[j].st = "queued" /\ jobs'[j].of = cmd[c].id
             /\ \A k \in Job \ {j} : jobs'[k] = jobs[k]
             /\ cmd'[c].copy = [cmd[c].copy EXCEPT !.job = j] /\ cmd'[c].id = cmd[c].id
             /\ cmd'[c].at = at
             /\ \A d \in Cmd \ {c} : cmd'[d] = cmd[d]
  BY <1>1 DEF TypeOK
<1>2. CASE Submit(c)
  <2>1. PICK j \in Job : /\ \A k \in Job : jobs[k].st = "none" <=> k >= j
                         /\ jobs' = [jobs EXCEPT ![j] = [of |-> cmd[c].id, st |-> "queued"]]
                         /\ cmd' = [cmd EXCEPT ![c].at = "handoff", ![c].copy.job = j]
    BY <1>2 DEF Submit
  <2>2. jobs[j].st = "none"
    BY <2>1, Typed
  <2>3. /\ jobs'[j].st = "queued" /\ jobs'[j].of = cmd[c].id
        /\ \A k \in Job \ {j} : jobs'[k] = jobs[k]
        /\ cmd'[c].copy = [cmd[c].copy EXCEPT !.job = j] /\ cmd'[c].id = cmd[c].id
        /\ cmd'[c].at = "handoff"
        /\ \A d \in Cmd \ {c} : cmd'[d] = cmd[d]
    BY <1>1, <2>1, <2>2, Zenon
  <2>4. cmd[c].at = "staged" /\ UNCHANGED <<rec, run>>
    BY <1>2 DEF Submit
  <2>. QED BY <2>2, <2>3, <2>4
<1>3. CASE SubmitBlocking(c)
  <2>1. PICK j \in Job : /\ \A k \in Job : jobs[k].st = "none" <=> k >= j
                         /\ jobs' = [jobs EXCEPT ![j] = [of |-> cmd[c].id, st |-> "queued"]]
                         /\ cmd' = [cmd EXCEPT ![c].at = "blocking", ![c].copy.job = j]
    BY <1>3 DEF SubmitBlocking
  <2>2. jobs[j].st = "none"
    BY <2>1, Typed
  <2>3. /\ jobs'[j].st = "queued" /\ jobs'[j].of = cmd[c].id
        /\ \A k \in Job \ {j} : jobs'[k] = jobs[k]
        /\ cmd'[c].copy = [cmd[c].copy EXCEPT !.job = j] /\ cmd'[c].id = cmd[c].id
        /\ cmd'[c].at = "blocking"
        /\ \A d \in Cmd \ {c} : cmd'[d] = cmd[d]
    BY <1>1, <2>1, <2>2, Zenon
  <2>4. cmd[c].at = "staged" /\ UNCHANGED <<rec, run>>
    BY <1>3 DEF SubmitBlocking
  <2>. QED BY <2>2, <2>3, <2>4
<1>. QED BY <1>2, <1>3

LEMMA RecordJobEff ==
  ASSUME TypeOK, NEW c \in Cmd, RecordJob(c), cmd[c].id \in Id
  PROVE  /\ cmd[c].at = "handoff" /\ Peace(cmd[c].id) /\ UNCHANGED <<jobs, run>>
         /\ Writes(cmd[c].id, cmd[c].copy) /\ Goes(c, "watching", cmd[c].id, cmd[c].copy)
BY GoesEff DEF RecordJob, Writes, TypeOK

LEMMA CallbackEff ==
  ASSUME TypeOK, NEW c \in Cmd, Callback(c), cmd[c].id \in Id
  PROVE  LET i == cmd[c].id IN
         /\ cmd[c].at = "blocking" /\ Peace(i) /\ UNCHANGED <<jobs, run, cmd>>
         /\ rec[i] \in Record /\ rec'[i] \in Record
         /\ rec'[i].job = cmd[c].copy.job /\ rec'[i].outcome = rec[i].outcome
         /\ rec'[i].settled = rec[i].settled
         /\ \A k \in Id \ {i} : rec'[k] = rec[k]
<1>1. rec[cmd[c].id] \in Record /\ cmd[c].copy.job \in Job \cup {None}
  BY DEF TypeOK, Callback, Record
<1>2. [rec[cmd[c].id] EXCEPT !.job = cmd[c].copy.job] \in Record
  BY <1>1 DEF Record
<1>3. rec' = [rec EXCEPT ![cmd[c].id] = [rec[cmd[c].id] EXCEPT !.job = cmd[c].copy.job]]
  BY DEF Callback
<1>. QED BY <1>1, <1>2, <1>3 DEF Callback, TypeOK, Record

LEMMA ForegroundEff ==
  ASSUME TypeOK, NEW c \in Cmd, Foreground(c), cmd[c].id \in Id
  PROVE  /\ cmd[c].at = "staged" /\ UNCHANGED <<rec, jobs>>
         /\ Goes(c, "building", cmd[c].id, cmd[c].copy)
         /\ run'[cmd[c].id] = [at |-> "opened", by |-> c, copy |-> cmd[c].copy, ok |-> FALSE]
         /\ \A k \in Id \ {cmd[c].id} : run'[k] = run[k]
BY GoesEff DEF Foreground, TypeOK

LEMMA DieEff ==
  ASSUME TypeOK, NEW c \in Cmd, Die(c)
  PROVE  /\ JobsRecorded => cmd[c].at # "handoff" /\ ~(cmd[c].at = "blocking" /\ Starting(c))
         /\ UNCHANGED <<rec, jobs>> /\ Goes(c, "idle", None, Fresh)
         /\ \A i \in Id : run'[i] = IF run[i].by = c THEN NoRun ELSE run[i]
BY GoesEff DEF Die

(* A terminal goes on, or is idle again, and that is all.                   *)
LEMMA QuietEff ==
  ASSUME TypeOK, NEW c \in Cmd
  PROVE  /\ BlockReturns(c) =>
              /\ cmd[c].at = "blocking" /\ (rec[cmd[c].id] # None => rec[cmd[c].id].job # None)
              /\ UNCHANGED <<rec, jobs, run>>
              /\ Goes(c, "watching", cmd[c].id, cmd[c].copy)
         /\ Watch(c) =>
              /\ cmd[c].at = "watching" /\ UNCHANGED <<rec, jobs, run>>
              /\ Goes(c, "idle", None, Fresh)
         /\ ForegroundEnds(c) =>
              /\ cmd[c].at = "building" /\ run[cmd[c].id].by # c
              /\ UNCHANGED <<rec, jobs, run>> /\ Goes(c, "idle", None, Fresh)
         /\ StopOpens(c) =>
              /\ cmd[c].at = "idle" /\ UNCHANGED <<rec, jobs, run>>
              /\ \E i \in Ids : Latest(i) /\ Goes(c, "stopping", i, rec[i])
BY GoesEff DEF BlockReturns, Watch, ForegroundEnds, StopOpens

LEMMA StopEndedEff ==
  ASSUME TypeOK, NEW c \in Cmd, StopEnded(c)
  PROVE  /\ cmd[c].at = "stopping" /\ rec' = rec
         /\ \/ UNCHANGED <<jobs, run>> /\ Goes(c, "idle", None, Fresh)
            \/ /\ cmd[c].copy.job \in Job /\ Stops(cmd[c].copy.job)
               /\ Goes(c, "idle", None, Fresh) \/ Goes(c, "settling", cmd[c].id, cmd[c].copy)
<1>1. AskedJob(cmd[c].copy) => cmd[c].copy.job \in Job
  BY DEF AskedJob, TypeOK, Record
<1>. QED BY <1>1, GoesEff, StopsEff DEF StopEnded

LEMMA StopSettlesEff ==
  ASSUME TypeOK, NEW c \in Cmd, StopSettles(c), cmd[c].id \in Id
  PROVE  LET i == cmd[c].id IN
         /\ cmd[c].at = "settling" /\ UNCHANGED <<jobs, run>> /\ Goes(c, "idle", None, Fresh)
         /\ rec'[i] = None <=> rec[i] = None
         /\ rec[i] # None => /\ rec'[i].job = rec[i].job /\ rec'[i].outcome = rec[i].outcome
         /\ \A k \in Id \ {i} : rec'[k] = rec[k]
<1>1. CASE rec[cmd[c].id] = None
  BY <1>1, GoesEff DEF StopSettles
<1>2. CASE rec[cmd[c].id] # None
  <2>1. rec[cmd[c].id] \in Record
    BY <1>2 DEF TypeOK
  <2>2. [rec[cmd[c].id] EXCEPT !.settled = TRUE] \in Record
    BY <2>1 DEF Record
  <2>3. rec' = [rec EXCEPT ![cmd[c].id] = [rec[cmd[c].id] EXCEPT !.settled = TRUE]]
    BY <1>2 DEF StopSettles
  <2>4. /\ rec'[cmd[c].id] = [rec[cmd[c].id] EXCEPT !.settled = TRUE]
        /\ \A k \in Id \ {cmd[c].id} : rec'[k] = rec[k]
    BY <2>3 DEF TypeOK
  <2>5. rec'[cmd[c].id] # None
    BY <2>2, <2>4, Typed
  <2>6. rec'[cmd[c].id].job = rec[cmd[c].id].job /\ rec'[cmd[c].id].outcome = rec[cmd[c].id].outcome
    BY <2>1, <2>4 DEF Record
  <2>. QED BY <1>2, <2>4, <2>5, <2>6, GoesEff DEF StopSettles
<1>. QED BY <1>1, <1>2

LEMMA StopLiveEff ==
  ASSUME TypeOK, NEW c \in Cmd, StopLive(c)
  PROVE  /\ cmd[c].at = "stopping" /\ cmd[c].copy.outcome = None /\ rec' = rec
         /\ Goes(c, "marking", cmd[c].id, cmd[c].copy)
         /\ \/ UNCHANGED <<jobs, run>>
            \/ cmd[c].copy.job \in Job /\ Stops(cmd[c].copy.job)
<1>1. cmd[c].copy.job # None => cmd[c].copy.job \in Job
  BY DEF TypeOK, Record
<1>. QED BY <1>1, GoesEff, StopsEff DEF StopLive

LEMMA StopMarksEff ==
  ASSUME TypeOK, NEW c \in Cmd, StopMarks(c), cmd[c].id \in Id
  PROVE  LET i == cmd[c].id IN
         /\ cmd[c].at = "marking" /\ UNCHANGED <<jobs, run>> /\ Goes(c, "idle", None, Fresh)
         /\ rec'[i] = None <=> rec[i] = None
         /\ rec[i] # None => /\ rec'[i].job = cmd[c].copy.job /\ rec'[i].outcome = "failed"
                             /\ ~rec'[i].settled
         /\ \A k \in Id \ {i} : rec'[k] = rec[k]
<1>1. CASE rec[cmd[c].id] = None
  BY <1>1, GoesEff DEF StopMarks
<1>2. CASE rec[cmd[c].id] # None
  <2>. DEFINE r == [cmd[c].copy EXCEPT !.outcome = "failed", !.settled = FALSE]
  <2>1. cmd[c].copy \in Record
    BY DEF TypeOK
  <2>2. r \in Record /\ r.job = cmd[c].copy.job /\ r.outcome = "failed" /\ ~r.settled
    BY <2>1 DEF Record, Outcome
  <2>3. rec' = [rec EXCEPT ![cmd[c].id] = r]
    BY <1>2 DEF StopMarks
  <2>. HIDE DEF r
  <2>. QED BY <1>2, <2>2, <2>3, Typed, GoesEff DEF StopMarks, TypeOK
<1>. QED BY <1>1, <1>2

LEMMA PruneEff ==
  ASSUME TypeOK, NEW c \in Cmd, Prune(c)
  PROVE  /\ cmd[c].at = "idle" /\ UNCHANGED <<jobs, run, cmd>>
         /\ \E i \in Ids : ~Latest(i) /\ Peace(i) /\ Writes(i, None)
BY DEF Prune, Writes, TypeOK, Ids

(* A process begins, takes its locks, makes, and ends.                      *)
RunGoes(i, at) ==
  /\ run'[i].at = at /\ run'[i].by = run[i].by
  /\ \A k \in Id \ {i} : run'[k] = run[k]

LEMMA JobStartsEff ==
  ASSUME TypeOK, NEW j \in Job, JobStarts(j), jobs[j].of \in Id
  PROVE  LET i == jobs[j].of IN
         /\ jobs[j].st = "queued" /\ run[i].at = "none" /\ UNCHANGED <<rec, cmd>>
         /\ \A k \in Job : jobs'[k].of = jobs[k].of /\ (k # j => jobs'[k] = jobs[k])
         /\ \/ rec[i] = None /\ jobs'[j].st = "gone" /\ UNCHANGED run
            \/ /\ rec[i] # None /\ jobs'[j].st = "running"
               /\ run'[i] = [at |-> "opened", by |-> "job", copy |-> rec[i], ok |-> FALSE]
               /\ \A k \in Id \ {i} : run'[k] = run[k]
BY DEF JobStarts, TypeOK

(* A process is new.                                                        *)
LEMMA ForegroundOpens ==
  ASSUME TypeOK, NEW i \in Id, NEW c \in Cmd, Foreground(c), cmd[c].id = i
  PROVE  run'[i].at = "opened" /\ run'[i].by = c /\ run'[i].copy = cmd[c].copy
<1>1. run'[i] = [at |-> "opened", by |-> c, copy |-> cmd[c].copy, ok |-> FALSE]
  BY ForegroundEff
<1>. QED BY <1>1

LEMMA JobOpens ==
  ASSUME TypeOK, NEW i \in Id, NEW j \in Job, JobStarts(j), jobs[j].of = i
  PROVE  /\ run[i].at = "none" /\ jobs[j].st = "queued"
         /\ \/ run'[i] = run[i]
            \/ /\ jobs'[j].of = i /\ jobs'[j].st = "running" /\ rec[i] # None
               /\ run'[i].at = "opened" /\ run'[i].by = "job" /\ run'[i].copy = rec[i]
<1>1. CASE run'[i] = run[i]
  BY <1>1, JobStartsEff
<1>2. CASE run'[i] # run[i]
  <2>1. /\ run[i].at = "none" /\ jobs[j].st = "queued"
        /\ jobs'[j].of = i /\ jobs'[j].st = "running" /\ rec[i] # None
        /\ run'[i] = [at |-> "opened", by |-> "job", copy |-> rec[i], ok |-> FALSE]
    BY <1>2, JobStartsEff
  <2>2. run'[i].at = "opened" /\ run'[i].by = "job" /\ run'[i].copy = rec[i]
    BY <2>1
  <2>. QED BY <2>1, <2>2
<1>. QED BY <1>1, <1>2

LEMMA TakeLocksEff ==
  ASSUME TypeOK, NEW i \in Id, TakeLocks(i)
  PROVE  /\ run[i].at = "opened" /\ UNCHANGED <<rec, cmd>>
         /\ \/ /\ run'[i] = NoRun /\ \A k \in Id \ {i} : run'[k] = run[k]
               /\ \A k \in Job : /\ jobs'[k].of = jobs[k].of
                                 /\ jobs'[k].st = IF jobs[k].of = i /\ jobs[k].st = "running"
                                                       /\ run[i].by = "job"
                                                  THEN "gone" ELSE jobs[k].st
            \/ UNCHANGED jobs /\ RunGoes(i, "locked") /\ run'[i].copy = run[i].copy
BY DEF TakeLocks, JobEnds, RunGoes, TypeOK

LEMMA BeginEff ==
  ASSUME TypeOK, NEW i \in Id, Begin(i)
  PROVE  /\ run[i].at = "locked" /\ ~RecordLocked(i) /\ Peace(i) /\ rec[i] # None
         /\ UNCHANGED <<jobs, cmd>> /\ RunGoes(i, "making")
         /\ rec'[i] # None /\ rec'[i] = run'[i].copy
         /\ rec'[i].job = IF rec[i].job # None THEN rec[i].job ELSE run[i].copy.job
         /\ rec'[i].outcome = None /\ ~rec'[i].settled
         /\ \A k \in Id \ {i} : rec'[k] = rec[k]
<1>. DEFINE now == [KeepingJob(i) EXCEPT !.outcome = None, !.settled = FALSE]
<1>1. rec[i] \in Record /\ run[i].copy \in Record
  BY DEF Begin, TypeOK
<1>2. now \in Record /\ now.outcome = None /\ ~now.settled
      /\ now.job = IF rec[i].job # None THEN rec[i].job ELSE run[i].copy.job
  BY <1>1 DEF KeepingJob, Record, Outcome
<1>3. rec' = [rec EXCEPT ![i] = now] /\ run' = [run EXCEPT ![i].at = "making", ![i].copy = now]
  BY DEF Begin
<1>. HIDE DEF now
<1>4. rec'[i] = now /\ run'[i].copy = now /\ RunGoes(i, "making")
      /\ \A k \in Id \ {i} : rec'[k] = rec[k]
  BY <1>3 DEF TypeOK, RunGoes
<1>. QED BY <1>2, <1>4, Typed DEF Begin

LEMMA EndEff ==
  ASSUME TypeOK, NEW i \in Id, End(i)
  PROVE  /\ run[i].at = "ended" /\ ~RecordLocked(i) /\ Peace(i)
         /\ UNCHANGED <<jobs, cmd>> /\ run'[i] = NoRun /\ \A k \in Id \ {i} : run'[k] = run[k]
         /\ rec'[i] = None <=> rec[i] = None
         /\ rec[i] # None =>
              /\ rec'[i].job = IF rec[i].job # None THEN rec[i].job ELSE run[i].copy.job
              /\ rec'[i].settled = run[i].copy.settled
         /\ \A k \in Id \ {i} : rec'[k] = rec[k]
<1>1. run' = [run EXCEPT ![i] = NoRun] /\ UNCHANGED <<jobs, cmd>>
  BY DEF End
<1>2. CASE rec[i] = None
  BY <1>1, <1>2 DEF End, TypeOK
<1>3. CASE rec[i] # None
  <2>. DEFINE r == [KeepingJob(i) EXCEPT !.outcome = IF run[i].ok THEN "complete" ELSE "failed"]
  <2>1. rec[i] \in Record /\ run[i].copy \in Record
    BY <1>3 DEF TypeOK
  <2>2. /\ r \in Record /\ r.settled = run[i].copy.settled
        /\ r.job = IF rec[i].job # None THEN rec[i].job ELSE run[i].copy.job
    BY <2>1 DEF KeepingJob, Record, Outcome
  <2>3. rec' = [rec EXCEPT ![i] = r]
    BY <1>3 DEF End
  <2>. HIDE DEF r
  <2>4. rec'[i] = r /\ \A k \in Id \ {i} : rec'[k] = rec[k]
    BY <2>3 DEF TypeOK
  <2>5. rec'[i] # None
    BY <2>2, <2>4, Typed
  <2>6. run'[i] = NoRun /\ \A k \in Id \ {i} : run'[k] = run[k]
    BY <1>1 DEF TypeOK
  <2>. QED BY <1>1, <1>3, <2>2, <2>4, <2>5, <2>6 DEF End
<1>. QED BY <1>2, <1>3

LEMMA MadeEff ==
  ASSUME TypeOK, NEW i \in Id, NEW ok \in BOOLEAN, Made(i, ok)
  PROVE  /\ run[i].at = "making" /\ UNCHANGED <<rec, jobs, cmd>>
         /\ RunGoes(i, "ended") /\ run'[i].copy = run[i].copy
BY DEF Made, RunGoes, TypeOK

(* A job leaves the queue, is killed, or is queued again.                   *)
LEMMA JobLeavesEff ==
  ASSUME TypeOK, NEW j \in Job, JobLeaves(j)
  PROVE  /\ jobs[j].st = "running" /\ run[jobs[j].of].by # "job" /\ UNCHANGED <<rec, run, cmd>>
         /\ \A k \in Job : jobs'[k].of = jobs[k].of
                           /\ jobs'[k].st = IF k = j THEN "gone" ELSE jobs[k].st
BY DEF JobLeaves, TypeOK

LEMMA JobDiesEff ==
  ASSUME TypeOK, NEW j \in Job, JobDies(j)
  PROVE  jobs[j].st = "running" /\ UNCHANGED <<rec, cmd>> /\ Stops(j)
BY StopsEff DEF JobDies, Stopped

LEMMA JobRequeuedEff ==
  ASSUME TypeOK, NEW j \in Job, JobRequeued(j)
  PROVE  /\ jobs[j].st = "running" /\ UNCHANGED <<rec, cmd>>
         /\ \A k \in Job : jobs'[k].of = jobs[k].of
                           /\ jobs'[k].st = IF k = j THEN "queued" ELSE jobs[k].st
         /\ \A i \in Id : run'[i] = IF i = jobs[j].of /\ run[i].by = "job" THEN NoRun ELSE run[i]
BY DEF JobRequeued, Killed, TypeOK
-----------------------------------------------------------------------------
(* Every variable keeps its type.                                           *)

CmdSteps == {"idle", "cleared", "staged", "handoff", "blocking", "watching",
             "building", "stopping", "settling", "marking"}
CmdType == [at : CmdSteps, id : Id \cup {None}, copy : Record]
RunType == [at : {"none", "opened", "locked", "making", "ended"},
            by : Cmd \cup {"job", None}, copy : Record, ok : BOOLEAN]
JobType == [of : Id \cup {None}, st : {"none", "queued", "running", "gone"}]

LEMMA ConstantsTyped ==
  /\ Idle \in CmdType /\ [Idle EXCEPT !.at = "cleared"] \in CmdType
  /\ NoRun \in RunType
  /\ \A i \in Id : [at |-> "staged", id |-> i, copy |-> Fresh] \in CmdType
BY Typed DEF Idle, NoRun, CmdType, CmdSteps, RunType

(* A terminal that goes on, one that is idle again.                         *)
LEMMA CmdTyped ==
  ASSUME TypeOK, NEW c \in Cmd,
         \/ cmd' = [cmd EXCEPT ![c] = Idle]
         \/ Cleared(c)
         \/ \E at \in CmdSteps : cmd' = [cmd EXCEPT ![c].at = at] \/ StopGoesTo(c, at)
         \/ \E i \in Ids : cmd' = [cmd EXCEPT ![c] = [at |-> "stopping", id |-> i, copy |-> rec[i]]]
         \/ \E i \in Id : cmd' = [cmd EXCEPT ![c] = [at |-> "staged", id |-> i, copy |-> Fresh]]
  PROVE  cmd' \in [Cmd -> CmdType]
<1>1. cmd \in [Cmd -> CmdType]
  BY DEF TypeOK, CmdType, CmdSteps
<1>2. \A at \in CmdSteps : [cmd[c] EXCEPT !.at = at] \in CmdType
  BY <1>1 DEF CmdType
<1>3. \A i \in Ids : [at |-> "stopping", id |-> i, copy |-> rec[i]] \in CmdType
  BY DEF TypeOK, Ids, CmdType, CmdSteps
<1>4. CASE \E at \in CmdSteps : cmd' = [cmd EXCEPT ![c].at = at] \/ StopGoesTo(c, at)
  <2>1. PICK at \in CmdSteps : cmd' = [cmd EXCEPT ![c].at = at] \/ StopGoesTo(c, at)
    BY <1>4
  <2>2. cmd' = [cmd EXCEPT ![c] = Idle] \/ cmd' = [cmd EXCEPT ![c] = [cmd[c] EXCEPT !.at = at]]
    BY <2>1 DEF StopGoesTo
  <2>. QED BY <1>1, <1>2, <2>2, ConstantsTyped
<1>. QED BY <1>1, <1>3, <1>4, ConstantsTyped DEF Cleared

LEMMA StopsTyped ==
  ASSUME TypeOK, NEW j, \/ UNCHANGED <<jobs, run>>
                        \/ jobs' = Stopped(j) /\ run' = Killed(j)
  PROVE  jobs' \in [Job -> JobType] /\ run' \in [Id -> RunType]
<1>1. jobs \in [Job -> JobType] /\ run \in [Id -> RunType]
  BY DEF TypeOK, JobType, RunType
<1>2. CASE jobs' = Stopped(j) /\ run' = Killed(j)
  <2>1. run' \in [Id -> RunType]
    BY <1>1, <1>2, ConstantsTyped DEF Killed
  <2>2. jobs' \in [Job -> JobType]
    BY <1>1, <1>2 DEF Stopped, JobType
  <2>. QED BY <2>1, <2>2
<1>. QED BY <1>1, <1>2

(* A record that is written is one.                                         *)
LEMMA RecTyped ==
  ASSUME TypeOK, NEW i \in Id, NEW r \in Record \cup {None}, rec' = [rec EXCEPT ![i] = r]
  PROVE  rec' \in [Id -> Record \cup {None}]
BY DEF TypeOK

LEMMA RecordTyped ==
  ASSUME NEW r \in Record
  PROVE  /\ \A j \in Job : [r EXCEPT !.job = j] \in Record
         /\ \A b \in BOOLEAN : [r EXCEPT !.settled = b] \in Record
         /\ \A o \in Outcome, b \in BOOLEAN : [r EXCEPT !.outcome = o, !.settled = b] \in Record
         /\ \A o \in Outcome : [r EXCEPT !.outcome = o] \in Record
         /\ r.job \in Job \cup {None} /\ r.outcome \in Outcome /\ r.settled \in BOOLEAN
BY DEF Record

LEMMA Retyped ==
  ASSUME rec' \in [Id -> Record \cup {None}], jobs' \in [Job -> JobType],
         run' \in [Id -> RunType], cmd' \in [Cmd -> CmdType],
         requeues' \in 0 .. MaxRequeues, fails' \in 0 .. MaxFails
  PROVE  TypeOK'
BY DEF TypeOK, JobType, RunType, CmdType, CmdSteps

LEMMA Untyped ==
  ASSUME TypeOK
  PROVE  /\ rec \in [Id -> Record \cup {None}] /\ jobs \in [Job -> JobType]
         /\ run \in [Id -> RunType] /\ cmd \in [Cmd -> CmdType]
         /\ requeues \in 0 .. MaxRequeues /\ fails \in 0 .. MaxFails
         /\ Unanswered \/ Answered => fails' \in 0 .. MaxFails
<1>1. (Unanswered \/ Answered) => fails' \in 0 .. MaxFails
  BY BuildAttemptAssumption DEF TypeOK, Unanswered, Answered
<1>. QED BY <1>1 DEF TypeOK, JobType, RunType, CmdType, CmdSteps

LEMMA CommandTyped ==
  ASSUME TypeOK, NumberInv, NEW c \in Cmd,
         \/ \E force \in BOOLEAN : Guard(c, force)
         \/ Create(c) \/ Submit(c) \/ RecordJob(c)
         \/ SubmitBlocking(c) \/ Callback(c) \/ BlockReturns(c) \/ Watch(c)
         \/ Foreground(c) \/ ForegroundEnds(c) \/ Die(c)
  PROVE  TypeOK'
<1>0. cmd[c].at \in AtAttempt => cmd[c].id \in Id
  BY DEF NumberInv, Numbered
<1>1. ASSUME NEW force \in BOOLEAN, Guard(c, force) PROVE TypeOK'
  <2>1. PICK j : \/ UNCHANGED <<jobs, run>>
                 \/ jobs' = Stopped(j) /\ run' = Killed(j)
    BY <1>1 DEF Guard
  <2>2. jobs' \in [Job -> JobType] /\ run' \in [Id -> RunType]
    BY <2>1, StopsTyped
  <2>3. cmd' \in [Cmd -> CmdType]
    BY <1>1, CmdTyped DEF Guard
  <2>4. fails' \in 0 .. MaxFails
    BY <1>1, Untyped DEF Guard
  <2>. QED BY <1>1, <2>2, <2>3, <2>4, Untyped, Retyped DEF Guard
<1>2. CASE Create(c)
  <2>1. rec' \in [Id -> Record \cup {None}]
    BY <1>2, RecTyped, Typed DEF Create
  <2>2. cmd' \in [Cmd -> CmdType]
    BY <1>2, CmdTyped DEF Create
  <2>. QED BY <1>2, <2>1, <2>2, Untyped, Retyped DEF Create
<1>3. CASE Submit(c) \/ SubmitBlocking(c)
  <2>1. PICK j \in Job, at \in CmdSteps :
          /\ jobs' = [jobs EXCEPT ![j] = [of |-> cmd[c].id, st |-> "queued"]]
          /\ cmd' = [cmd EXCEPT ![c].at = at, ![c].copy.job = j]
    BY <1>3 DEF Submit, SubmitBlocking, CmdSteps
  <2>2. cmd' \in [Cmd -> CmdType]
    <3>1. cmd[c] \in CmdType /\ cmd[c].copy \in Record
      BY Untyped DEF CmdType
    <3>2. [cmd[c].copy EXCEPT !.job = j] \in Record
      BY <3>1, RecordTyped
    <3>3. [cmd[c] EXCEPT !.at = at, !.copy = [cmd[c].copy EXCEPT !.job = j]] \in CmdType
      BY <2>1, <3>1, <3>2 DEF CmdType
    <3>4. cmd' = [cmd EXCEPT ![c] =
                    [cmd[c] EXCEPT !.at = at, !.copy = [cmd[c].copy EXCEPT !.job = j]]]
      BY <2>1, Untyped DEF CmdType
    <3>. QED BY <3>3, <3>4, Untyped
  <2>3. jobs' \in [Job -> JobType]
    <3>1. cmd[c].id \in Id \cup {None}
      BY Untyped DEF CmdType
    <3>2. [of |-> cmd[c].id, st |-> "queued"] \in JobType
      BY <3>1 DEF JobType
    <3>. QED BY <2>1, <3>2, Untyped
  <2>. QED BY <1>3, <2>2, <2>3, Untyped, Retyped DEF Submit, SubmitBlocking
<1>4. CASE RecordJob(c)
  <2>1. cmd[c].copy \in Record /\ cmd[c].id \in Id
    BY <1>0, <1>4, Untyped DEF CmdType, RecordJob, AtAttempt
  <2>2. rec' \in [Id -> Record \cup {None}]
    BY <1>4, <2>1, RecTyped DEF RecordJob
  <2>3. cmd' \in [Cmd -> CmdType]
    BY <1>4, CmdTyped DEF RecordJob, CmdSteps
  <2>. QED BY <1>4, <2>2, <2>3, Untyped, Retyped DEF RecordJob
<1>5. CASE Callback(c)
  <2>1. cmd[c].id \in Id /\ cmd[c].copy.job \in Job \cup {None} /\ rec[cmd[c].id] \in Record
    BY <1>0, <1>5, Untyped, RecordTyped DEF CmdType, Callback, AtAttempt
  <2>2. [rec[cmd[c].id] EXCEPT !.job = cmd[c].copy.job] \in Record
    BY <2>1 DEF Record
  <2>3. rec' \in [Id -> Record \cup {None}]
    BY <1>5, <2>1, <2>2, RecTyped DEF Callback
  <2>. QED BY <1>5, <2>3, Untyped, Retyped DEF Callback
<1>6. CASE BlockReturns(c) \/ Watch(c) \/ ForegroundEnds(c)
  <2>1. cmd' \in [Cmd -> CmdType]
    BY <1>6, CmdTyped DEF BlockReturns, Watch, ForegroundEnds, CmdSteps
  <2>. QED BY <1>6, <2>1, Untyped, Retyped DEF BlockReturns, Watch, ForegroundEnds
<1>7. CASE Foreground(c)
  <2>1. cmd' \in [Cmd -> CmdType]
    BY <1>7, CmdTyped DEF Foreground, CmdSteps
  <2>2. [at |-> "opened", by |-> c, copy |-> cmd[c].copy, ok |-> FALSE] \in RunType
    BY Untyped DEF RunType, CmdType
  <2>3. run' \in [Id -> RunType]
    BY <1>7, <2>2, Untyped DEF Foreground
  <2>. QED BY <1>7, <2>1, <2>3, Untyped, Retyped DEF Foreground
<1>8. CASE Die(c)
  <2>1. cmd' \in [Cmd -> CmdType]
    BY <1>8, CmdTyped DEF Die
  <2>2. run' \in [Id -> RunType]
    BY <1>8, ConstantsTyped, Untyped DEF Die
  <2>. QED BY <1>8, <2>1, <2>2, Untyped, Retyped DEF Die
<1>. QED BY <1>1, <1>2, <1>3, <1>4, <1>5, <1>6, <1>7, <1>8

LEMMA StopTyped ==
  ASSUME TypeOK, NumberInv, NEW c \in Cmd,
         \/ StopOpens(c) \/ StopEnded(c) \/ StopSettles(c) \/ StopLive(c) \/ StopMarks(c)
         \/ Prune(c)
  PROVE  TypeOK'
<1>0. cmd[c].at \in AtAttempt => cmd[c].id \in Id
  BY DEF NumberInv, Numbered
<1>1. CASE StopOpens(c)
  <2>1. cmd' \in [Cmd -> CmdType]
    BY <1>1, CmdTyped DEF StopOpens
  <2>. QED BY <1>1, <2>1, Untyped, Retyped DEF StopOpens
<1>2. CASE StopEnded(c) \/ StopLive(c)
  <2>1. PICK j : \/ UNCHANGED <<jobs, run>>
                 \/ jobs' = Stopped(j) /\ run' = Killed(j)
    BY <1>2 DEF StopEnded, StopLive
  <2>2. jobs' \in [Job -> JobType] /\ run' \in [Id -> RunType]
    BY <2>1, StopsTyped
  <2>3. StopGoesTo(c, "idle") \/ StopGoesTo(c, "settling") \/ StopGoesTo(c, "marking")
    BY <1>2 DEF StopEnded, StopLive
  <2>4. cmd' \in [Cmd -> CmdType]
    BY <2>3, CmdTyped DEF CmdSteps
  <2>5. fails' \in 0 .. MaxFails
    BY <1>2, Untyped DEF StopEnded, StopLive
  <2>. QED BY <1>2, <2>2, <2>4, <2>5, Untyped, Retyped DEF StopEnded, StopLive
<1>3. CASE StopSettles(c) \/ StopMarks(c)
  <2>1. cmd[c].id \in Id /\ cmd[c].copy \in Record
    BY <1>0, <1>3, Untyped DEF CmdType, StopSettles, StopMarks, AtAttempt
  <2>2. \A i \in Id : rec[i] # None => rec[i] \in Record
    BY Untyped
  <2>3. rec' \in [Id -> Record \cup {None}]
    <3>1. CASE rec[cmd[c].id] = None
      BY <1>3, <3>1, Untyped DEF StopSettles, StopMarks
    <3>2. CASE rec[cmd[c].id] # None /\ StopSettles(c)
      <4>1. [rec[cmd[c].id] EXCEPT !.settled = TRUE] \in Record
        BY <2>1, <2>2, <3>2, RecordTyped
      <4>. QED BY <2>1, <3>2, <4>1, RecTyped DEF StopSettles
    <3>3. CASE rec[cmd[c].id] # None /\ StopMarks(c)
      <4>1. [cmd[c].copy EXCEPT !.outcome = "failed", !.settled = FALSE] \in Record
        BY <2>1, RecordTyped DEF Outcome
      <4>. QED BY <2>1, <3>3, <4>1, RecTyped DEF StopMarks
    <3>. QED BY <1>3, <3>1, <3>2, <3>3
  <2>4. cmd' \in [Cmd -> CmdType]
    BY <1>3, CmdTyped DEF StopSettles, StopMarks, CmdSteps
  <2>. QED BY <1>3, <2>3, <2>4, Untyped, Retyped DEF StopSettles, StopMarks
<1>4. CASE Prune(c)
  <2>1. rec' \in [Id -> Record \cup {None}]
    BY <1>4, RecTyped DEF Prune, Ids
  <2>. QED BY <1>4, <2>1, Untyped, Retyped DEF Prune
<1>. QED BY <1>1, <1>2, <1>3, <1>4

LEMMA RunTyped ==
  ASSUME TypeOK, NEW i \in Id,
         TakeLocks(i) \/ Begin(i) \/ End(i) \/ \E ok \in BOOLEAN : Made(i, ok)
  PROVE  TypeOK'
<1>0. run[i] \in RunType /\ run[i].copy \in Record /\ (rec[i] # None => rec[i] \in Record)
  BY Untyped DEF RunType
<1>1. CASE TakeLocks(i)
  <2>1. run' \in [Id -> RunType]
    <3>1. [run[i] EXCEPT !.at = "locked"] \in RunType
      BY <1>0 DEF RunType
    <3>. QED BY <1>1, <3>1, ConstantsTyped, Untyped DEF TakeLocks
  <2>2. jobs' \in [Job -> JobType]
    <3>1. \A j \in Job : jobs[j] \in JobType /\ [jobs[j] EXCEPT !.st = "gone"] \in JobType
      BY Untyped DEF JobType
    <3>. QED BY <1>1, <3>1, Untyped DEF TakeLocks, JobEnds
  <2>. QED BY <1>1, <2>1, <2>2, Untyped, Retyped DEF TakeLocks
<1>2. CASE Begin(i)
  <2>. DEFINE now == [KeepingJob(i) EXCEPT !.outcome = None, !.settled = FALSE]
  <2>1. now \in Record
    BY <1>0, <1>2 DEF Begin, KeepingJob, Record, Outcome
  <2>2. rec' = [rec EXCEPT ![i] = now] /\ run' = [run EXCEPT ![i].at = "making", ![i].copy = now]
    BY <1>2 DEF Begin
  <2>. HIDE DEF now
  <2>3. rec' \in [Id -> Record \cup {None}]
    BY <2>1, <2>2, RecTyped
  <2>4. run' \in [Id -> RunType]
    <3>1. [run[i] EXCEPT !.at = "making", !.copy = now] \in RunType
      BY <1>0, <2>1 DEF RunType
    <3>. QED BY <2>2, <3>1, Untyped
  <2>. QED BY <1>2, <2>3, <2>4, Untyped, Retyped DEF Begin
<1>3. CASE End(i)
  <2>. DEFINE r == [KeepingJob(i) EXCEPT !.outcome = IF run[i].ok THEN "complete" ELSE "failed"]
  <2>1. rec[i] # None => r \in Record
    BY <1>0 DEF KeepingJob, Record, Outcome
  <2>2. rec' = IF rec[i] = None THEN rec ELSE [rec EXCEPT ![i] = r]
    BY <1>3 DEF End
  <2>. HIDE DEF r
  <2>3. rec' \in [Id -> Record \cup {None}]
    BY <2>1, <2>2, RecTyped, Untyped
  <2>4. run' \in [Id -> RunType]
    BY <1>3, ConstantsTyped, Untyped DEF End
  <2>. QED BY <1>3, <2>3, <2>4, Untyped, Retyped DEF End
<1>4. ASSUME NEW ok \in BOOLEAN, Made(i, ok) PROVE TypeOK'
  <2>1. [run[i] EXCEPT !.at = "ended", !.ok = ok] \in RunType
    BY <1>0 DEF RunType
  <2>2. run' \in [Id -> RunType]
    BY <1>4, <2>1, Untyped DEF Made
  <2>. QED BY <1>4, <2>2, Untyped, Retyped DEF Made
<1>. QED BY <1>1, <1>2, <1>3, <1>4

LEMMA SchedulerTyped ==
  ASSUME TypeOK, NEW j \in Job,
         JobStarts(j) \/ JobLeaves(j) \/ JobDies(j) \/ JobRequeued(j)
  PROVE  TypeOK'
<1>1. \A st \in {"queued", "running", "gone"} :
        jobs' = [jobs EXCEPT ![j].st = st] => jobs' \in [Job -> JobType]
  BY Untyped DEF JobType
<1>2. run' = Killed(j) => run' \in [Id -> RunType]
  BY Untyped, ConstantsTyped DEF Killed
<1>3. CASE JobStarts(j)
  <2>1. run' \in [Id -> RunType]
    <3>. DEFINE i == jobs[j].of
    <3>1. CASE UNCHANGED run
      BY <3>1, Untyped
    <3>2. CASE rec[i] # None /\ run' = [run EXCEPT ![i] =
                   [at |-> "opened", by |-> "job", copy |-> rec[i], ok |-> FALSE]]
      <4>1. i \in Id => rec[i] \in Record
        BY <3>2, Untyped
      <4>2. i \in Id => [at |-> "opened", by |-> "job", copy |-> rec[i], ok |-> FALSE] \in RunType
        BY <4>1 DEF RunType
      <4>. QED BY <3>2, <4>2, Untyped
    <3>. QED BY <1>3, <3>1, <3>2 DEF JobStarts
  <2>2. jobs' \in [Job -> JobType]
    BY <1>1, <1>3 DEF JobStarts
  <2>. QED BY <1>3, <2>1, <2>2, Untyped, Retyped DEF JobStarts
<1>4. CASE JobLeaves(j)
  BY <1>1, <1>4, Untyped, Retyped DEF JobLeaves
<1>5. CASE JobDies(j)
  BY <1>1, <1>2, <1>5, Untyped, Retyped DEF JobDies
<1>6. CASE JobRequeued(j)
  <2>1. requeues' \in 0 .. MaxRequeues
    BY <1>6, BuildAttemptAssumption, Untyped DEF JobRequeued
  <2>. QED BY <1>1, <1>2, <1>6, <2>1, Untyped, Retyped DEF JobRequeued
<1>. QED BY <1>3, <1>4, <1>5, <1>6

LEMMA TypeStep ==
  ASSUME TypeOK, NumberInv, [Next]_vars
  PROVE  TypeOK'
<1>1. CASE UNCHANGED vars
  BY <1>1 DEF vars, TypeOK
<1>. QED BY <1>1, CommandTyped, StopTyped, RunTyped, SchedulerTyped DEF Next
-----------------------------------------------------------------------------
(* A number is given once.                                                  *)

LEMMA NumberedStays ==
  ASSUME TypeOK, NumberInv, [Next]_vars
  PROVE  Numbered \subseteq Numbered'
<1>1. CASE \A i \in Ids : i \in Ids'
  BY <1>1 DEF Numbered
<1>2. ASSUME NEW c \in Cmd, Prune(c) PROVE Numbered \subseteq Numbered'
  <2>1. PICK k \in Ids : ~Latest(k) /\ Writes(k, None)
    BY <1>2, PruneEff
  <2>2. PICK l \in Ids : ~(l <= k)
    BY <2>1 DEF Latest
  <2>3. k \in Nat /\ l \in Nat /\ k < l
    BY <2>2, Typed DEF Ids
  <2>4. \A i \in Ids : i # k => i \in Ids'
    BY <2>1 DEF Writes, Ids
  <2>5. ASSUME NEW i \in Numbered PROVE i \in Numbered'
    <3>1. PICK m \in Ids : i <= m
      BY <2>5 DEF Numbered
    <3>2. i \in Nat /\ m \in Nat
      BY Typed DEF Ids, Numbered
    <3>3. i <= l \/ m # k
      BY <2>3, <3>1, <3>2
    <3>. QED BY <2>3, <2>4, <3>1, <3>3 DEF Numbered
  <2>. QED BY <2>5
<1>3. ASSUME NEW c \in Cmd,
             \/ Create(c) \/ RecordJob(c) \/ Callback(c) \/ StopSettles(c) \/ StopMarks(c)
      PROVE  \A i \in Ids : i \in Ids'
  <2>0. cmd[c].at \in AtAttempt => cmd[c].id \in Id
    BY DEF NumberInv, Numbered
  <2>1. CASE Create(c)
    BY <2>1, CreateEff, Typed DEF Writes, Ids
  <2>2. CASE RecordJob(c)
    <3>1. cmd[c].copy # None
      BY Typed, Untyped DEF CmdType
    <3>2. cmd[c].id \in Id
      BY <2>0, <2>2 DEF RecordJob, AtAttempt
    <3>. QED BY <2>2, <3>1, <3>2, RecordJobEff DEF Writes, Ids
  <2>3. CASE Callback(c)
    BY <2>0, <2>3, CallbackEff, Typed DEF Callback, AtAttempt, Ids
  <2>4. CASE StopSettles(c)
    BY <2>0, <2>4, StopSettlesEff DEF StopSettles, AtAttempt, Ids
  <2>5. CASE StopMarks(c)
    BY <2>0, <2>5, StopMarksEff DEF StopMarks, AtAttempt, Ids
  <2>. QED BY <1>3, <2>1, <2>2, <2>3, <2>4, <2>5
<1>4. ASSUME NEW i \in Id, Begin(i) \/ End(i) PROVE \A k \in Ids : k \in Ids'
  BY <1>4, BeginEff, EndEff DEF Ids
<1>5. CASE UNCHANGED rec
  BY <1>1, <1>5 DEF Ids
<1>. QED BY <1>1, <1>2, <1>3, <1>4, <1>5
         DEF Next, vars, Guard, Submit, SubmitBlocking, BlockReturns, Watch, Foreground,
             ForegroundEnds, Die, StopOpens, StopEnded, StopLive, TakeLocks, Made,
             JobStarts, JobLeaves, JobDies, JobRequeued

(* The next number is beyond those there are.                               *)
LEMMA NextIsLast ==
  ASSUME NEW i \in Id, NextId(i)
  PROVE  \A k \in Ids : k < i /\ k <= i
<1>1. CASE Ids = {}
  BY <1>1
<1>2. CASE Ids # {}
  <2>1. Latest(i - 1)
    BY <1>2 DEF NextId
  <2>2. \A k \in Ids : k <= i - 1 /\ k \in Nat /\ i \in Nat
    BY <2>1, Typed DEF Latest, Ids
  <2>. QED BY <2>2
<1>. QED BY <1>1, <1>2

(* What nothing has been given yet, has no job, no process and no command.  *)
LEMMA NextIsFresh ==
  ASSUME TypeOK, NumberInv, NEW i \in Id, NextId(i)
  PROVE  /\ i \notin Numbered /\ i \in Jobless /\ run[i].at = "none" /\ rec[i] = None
         /\ \A c \in Cmd : cmd[c].at \in AtAttempt => cmd[c].id # i
<1>1. \A k \in Ids : k < i
  BY NextIsLast
<1>2. i \notin Numbered /\ i \notin Ids
  <2>1. \A k \in Ids : k \in Nat /\ i \in Nat
    BY Typed DEF Ids
  <2>. QED BY <1>1, <2>1 DEF Numbered
<1>. QED BY <1>2, Typed DEF NumberInv, Jobless, Ids

(* The steps that change what the scheduler has.                            *)
LEMMA JobsGo ==
  ASSUME [Next]_vars
  PROVE  \/ UNCHANGED jobs
         \/ \E c \in Cmd : \/ \E force \in BOOLEAN : Guard(c, force)
                           \/ Submit(c) \/ SubmitBlocking(c) \/ StopEnded(c) \/ StopLive(c)
         \/ \E i \in Id : TakeLocks(i)
         \/ \E j \in Job : JobStarts(j) \/ JobLeaves(j) \/ JobDies(j) \/ JobRequeued(j)
BY DEF Next, vars, Create, RecordJob, Callback, BlockReturns, Watch, Foreground,
       ForegroundEnds, Die, StopOpens, StopSettles, StopMarks, Prune, Begin, End, Made

(* Only a submission gives an attempt a job, and no job is forgotten.       *)
JobStays(j) ==
  /\ jobs'[j].of = jobs[j].of
  /\ jobs'[j].st = "none" <=> jobs[j].st = "none"
  /\ jobs[j].st = "gone" => jobs'[j].st = "gone"
  /\ jobs'[j].st = "running" => jobs[j].st = "running" \/ JobStarts(j)
  /\ jobs'[j].st = "queued" => jobs[j].st \in {"queued", "running"}

LEMMA JobsStay ==
  ASSUME TypeOK, NumberInv, OwnInv, [Next]_vars,
         \A c \in Cmd : ~Submit(c) /\ ~SubmitBlocking(c)
  PROVE  \A j \in Job : JobStays(j)
<1>1. CASE UNCHANGED jobs
  BY <1>1 DEF JobStays
<1>2. ASSUME NEW j \in Job, Stops(j), jobs[j].st # "none"
      PROVE  \A k \in Job : JobStays(k)
  BY <1>2 DEF Stops, JobStays
<1>3. \A j \in Job : jobs[j].of \in Id => jobs[j].st # "none"
  BY Typed DEF NumberInv
<1>4. ASSUME NEW c \in Cmd, NEW force \in BOOLEAN, Guard(c, force)
      PROVE  \A k \in Job : JobStays(k)
  <2>1. ASSUME NEW i \in Ids, rec[i].job \in Job, Stops(rec[i].job)
        PROVE  \A k \in Job : JobStays(k)
    <3>1. jobs[rec[i].job].of = i /\ i \in Id
      BY <2>1, Typed DEF OwnInv, OwnJob, Ids
    <3>. QED BY <1>2, <1>3, <2>1, <3>1
  <2>. QED BY <1>1, <1>4, <2>1, GuardEff
<1>5. ASSUME NEW c \in Cmd, StopEnded(c) \/ StopLive(c)
      PROVE  \A k \in Job : JobStays(k)
  <2>1. cmd[c].id \in Id /\ (cmd[c].copy.job # None => jobs[cmd[c].copy.job].of = cmd[c].id)
    BY <1>5 DEF StopEnded, StopLive, NumberInv, AtAttempt, Numbered, OwnInv, OwnJob
  <2>2. cmd[c].copy.job \in Job => jobs[cmd[c].copy.job].st # "none"
    BY <1>3, <2>1, Typed
  <2>. QED BY <1>1, <1>2, <1>5, <2>2, StopEndedEff, StopLiveEff
<1>6. ASSUME NEW i \in Id, TakeLocks(i) PROVE \A k \in Job : JobStays(k)
  BY <1>1, <1>6, TakeLocksEff DEF JobStays
<1>7. ASSUME NEW j \in Job, JobStarts(j) PROVE \A k \in Job : JobStays(k)
  <2>1. jobs[j].of \in Id
    BY <1>7 DEF JobStarts, NumberInv, Numbered
  <2>. QED BY <1>7, <2>1, JobStartsEff DEF JobStays
<1>8. ASSUME NEW j \in Job, JobLeaves(j) \/ JobDies(j) \/ JobRequeued(j)
      PROVE  \A k \in Job : JobStays(k)
  BY <1>2, <1>8, JobLeavesEff, JobDiesEff, JobRequeuedEff DEF JobStays
<1>. QED BY <1>1, <1>4, <1>5, <1>6, <1>7, <1>8, JobsGo

(* A process goes on, or is no more, or is new.                             *)
RunStays(i) ==
  \/ run'[i] = run[i] \/ run'[i] = NoRun
  \/ Begin(i) \/ TakeLocks(i) \/ \E ok \in BOOLEAN : Made(i, ok)
  \/ \E c \in Cmd : Foreground(c) /\ cmd[c].id = i
  \/ \E j \in Job : JobStarts(j) /\ jobs[j].of = i

LEMMA RunsStay ==
  ASSUME TypeOK, NumberInv, [Next]_vars
  PROVE  \A i \in Id : RunStays(i)
<1>1. CASE UNCHANGED run
  BY <1>1 DEF RunStays
<1>2. ASSUME NEW j, Stops(j) PROVE \A i \in Id : RunStays(i)
  BY <1>2 DEF Stops, RunStays
<1>3. ASSUME NEW c \in Cmd, \/ \E force \in BOOLEAN : Guard(c, force)
                            \/ StopEnded(c) \/ StopLive(c)
      PROVE  \A i \in Id : RunStays(i)
  BY <1>1, <1>2, <1>3, GuardEff, StopEndedEff, StopLiveEff
<1>4. ASSUME NEW c \in Cmd, Foreground(c) PROVE \A i \in Id : RunStays(i)
  <2>1. cmd[c].id \in Id
    BY <1>4 DEF Foreground, NumberInv, AtAttempt, Numbered
  <2>. QED BY <1>4, <2>1, ForegroundEff DEF RunStays
<1>5. ASSUME NEW c \in Cmd, Die(c) PROVE \A i \in Id : RunStays(i)
  BY <1>5, DieEff DEF RunStays
<1>6. ASSUME NEW i \in Id,
             TakeLocks(i) \/ Begin(i) \/ End(i) \/ \E ok \in BOOLEAN : Made(i, ok)
      PROVE  \A k \in Id : RunStays(k)
  BY <1>6, TakeLocksEff, BeginEff, EndEff, MadeEff DEF RunStays, RunGoes
<1>7. ASSUME NEW j \in Job, JobStarts(j) PROVE \A i \in Id : RunStays(i)
  <2>1. jobs[j].of \in Id
    BY <1>7 DEF JobStarts, NumberInv, Numbered
  <2>. QED BY <1>7, <2>1, JobStartsEff DEF RunStays
<1>8. ASSUME NEW j \in Job, JobDies(j) \/ JobRequeued(j) PROVE \A i \in Id : RunStays(i)
  BY <1>2, <1>8, JobDiesEff, JobRequeuedEff DEF RunStays
<1>. QED BY <1>1, <1>3, <1>4, <1>5, <1>6, <1>7, <1>8
         DEF Next, vars, Create, Submit, RecordJob, SubmitBlocking, Callback, BlockReturns,
             Watch, ForegroundEnds, StopOpens, StopSettles, StopMarks, Prune, JobLeaves

(* No terminal, job or process refers to a number that was not given.       *)
LEMMA NumberStep ==
  ASSUME TypeOK, NumberInv, OwnInv, [Next]_vars
  PROVE  NumberInv'
<1>0. Numbered \subseteq Numbered'
  BY NumberedStays
<1>1. \A c \in Cmd : IF cmd'[c].at \in AtAttempt THEN cmd'[c].id \in Numbered'
                                               ELSE cmd'[c].copy = Fresh
  <2>. DEFINE Num(d) == IF cmd'[d].at \in AtAttempt THEN cmd'[d].id \in Numbered'
                                                   ELSE cmd'[d].copy = Fresh
  <2>1. \A c \in Cmd : cmd'[c] = cmd[c] => Num(c)
    BY <1>0 DEF NumberInv
  <2>2. ASSUME NEW c \in Cmd, NEW at, NEW id, NEW copy, Goes(c, at, id, copy),
               IF at \in AtAttempt THEN id \in Numbered \/ id \in Numbered'
                                   ELSE copy = Fresh
        PROVE  \A d \in Cmd : Num(d)
    BY <1>0, <2>1, <2>2 DEF Goes
  <2>3. CASE UNCHANGED cmd
    BY <2>1, <2>3
  <2>4. ASSUME NEW c \in Cmd, NEW force \in BOOLEAN, Guard(c, force)
        PROVE  \A d \in Cmd : Num(d)
    BY <2>2, <2>4, GuardEff DEF AtAttempt
  <2>5. ASSUME NEW c \in Cmd, Create(c)
        PROVE  \A d \in Cmd : Num(d)
    <3>1. PICK i \in Id : Writes(i, Fresh) /\ Goes(c, "staged", i, Fresh)
      BY <2>5, CreateEff
    <3>2. i \in Numbered'
      BY <3>1, Typed DEF Numbered, Ids, Writes
    <3>. QED BY <2>2, <3>1, <3>2 DEF AtAttempt
  <2>6. ASSUME NEW c \in Cmd, Submit(c) \/ SubmitBlocking(c)
        PROVE  \A d \in Cmd : Num(d)
    <3>1. /\ cmd[c].at = "staged" /\ cmd'[c].id = cmd[c].id
          /\ cmd'[c].at \in {"handoff", "blocking"}
          /\ \A d \in Cmd \ {c} : cmd'[d] = cmd[d]
      BY <2>6, SubmitEff
    <3>. QED BY <1>0, <2>1, <3>1 DEF AtAttempt, NumberInv
  <2>7. ASSUME NEW c \in Cmd, RecordJob(c) \/ Foreground(c)
        PROVE  \A d \in Cmd : Num(d)
    <3>1. cmd[c].id \in Numbered /\ cmd[c].id \in Id
      BY <2>7 DEF RecordJob, Foreground, AtAttempt, NumberInv, Numbered
    <3>. QED BY <2>2, <2>7, <3>1, RecordJobEff, ForegroundEff DEF AtAttempt
  <2>8. ASSUME NEW c \in Cmd, BlockReturns(c) \/ Watch(c) \/ ForegroundEnds(c) \/ StopOpens(c)
        PROVE  \A d \in Cmd : Num(d)
    <3>1. BlockReturns(c) => cmd[c].id \in Numbered
      BY DEF BlockReturns, AtAttempt, NumberInv
    <3>2. \A i \in Ids : i \in Numbered
      <4>1. \A i \in Ids : i \in Id /\ i \in Nat
        BY Typed DEF Ids
      <4>. QED BY <4>1 DEF Numbered
    <3>. QED BY <2>2, <2>8, <3>1, <3>2, QuietEff DEF AtAttempt
  <2>9. ASSUME NEW c \in Cmd, Die(c) PROVE \A d \in Cmd : Num(d)
    BY <2>2, <2>9, DieEff DEF AtAttempt
  <2>10. ASSUME NEW c \in Cmd, StopEnded(c) \/ StopSettles(c) \/ StopLive(c) \/ StopMarks(c)
        PROVE  \A d \in Cmd : Num(d)
    <3>1. cmd[c].id \in Numbered /\ cmd[c].id \in Id
      BY <2>10 DEF StopEnded, StopSettles, StopLive, StopMarks, AtAttempt, NumberInv, Numbered
    <3>. QED BY <2>2, <2>10, <3>1, StopEndedEff, StopSettlesEff, StopLiveEff, StopMarksEff
             DEF AtAttempt
  <2>. QED BY <2>3, <2>4, <2>5, <2>6, <2>7, <2>8, <2>9, <2>10
           DEF Next, vars, Callback, Prune, TakeLocks, Begin, End, Made,
               JobStarts, JobLeaves, JobDies, JobRequeued
<1>2. \A j \in Job : IF jobs'[j].st = "none" THEN jobs'[j].of = None
                    ELSE jobs'[j].of \in Numbered'
  <2>1. CASE \A j \in Job : JobStays(j)
    <3>. SUFFICES ASSUME NEW j \in Job
                  PROVE  IF jobs'[j].st = "none" THEN jobs'[j].of = None
                         ELSE jobs'[j].of \in Numbered'
      OBVIOUS
    <3>1. CASE jobs[j].st = "none"
      BY <2>1, <3>1 DEF NumberInv, JobStays
    <3>2. CASE jobs[j].st # "none"
      BY <1>0, <2>1, <3>2 DEF NumberInv, JobStays
    <3>. QED BY <3>1, <3>2
  <2>2. ASSUME NEW c \in Cmd, Submit(c) \/ SubmitBlocking(c)
        PROVE  \A j \in Job : IF jobs'[j].st = "none" THEN jobs'[j].of = None
                             ELSE jobs'[j].of \in Numbered'
    <3>1. cmd[c].id \in Numbered'
      BY <1>0, <2>2 DEF Submit, SubmitBlocking, AtAttempt, NumberInv
    <3>2. PICK j \in Job : /\ jobs'[j].st = "queued" /\ jobs'[j].of = cmd[c].id
                           /\ \A k \in Job \ {j} : jobs'[k] = jobs[k]
      BY <2>2, SubmitEff
    <3>. QED BY <1>0, <3>1, <3>2 DEF NumberInv
  <2>. QED BY <2>1, <2>2, JobsStay
<1>3. \A i \in Id : run'[i].at # "none" => i \in Numbered'
  <2>1. ASSUME NEW i \in Id, run'[i].at # "none" PROVE run[i].at # "none" \/ i \in Numbered
    <3>1. \A c \in Cmd : Foreground(c) => cmd[c].id \in Numbered
      BY DEF NumberInv, Foreground, AtAttempt
    <3>2. \A j \in Job : JobStarts(j) => jobs[j].of \in Numbered
      BY DEF NumberInv, JobStarts
    <3>3. Begin(i) \/ TakeLocks(i) \/ (\E ok \in BOOLEAN : Made(i, ok)) => run[i].at # "none"
      BY DEF Begin, TakeLocks, Made
    <3>. QED BY <2>1, <3>1, <3>2, <3>3, RunsStay DEF RunStays, NoRun
  <2>. QED BY <1>0, <2>1 DEF NumberInv
<1>. QED BY <1>1, <1>2, <1>3 DEF NumberInv
-----------------------------------------------------------------------------
(* An attempt has one job, and no record or copy names another's.           *)

LEMMA JobTyped ==
  ASSUME TypeOK
  PROVE  /\ \A i \in Id : rec[i] # None => rec[i] \in Record /\ rec[i].job \in Job \cup {None}
         /\ \A i \in Id : run[i].copy \in Record /\ run[i].copy.job \in Job \cup {None}
         /\ \A c \in Cmd : cmd[c].copy \in Record /\ cmd[c].copy.job \in Job \cup {None}
<1>1. \A i \in Id : run[i] \in RunType
  BY Untyped
<1>2. \A c \in Cmd : cmd[c] \in CmdType
  BY Untyped
<1>. QED BY <1>1, <1>2, Untyped, RecordTyped DEF RunType, CmdType

LEMMA OfStays ==
  ASSUME TypeOK, NumberInv, OwnInv, [Next]_vars
  PROVE  \A j \in Job : jobs[j].of # None => jobs'[j].of = jobs[j].of
<1>1. CASE \A c \in Cmd : ~Submit(c) /\ ~SubmitBlocking(c)
  BY <1>1, JobsStay DEF JobStays
<1>2. ASSUME NEW c \in Cmd, Submit(c) \/ SubmitBlocking(c)
      PROVE  \A j \in Job : jobs[j].of # None => jobs'[j].of = jobs[j].of
  <2>1. PICK j \in Job : jobs[j].st = "none" /\ \A k \in Job \ {j} : jobs'[k] = jobs[k]
    BY <1>2, SubmitEff
  <2>2. jobs[j].of = None
    BY <2>1 DEF NumberInv
  <2>. QED BY <2>1, <2>2
<1>. QED BY <1>1, <1>2

(* The steps that write a record.                                           *)
LEMMA RecsGo ==
  ASSUME [Next]_vars
  PROVE  \/ UNCHANGED rec
         \/ \E c \in Cmd : \/ Create(c) \/ RecordJob(c) \/ Callback(c)
                           \/ StopSettles(c) \/ StopMarks(c) \/ Prune(c)
         \/ \E i \in Id : Begin(i) \/ End(i)
BY DEF Next, vars, Guard, Submit, SubmitBlocking, BlockReturns, Watch, Foreground,
       ForegroundEnds, Die, StopOpens, StopEnded, StopLive, TakeLocks, Made,
       JobStarts, JobLeaves, JobDies, JobRequeued

(* Where the job in a record comes from.                                    *)
LEMMA RecordedJob ==
  ASSUME TypeOK, NumberInv, [Next]_vars, NEW i \in Id, rec'[i] # None
  PROVE  \/ rec'[i].job = None
         \/ rec[i] # None /\ rec'[i].job = rec[i].job
         \/ rec'[i].job = run[i].copy.job
         \/ \E c \in Cmd : cmd[c].id = i /\ rec'[i].job = cmd[c].copy.job
<1>. DEFINE Known == \/ rec'[i].job = None
                     \/ rec[i] # None /\ rec'[i].job = rec[i].job
                     \/ rec'[i].job = run[i].copy.job
                     \/ \E c \in Cmd : cmd[c].id = i /\ rec'[i].job = cmd[c].copy.job
<1>1. CASE rec'[i] = rec[i]
  BY <1>1
<1>2. ASSUME NEW c \in Cmd,
             \/ Create(c) \/ RecordJob(c) \/ Callback(c) \/ StopSettles(c) \/ StopMarks(c)
             \/ Prune(c)
      PROVE  Known
  <2>0. cmd[c].at \in AtAttempt => cmd[c].id \in Id
    BY DEF NumberInv, Numbered
  <2>1. CASE Create(c)
    BY <1>1, <2>1, CreateEff DEF Writes, Fresh
  <2>2. CASE RecordJob(c)
    <3>1. cmd[c].id \in Id
      BY <2>0, <2>2 DEF RecordJob, AtAttempt
    <3>. QED BY <1>1, <2>2, <3>1, RecordJobEff DEF Writes
  <2>3. CASE Callback(c)
    BY <1>1, <2>0, <2>3, CallbackEff DEF Callback, AtAttempt
  <2>4. CASE StopSettles(c)
    BY <1>1, <2>0, <2>4, StopSettlesEff DEF StopSettles, AtAttempt
  <2>5. CASE StopMarks(c)
    BY <1>1, <2>0, <2>5, StopMarksEff DEF StopMarks, AtAttempt
  <2>6. CASE Prune(c)
    BY <1>1, <2>6, PruneEff DEF Writes, Ids
  <2>. QED BY <1>2, <2>1, <2>2, <2>3, <2>4, <2>5, <2>6
<1>3. ASSUME NEW k \in Id, Begin(k) \/ End(k) PROVE Known
  BY <1>1, <1>3, BeginEff, EndEff
<1>. QED BY <1>1, <1>2, <1>3, RecsGo

(* And the job in a process's copy.                                         *)
LEMMA RunJob ==
  ASSUME TypeOK, NumberInv, [Next]_vars, NEW i \in Id
  PROVE  \/ run'[i].copy.job = None
         \/ run'[i].copy.job = run[i].copy.job
         \/ rec'[i] # None /\ run'[i].copy.job = rec'[i].job
         \/ rec[i] # None /\ run'[i].copy.job = rec[i].job
         \/ \E c \in Cmd : cmd[c].id = i /\ run'[i].copy.job = cmd[c].copy.job
<1>1. CASE run'[i] = run[i]
  BY <1>1
<1>2. CASE run'[i] = NoRun
  BY <1>2 DEF NoRun, Fresh
<1>3. CASE Begin(i) \/ TakeLocks(i) \/ \E ok \in BOOLEAN : Made(i, ok)
  BY <1>1, <1>2, <1>3, BeginEff, TakeLocksEff, MadeEff DEF RunGoes
<1>4. CASE \E c \in Cmd : Foreground(c) /\ cmd[c].id = i
  <2>1. PICK c \in Cmd : Foreground(c) /\ cmd[c].id = i
    BY <1>4
  <2>. QED BY <2>1, ForegroundOpens
<1>5. CASE \E j \in Job : JobStarts(j) /\ jobs[j].of = i
  <2>1. PICK j \in Job : JobStarts(j) /\ jobs[j].of = i
    BY <1>5
  <2>. QED BY <1>1, <2>1, JobOpens
<1>. QED BY <1>1, <1>2, <1>3, <1>4, <1>5, RunsStay DEF RunStays

(* The steps that are a command's.                                          *)
LEMMA CmdsGo ==
  ASSUME [Next]_vars
  PROVE  \/ UNCHANGED cmd
         \/ \E d \in Cmd :
              \/ \E force \in BOOLEAN : Guard(d, force)
              \/ Create(d) \/ Submit(d) \/ RecordJob(d) \/ SubmitBlocking(d)
              \/ BlockReturns(d) \/ Watch(d) \/ Foreground(d) \/ ForegroundEnds(d) \/ Die(d)
              \/ StopOpens(d) \/ StopEnded(d) \/ StopSettles(d) \/ StopLive(d) \/ StopMarks(d)
BY DEF Next, vars, Callback, Prune, TakeLocks, Begin, End, Made,
       JobStarts, JobLeaves, JobDies, JobRequeued

(* And the job in a command's copy, with the attempt it is at.              *)
LEMMA CmdJob ==
  ASSUME TypeOK, NumberInv, [Next]_vars, NEW c \in Cmd
  PROVE  \/ cmd'[c].copy.job = None
         \/ cmd'[c].copy.job = cmd[c].copy.job /\ cmd'[c].id = cmd[c].id
         \/ cmd'[c].id \in Ids /\ cmd'[c].copy.job = rec[cmd'[c].id].job
         \/ /\ cmd'[c].copy.job \in Job /\ jobs'[cmd'[c].copy.job].of = cmd'[c].id
<1>. DEFINE Known == \/ cmd'[c].copy.job = None
                     \/ cmd'[c].copy.job = cmd[c].copy.job /\ cmd'[c].id = cmd[c].id
                     \/ cmd'[c].id \in Ids /\ cmd'[c].copy.job = rec[cmd'[c].id].job
                     \/ cmd'[c].copy.job \in Job /\ jobs'[cmd'[c].copy.job].of = cmd'[c].id
<1>. HIDE DEF Known
<1>1. CASE cmd'[c] = cmd[c]
  BY <1>1 DEF Known
<1>2. ASSUME NEW d \in Cmd,
             \/ \E at, id : Goes(d, at, id, Fresh)
             \/ \E at : Goes(d, at, cmd[d].id, cmd[d].copy)
             \/ \E i \in Ids : Goes(d, "stopping", i, rec[i])
      PROVE  Known
  BY <1>1, <1>2 DEF Goes, Fresh, Known
<1>3. ASSUME NEW d \in Cmd, Submit(d) \/ SubmitBlocking(d)
      PROVE  Known
  <2>1. PICK j \in Job : /\ jobs'[j].of = cmd[d].id
                         /\ cmd'[d].copy = [cmd[d].copy EXCEPT !.job = j] /\ cmd'[d].id = cmd[d].id
                         /\ \A e \in Cmd \ {d} : cmd'[e] = cmd[e]
    BY <1>3, SubmitEff
  <2>2. cmd'[d].copy.job = j
    <3>1. cmd[d].copy \in Record
      BY JobTyped
    <3>. QED BY <2>1, <3>1 DEF Record
  <2>. QED BY <1>1, <2>1, <2>2 DEF Known
<1>4. ASSUME NEW d \in Cmd, NEW force \in BOOLEAN, Guard(d, force) PROVE Known
  <2>1. \E at, id : Goes(d, at, id, Fresh)
    BY <1>4, GuardEff
  <2>. QED BY <1>2, <2>1
<1>5. ASSUME NEW d \in Cmd, \/ Create(d) \/ BlockReturns(d) \/ Watch(d) \/ ForegroundEnds(d)
                            \/ StopOpens(d) \/ Die(d) \/ StopEnded(d) \/ StopLive(d)
      PROVE  Known
  <2>1. \/ \E at, id : Goes(d, at, id, Fresh)
        \/ \E at : Goes(d, at, cmd[d].id, cmd[d].copy)
        \/ \E i \in Ids : Goes(d, "stopping", i, rec[i])
    BY <1>5, CreateEff, QuietEff, DieEff, StopEndedEff, StopLiveEff
  <2>. QED BY <1>2, <2>1
<1>6. ASSUME NEW d \in Cmd, RecordJob(d) \/ Foreground(d) \/ StopSettles(d) \/ StopMarks(d)
      PROVE  Known
  <2>1. cmd[d].id \in Id
    BY <1>6 DEF RecordJob, Foreground, StopSettles, StopMarks, NumberInv, AtAttempt, Numbered
  <2>2. \/ \E at, id : Goes(d, at, id, Fresh)
        \/ \E at : Goes(d, at, cmd[d].id, cmd[d].copy)
    BY <1>6, <2>1, RecordJobEff, ForegroundEff, StopSettlesEff, StopMarksEff
  <2>. QED BY <1>2, <2>2
<1>7. CASE UNCHANGED cmd
  BY <1>1, <1>7
<1>. USE DEF Known
<1>. QED BY <1>3, <1>4, <1>5, <1>6, <1>7, CmdsGo

(* How a command gets where it is.                                          *)
LEMMA Waits ==
  ASSUME TypeOK, NumberInv, [Next]_vars, NEW c \in Cmd, cmd'[c] # cmd[c]
  PROVE  /\ cmd'[c].at = "cleared" => \E force \in BOOLEAN : Guard(c, force)
         /\ cmd'[c].at = "staged" => Create(c)
         /\ cmd'[c].at = "handoff" => Submit(c)
         /\ cmd'[c].at = "blocking" => SubmitBlocking(c)
         /\ cmd'[c].at = "building" => Foreground(c)
         /\ cmd'[c].at = "stopping" => StopOpens(c)
         /\ cmd'[c].at = "settling" => StopEnded(c)
         /\ cmd'[c].at = "marking" => StopLive(c)
<1>. DEFINE Way == /\ cmd'[c].at = "cleared" => \E force \in BOOLEAN : Guard(c, force)
                   /\ cmd'[c].at = "staged" => Create(c)
                   /\ cmd'[c].at = "handoff" => Submit(c)
                   /\ cmd'[c].at = "blocking" => SubmitBlocking(c)
                   /\ cmd'[c].at = "building" => Foreground(c)
                   /\ cmd'[c].at = "stopping" => StopOpens(c)
                   /\ cmd'[c].at = "settling" => StopEnded(c)
                   /\ cmd'[c].at = "marking" => StopLive(c)
<1>0. cmd \in [Cmd -> CmdType]
  BY Untyped
<1>2. ASSUME NEW d \in Cmd, NEW force \in BOOLEAN, Guard(d, force) PROVE Way
  BY <1>2, GuardEff DEF Goes
<1>3. ASSUME NEW d \in Cmd, Create(d) PROVE Way
  BY <1>3, CreateEff DEF Goes
<1>4. ASSUME NEW d \in Cmd, Submit(d) PROVE Way
  BY <1>0, <1>4 DEF Submit, CmdType
<1>5. ASSUME NEW d \in Cmd, SubmitBlocking(d) PROVE Way
  BY <1>0, <1>5 DEF SubmitBlocking, CmdType
<1>6. ASSUME NEW d \in Cmd, \/ BlockReturns(d) \/ Watch(d) \/ ForegroundEnds(d)
                            \/ StopOpens(d) \/ Die(d) \/ StopEnded(d) \/ StopLive(d)
      PROVE  Way
  BY <1>6, QuietEff, DieEff, StopEndedEff, StopLiveEff DEF Goes
<1>7. ASSUME NEW d \in Cmd, RecordJob(d) \/ Foreground(d) \/ StopSettles(d) \/ StopMarks(d)
      PROVE  Way
  <2>1. cmd[d].id \in Id
    BY <1>7 DEF RecordJob, Foreground, StopSettles, StopMarks, NumberInv, AtAttempt, Numbered
  <2>. QED BY <1>7, <2>1, RecordJobEff, ForegroundEff, StopSettlesEff, StopMarksEff DEF Goes
<1>. QED BY <1>2, <1>3, <1>4, <1>5, <1>6, <1>7
         DEF Next, vars, Callback, Prune, TakeLocks, Begin, End, Made,
             JobStarts, JobLeaves, JobDies, JobRequeued

LEMMA OwnStep ==
  ASSUME TypeOK, TypeOK', NumberInv, OwnInv, StagedInv, [Next]_vars
  PROVE  OwnInv'
<1>0. \A i \in Id : i # None
  BY Typed
<1>1. \A j, k \in Job : jobs'[j].of = jobs'[k].of /\ jobs'[j].of # None => j = k
  <2>1. CASE \A c \in Cmd : ~Submit(c) /\ ~SubmitBlocking(c)
    <3>1. \A j \in Job : jobs'[j].of = jobs[j].of
      BY <2>1, JobsStay DEF JobStays
    <3>. QED BY <3>1 DEF OwnInv
  <2>2. ASSUME NEW c \in Cmd, Submit(c) \/ SubmitBlocking(c)
        PROVE  \A j, k \in Job : jobs'[j].of = jobs'[k].of /\ jobs'[j].of # None => j = k
    <3>1. PICK j \in Job : jobs'[j].of = cmd[c].id /\ \A k \in Job \ {j} : jobs'[k] = jobs[k]
      BY <2>2, SubmitEff
    <3>2. \A k \in Job : jobs[k].of # cmd[c].id
      BY <2>2 DEF Submit, SubmitBlocking, StagedInv, Jobless
    <3>. QED BY <3>1, <3>2 DEF OwnInv
  <2>. QED BY <2>1, <2>2
<1>2. \A i \in Id, j \in Job : jobs[j].of = i => jobs'[j].of = i
  BY <1>0, OfStays
<1>3. ASSUME NEW i \in Id, rec'[i] # None, rec'[i].job # None
      PROVE  jobs'[rec'[i].job].of = i
  BY <1>2, <1>3, RecordedJob, JobTyped DEF OwnInv, OwnJob
<1>4. ASSUME NEW i \in Id, run'[i].copy.job # None
      PROVE  jobs'[run'[i].copy.job].of = i
  BY <1>2, <1>3, <1>4, RunJob, JobTyped DEF OwnInv, OwnJob
<1>5. ASSUME NEW c \in Cmd, cmd'[c].copy.job # None
      PROVE  jobs'[cmd'[c].copy.job].of = cmd'[c].id
  <2>1. CASE cmd'[c].copy.job = cmd[c].copy.job /\ cmd'[c].id = cmd[c].id
    <3>1. jobs[cmd[c].copy.job].of = cmd[c].id /\ cmd[c].copy.job \in Job
      BY <1>5, <2>1, JobTyped DEF OwnInv, OwnJob
    <3>2. cmd[c].id \in Id
      BY <1>5, <2>1 DEF NumberInv, Numbered, Fresh
    <3>. QED BY <1>2, <2>1, <3>1, <3>2
  <2>2. CASE cmd'[c].id \in Ids /\ cmd'[c].copy.job = rec[cmd'[c].id].job
    BY <1>2, <1>5, <2>2, JobTyped DEF OwnInv, OwnJob, Ids
  <2>. QED BY <1>5, <2>1, <2>2, CmdJob
<1>6. ASSUME NEW c \in Cmd, cmd'[c].at \in {"handoff", "blocking"}
      PROVE  cmd'[c].copy.job # None
  <2>1. CASE cmd'[c] = cmd[c]
    BY <1>6, <2>1 DEF OwnInv
  <2>2. CASE Submit(c) \/ SubmitBlocking(c)
    <3>1. PICK j \in Job : cmd'[c].copy = [cmd[c].copy EXCEPT !.job = j]
      BY <2>2, SubmitEff
    <3>. QED BY <3>1, JobTyped, Typed DEF Record
  <2>. QED BY <1>6, <2>1, <2>2, Waits
<1>. QED BY <1>1, <1>3, <1>4, <1>5, <1>6 DEF OwnInv, OwnJob

(* A command is moved by its own steps only.                                *)
LEMMA CmdStep ==
  ASSUME TypeOK, NumberInv, [Next]_vars, NEW c \in Cmd, cmd'[c] # cmd[c]
  PROVE  \/ \E force \in BOOLEAN : Guard(c, force)
         \/ Create(c) \/ Submit(c) \/ RecordJob(c) \/ SubmitBlocking(c)
         \/ BlockReturns(c) \/ Watch(c) \/ Foreground(c) \/ ForegroundEnds(c) \/ Die(c)
         \/ StopOpens(c) \/ StopEnded(c) \/ StopSettles(c) \/ StopLive(c) \/ StopMarks(c)
<1>1. ASSUME NEW d \in Cmd, \/ \E force \in BOOLEAN : Guard(d, force)
                            \/ Create(d) \/ Submit(d) \/ SubmitBlocking(d)
      PROVE  d = c
  <2>1. CASE \E force \in BOOLEAN : Guard(d, force)
    BY <2>1, GuardEff DEF Goes
  <2>2. CASE Create(d)
    BY <2>2, CreateEff DEF Goes
  <2>3. CASE Submit(d) \/ SubmitBlocking(d)
    BY <2>3, SubmitEff
  <2>. QED BY <1>1, <2>1, <2>2, <2>3
<1>2. ASSUME NEW d \in Cmd, \/ BlockReturns(d) \/ Watch(d) \/ ForegroundEnds(d) \/ Die(d)
                            \/ StopOpens(d) \/ StopEnded(d) \/ StopLive(d)
      PROVE  d = c
  BY <1>2, QuietEff, DieEff, StopEndedEff, StopLiveEff DEF Goes
<1>3. ASSUME NEW d \in Cmd, RecordJob(d) \/ Foreground(d) \/ StopSettles(d) \/ StopMarks(d)
      PROVE  d = c
  <2>1. cmd[d].id \in Id
    BY <1>3 DEF RecordJob, Foreground, StopSettles, StopMarks, NumberInv, AtAttempt, Numbered
  <2>. QED BY <1>3, <2>1, RecordJobEff, ForegroundEff, StopSettlesEff, StopMarksEff DEF Goes
<1>. QED BY <1>1, <1>2, <1>3, CmdsGo

LEMMA Leaves ==
  ASSUME TypeOK, NumberInv, [Next]_vars, NEW c \in Cmd, cmd'[c] # cmd[c]
  PROVE  /\ cmd[c].at = "cleared" => Create(c) \/ Die(c)
         /\ cmd[c].at = "staged" => Submit(c) \/ SubmitBlocking(c) \/ Foreground(c) \/ Die(c)
         /\ cmd[c].at \in {"handoff", "blocking"} => RecordJob(c) \/ BlockReturns(c) \/ Die(c)
         /\ cmd[c].at = "building" => ForegroundEnds(c) \/ Die(c)
BY CmdStep DEF Guard, Create, Submit, RecordJob, SubmitBlocking, BlockReturns, Watch, Foreground,
   ForegroundEnds, StopOpens, StopEnded, StopSettles, StopLive, StopMarks

-----------------------------------------------------------------------------
(* What has no job gets it from its command; a record is completed at the   *)
(* end of a build.                                                          *)

LEMMA JoblessStays ==
  ASSUME TypeOK, NumberInv, OwnInv, [Next]_vars, NEW i \in Jobless
  PROVE  i \in Jobless' \/ \E c \in Cmd : (Submit(c) \/ SubmitBlocking(c)) /\ cmd[c].id = i
<1>1. i \in Id /\ \A j \in Job : jobs[j].of # i
  BY DEF Jobless
<1>2. CASE \A c \in Cmd : ~Submit(c) /\ ~SubmitBlocking(c)
  BY <1>1, <1>2, JobsStay DEF JobStays, Jobless
<1>3. ASSUME NEW c \in Cmd, Submit(c) \/ SubmitBlocking(c), i \notin Jobless'
      PROVE  cmd[c].id = i
  <2>1. PICK j \in Job : jobs'[j].of = cmd[c].id /\ \A k \in Job \ {j} : jobs'[k] = jobs[k]
    BY <1>3, SubmitEff
  <2>. QED BY <1>1, <1>3, <2>1 DEF Jobless
<1>. QED BY <1>2, <1>3

Rewritten(i) ==
  \/ \E c \in Cmd : Create(c) /\ NextId(i) /\ rec'[i] = Fresh
  \/ \E c \in Cmd : RecordJob(c) /\ cmd[c].id = i /\ Peace(i) /\ rec'[i] = cmd[c].copy
  \/ /\ \E c \in Cmd : Callback(c) /\ cmd[c].id = i
     /\ rec'[i].outcome = rec[i].outcome /\ rec'[i].settled = rec[i].settled
     /\ rec'[i].job # None /\ Peace(i)
  \/ /\ \E c \in Cmd : StopSettles(c) /\ cmd[c].id = i
     /\ rec[i] # None /\ rec'[i].job = rec[i].job /\ rec'[i].outcome = rec[i].outcome
     /\ Peace(i)
  \/ /\ \E c \in Cmd : StopMarks(c) /\ cmd[c].id = i /\ rec'[i].job = cmd[c].copy.job
     /\ rec[i] # None /\ rec'[i].outcome = "failed" /\ ~rec'[i].settled
  \/ rec'[i] = None /\ Peace(i) /\ ~Latest(i)
  \/ Begin(i) \/ End(i)

LEMMA RecWrites ==
  ASSUME TypeOK, NumberInv, OwnInv, [Next]_vars, NEW i \in Id, rec'[i] # rec[i]
  PROVE  Rewritten(i)
<1>1. ASSUME NEW c \in Cmd,
             \/ Create(c) \/ RecordJob(c) \/ Callback(c) \/ StopSettles(c) \/ StopMarks(c)
             \/ Prune(c)
      PROVE  Rewritten(i)
  <2>0. cmd[c].at \in AtAttempt => cmd[c].id \in Id
    BY DEF NumberInv, Numbered
  <2>1. CASE Create(c)
    <3>1. NextId(i) /\ rec'[i] = Fresh
      BY <2>1, CreateEff DEF Writes
    <3>. QED BY <2>1, <3>1 DEF Rewritten
  <2>2. CASE RecordJob(c)
    <3>1. cmd[c].id = i /\ Peace(i) /\ rec'[i] = cmd[c].copy
      BY <2>0, <2>2, RecordJobEff DEF RecordJob, AtAttempt, Writes
    <3>. QED BY <2>2, <3>1 DEF Rewritten
  <2>3. CASE Callback(c)
    <3>1. cmd[c].id \in Id /\ cmd[c].at = "blocking"
      BY <2>0, <2>3 DEF Callback, AtAttempt
    <3>2. /\ cmd[c].id = i /\ Peace(i) /\ rec'[i].job = cmd[c].copy.job
          /\ rec'[i].outcome = rec[i].outcome /\ rec'[i].settled = rec[i].settled
      BY <2>3, <3>1, CallbackEff
    <3>3. cmd[c].copy.job # None
      BY <3>1 DEF OwnInv
    <3>. QED BY <2>3, <3>2, <3>3 DEF Rewritten
  <2>4. CASE StopSettles(c)
    <3>1. cmd[c].id \in Id /\ cmd[c].at = "settling" /\ Peace(cmd[c].id)
      BY <2>0, <2>4 DEF StopSettles, AtAttempt
    <3>2. cmd[c].id = i
      BY <2>4, <3>1, StopSettlesEff
    <3>3. rec[i] # None
      BY <2>4, <3>1, <3>2, StopSettlesEff
    <3>4. rec'[i].job = rec[i].job /\ rec'[i].outcome = rec[i].outcome
      BY <2>4, <3>1, <3>2, <3>3, StopSettlesEff
    <3>. QED BY <2>4, <3>1, <3>2, <3>3, <3>4 DEF Rewritten
  <2>5. CASE StopMarks(c)
    <3>1. cmd[c].id \in Id /\ cmd[c].at = "marking"
      BY <2>0, <2>5 DEF StopMarks, AtAttempt
    <3>2. cmd[c].id = i
      BY <2>5, <3>1, StopMarksEff
    <3>3. rec[i] # None
      BY <2>5, <3>1, <3>2, StopMarksEff
    <3>4. rec'[i].job = cmd[c].copy.job /\ rec'[i].outcome = "failed" /\ ~rec'[i].settled
      BY <2>5, <3>1, <3>2, <3>3, StopMarksEff
    <3>. QED BY <2>5, <3>1, <3>2, <3>3, <3>4 DEF Rewritten
  <2>6. CASE Prune(c)
    <3>1. rec'[i] = None /\ Peace(i) /\ ~Latest(i)
      BY <2>6, PruneEff DEF Writes, Ids
    <3>. QED BY <3>1 DEF Rewritten
  <2>. QED BY <1>1, <2>1, <2>2, <2>3, <2>4, <2>5, <2>6
<1>2. ASSUME NEW k \in Id, Begin(k) \/ End(k) PROVE Rewritten(i)
  BY <1>2, BeginEff, EndEff DEF Rewritten
<1>. QED BY <1>1, <1>2, RecsGo

(* Only a prune removes a record.                                           *)
LEMMA Wrote ==
  ASSUME TypeOK, NumberInv, OwnInv, [Next]_vars, NEW i \in Id, rec'[i] = None, rec[i] # None
  PROVE  Peace(i) /\ ~Latest(i)
<1>1. ASSUME NEW c \in Cmd, \/ Create(c) \/ RecordJob(c) \/ Callback(c) \/ StopSettles(c) \/ StopMarks(c)
      PROVE  rec'[i] # None
  <2>0. cmd[c].at \in AtAttempt => cmd[c].id \in Id
    BY DEF NumberInv, Numbered
  <2>1. CASE Create(c)
    BY <2>1, CreateEff, Typed DEF Writes
  <2>2. CASE RecordJob(c)
    <3>1. cmd[c].id \in Id /\ cmd[c].copy # None
      BY <2>0, <2>2, JobTyped, Typed DEF RecordJob, AtAttempt
    <3>. QED BY <2>2, <3>1, RecordJobEff DEF Writes
  <2>3. CASE Callback(c)
    BY <2>0, <2>3, CallbackEff, Typed DEF Callback, AtAttempt
  <2>4. CASE StopSettles(c)
    BY <2>0, <2>4, StopSettlesEff DEF StopSettles, AtAttempt
  <2>5. CASE StopMarks(c)
    BY <2>0, <2>5, StopMarksEff DEF StopMarks, AtAttempt
  <2>. QED BY <1>1, <2>1, <2>2, <2>3, <2>4, <2>5
<1>2. ASSUME NEW k \in Id, Begin(k) \/ End(k) PROVE rec'[i] # None
  BY <1>2, BeginEff, EndEff
<1>3. ASSUME NEW c \in Cmd, Prune(c) PROVE Peace(i) /\ ~Latest(i)
  BY <1>3, PruneEff DEF Writes, Ids
<1>. QED BY <1>1, <1>2, <1>3, RecsGo

(* And only then.                                                           *)
LEMMA StaysIncomplete ==
  ASSUME TypeOK, NumberInv, OwnInv, StagedInv, [Next]_vars, NEW i \in Incomplete, ~End(i)
  PROVE  i \in Incomplete'
<1>1. i \in Id /\ (rec[i] # None => rec[i].outcome # "complete")
  BY DEF Incomplete
<1>2. CASE rec'[i] = rec[i]
  BY <1>1, <1>2 DEF Incomplete
<1>3. ASSUME NEW c \in Cmd, RecordJob(c), rec'[i] = cmd[c].copy PROVE rec'[i].outcome = None
  BY <1>3 DEF RecordJob, StagedInv
<1>4. Begin(i) => rec'[i].outcome = None
  BY <1>1, BeginEff
<1>5. \A c \in Cmd : Callback(c) /\ cmd[c].id = i => rec[i] # None
  BY DEF Callback
<1>6. rec'[i] # None => rec'[i].outcome # "complete"
  BY <1>1, <1>2, <1>3, <1>4, <1>5, RecWrites, BuildAttemptAssumption DEF Rewritten, Fresh
<1>. QED BY <1>1, <1>6 DEF Incomplete

LEMMA StagedStep ==
  ASSUME TypeOK, NumberInv, OwnInv, StagedInv, [Next]_vars
  PROVE  StagedInv'
<1>0. ASSUME NEW c \in Cmd, cmd[c].at \in AtAttempt
      PROVE  cmd[c].id \in Id /\ cmd[c].id \in Numbered
  BY <1>0 DEF NumberInv, Numbered
<1>1. ASSUME NEW c \in Cmd, Create(c)
      PROVE  /\ cmd'[c].copy = Fresh /\ UNCHANGED <<jobs, run>>
             /\ cmd'[c].id \in Id /\ NextId(cmd'[c].id) /\ rec'[cmd'[c].id] = Fresh
  BY <1>1, CreateEff DEF Goes, Writes
(* Nobody gives a job to what another has staged or builds.                 *)
<1>2. ASSUME NEW c \in Cmd, NEW d \in Cmd, cmd[c].at \in {"staged", "building"},
             cmd'[c] = cmd[c], cmd[d].at = "staged", cmd[d].id = cmd[c].id
      PROVE  cmd'[d] = cmd[d]
  BY <1>2 DEF StagedInv
<1>3. ASSUME NEW c \in Cmd, cmd[c].at \in {"staged", "building"}, cmd'[c] = cmd[c]
      PROVE  cmd[c].id \in Jobless'
  <2>1. cmd[c].id \in Jobless
    BY <1>3 DEF StagedInv
  <2>2. ASSUME NEW d \in Cmd, Submit(d) \/ SubmitBlocking(d), cmd[d].id = cmd[c].id PROVE FALSE
    <3>1. cmd[d].at = "staged" /\ cmd'[d].at # "staged"
      BY <2>2, SubmitEff
    <3>. QED BY <1>2, <1>3, <2>2, <3>1
  <2>. QED BY <2>1, <2>2, JoblessStays
<1>4. ASSUME NEW c \in Cmd, cmd'[c].at = "staged"
      PROVE  cmd'[c].id \in Jobless' /\ run'[cmd'[c].id].at = "none" /\ cmd'[c].copy = Fresh
  <2>1. CASE cmd'[c] = cmd[c]
    <3>1. /\ cmd[c].id \in Id /\ run[cmd[c].id].at = "none" /\ cmd[c].copy = Fresh
          /\ \A j \in Job : jobs[j].of # cmd[c].id
      BY <1>4, <2>1 DEF StagedInv, Jobless
    <3>2. ASSUME NEW d \in Cmd, Foreground(d), cmd[d].id = cmd[c].id PROVE FALSE
      <4>1. cmd[d].at = "staged" /\ cmd'[d].at # "staged"
        BY <3>1, <3>2, ForegroundEff DEF Goes
      <4>. QED BY <1>2, <1>4, <2>1, <3>2, <4>1
    <3>3. run'[cmd[c].id] = run[cmd[c].id] \/ run'[cmd[c].id] = NoRun
      BY <3>1, <3>2, RunsStay DEF RunStays, Begin, TakeLocks, Made
    <3>. QED BY <1>3, <1>4, <2>1, <3>1, <3>3 DEF NoRun
  <2>2. CASE Create(c)
    BY <1>1, <2>2, NextIsFresh DEF Jobless
  <2>. QED BY <1>4, <2>1, <2>2, Waits
<1>5. ASSUME NEW c \in Cmd, NEW d \in Cmd, cmd'[c].at = "staged",
             cmd'[d].at \in {"staged", "building"}, cmd'[d].id = cmd'[c].id
      PROVE  d = c
  <2>1. CASE cmd'[c] = cmd[c] /\ cmd'[d] = cmd[d]
    BY <1>5, <2>1 DEF StagedInv
  <2>2. CASE Create(c)
    <3>1. \A e \in Cmd \ {c} : cmd'[e] = cmd[e]
      BY <2>2, CreateEff DEF Goes
    <3>. QED BY <1>1, <1>5, <2>2, <3>1, NextIsFresh DEF AtAttempt
  <2>3. CASE Create(d)
    <3>1. \A e \in Cmd \ {d} : cmd'[e] = cmd[e]
      BY <2>3, CreateEff DEF Goes
    <3>. QED BY <1>1, <1>5, <2>3, <3>1, NextIsFresh DEF AtAttempt
  <2>4. CASE Foreground(d) /\ cmd'[c] = cmd[c]
    <3>1. cmd[d].at = "staged" /\ cmd'[d].at = "building" /\ cmd'[d].id = cmd[d].id
      BY <1>0, <2>4, ForegroundEff DEF Goes, Foreground, AtAttempt
    <3>. QED BY <1>5, <2>4, <3>1 DEF StagedInv
  <2>. QED BY <1>5, <2>1, <2>2, <2>3, <2>4, Waits
<1>6. ASSUME NEW c \in Cmd, cmd'[c].at = "building" PROVE cmd'[c].id \in Jobless'
  <2>1. CASE Foreground(c)
    <3>1. cmd[c].at = "staged" /\ cmd'[c].id = cmd[c].id /\ UNCHANGED jobs
      BY <1>0, <2>1, ForegroundEff DEF Goes, Foreground, AtAttempt
    <3>. QED BY <3>1 DEF StagedInv, Jobless
  <2>. QED BY <1>3, <1>6, <2>1, Waits
<1>7. ASSUME NEW c \in Cmd, Submit(c)
      PROVE  /\ cmd'[c].id = cmd[c].id /\ UNCHANGED rec /\ cmd[c].at = "staged"
             /\ ~cmd'[c].copy.settled /\ cmd'[c].copy.outcome = None
  <2>1. cmd[c].at = "staged" /\ cmd'[c].id = cmd[c].id /\ UNCHANGED rec
    BY <1>7, SubmitEff
  <2>2. PICK j \in Job : cmd'[c].copy = [cmd[c].copy EXCEPT !.job = j]
    BY <1>7, SubmitEff
  <2>3. cmd[c].copy = Fresh
    BY <2>1 DEF StagedInv
  <2>. QED BY <2>1, <2>2, <2>3 DEF Fresh
<1>8. ASSUME NEW c \in Cmd, cmd'[c].at = "handoff"
      PROVE  ~cmd'[c].copy.settled /\ cmd'[c].copy.outcome = None
  BY <1>7, <1>8, Waits DEF StagedInv
<1>9. ASSUME NEW c \in Cmd, cmd'[c].at \in {"staged", "handoff"}
      PROVE  cmd'[c].id \in Incomplete'
  <2>1. CASE cmd'[c] = cmd[c]
    <3>1. cmd[c].id \in Incomplete
      BY <1>9, <2>1 DEF StagedInv
    <3>2. ~End(cmd[c].id)
      <4>1. CASE cmd[c].at = "staged"
        BY <4>1 DEF StagedInv, End
      <4>2. CASE cmd[c].at = "handoff"
        BY <4>2 DEF End, RecordLocked
      <4>. QED BY <1>9, <2>1, <4>1, <4>2
    <3>. QED BY <2>1, <3>1, <3>2, StaysIncomplete
  <2>2. CASE Create(c)
    BY <1>1, <2>2, BuildAttemptAssumption DEF Incomplete, Fresh
  <2>3. CASE Submit(c)
    BY <1>7, <2>3 DEF StagedInv, Incomplete
  <2>. QED BY <1>9, <2>1, <2>2, <2>3, Waits
<1>. QED BY <1>4, <1>5, <1>6, <1>8, <1>9 DEF StagedInv

-----------------------------------------------------------------------------
(* Whose the processes are.                                                 *)

(* A job runs as long as its process does.                                  *)
LEMMA JobsRun ==
  ASSUME TypeOK, NumberInv, OwnInv, [Next]_vars,
         NEW j \in Job, jobs[j].st = "running", run'[jobs[j].of] # NoRun, run[jobs[j].of].by = "job"
  PROVE  jobs'[j].st = "running"
<1>0. jobs[j].of \in Id
  BY DEF NumberInv, Numbered
<1>1. ASSUME NEW k \in Job, Stops(k) PROVE jobs'[j].st = "running"
  BY <1>0, <1>1 DEF Stops
<1>2. ASSUME NEW c \in Cmd, \/ \E force \in BOOLEAN : Guard(c, force)
                            \/ StopEnded(c) \/ StopLive(c)
      PROVE  jobs'[j].st = "running"
  BY <1>1, <1>2, GuardEff, StopEndedEff, StopLiveEff
<1>3. ASSUME NEW c \in Cmd, Submit(c) \/ SubmitBlocking(c) PROVE jobs'[j].st = "running"
  BY <1>3, SubmitEff
<1>4. ASSUME NEW i \in Id, TakeLocks(i) PROVE jobs'[j].st = "running"
  BY <1>0, <1>4, TakeLocksEff
<1>5. ASSUME NEW k \in Job, JobStarts(k) PROVE jobs'[j].st = "running"
  <2>1. jobs[k].of \in Id
    BY <1>5 DEF JobStarts, NumberInv, Numbered
  <2>. QED BY <1>5, <2>1, JobStartsEff
<1>6. ASSUME NEW k \in Job, JobLeaves(k) \/ JobDies(k) \/ JobRequeued(k)
      PROVE  jobs'[j].st = "running"
  BY <1>0, <1>1, <1>6, JobLeavesEff, JobDiesEff, JobRequeuedEff
<1>7. CASE UNCHANGED jobs
  BY <1>7
<1>. QED BY <1>2, <1>3, <1>4, <1>5, <1>6, <1>7, JobsGo

LEMMA RunStep ==
  ASSUME TypeOK, NumberInv, OwnInv, StagedInv, RunInv, [Next]_vars
  PROVE  RunInv'
<1>1. ASSUME NEW i \in Id PROVE run'[i].at = "none" <=> run'[i].by = None
  <2>1. CASE run'[i] = run[i] \/ run'[i] = NoRun
    BY <2>1 DEF RunInv, NoRun
  <2>2. CASE Begin(i) \/ TakeLocks(i) \/ \E ok \in BOOLEAN : Made(i, ok)
    BY <2>2, BeginEff, TakeLocksEff, MadeEff DEF RunInv, RunGoes, NoRun
  <2>3. ASSUME NEW c \in Cmd, Foreground(c), cmd[c].id = i
        PROVE  run'[i].at # "none" /\ run'[i].by # None
    BY <2>3, ForegroundOpens, Typed
  <2>4. ASSUME NEW j \in Job, JobStarts(j), jobs[j].of = i
        PROVE  run'[i].at = "none" <=> run'[i].by = None
    BY <2>4, JobOpens, Typed DEF RunInv
  <2>. QED BY <2>1, <2>2, <2>3, <2>4, RunsStay DEF RunStays
<1>2. ASSUME NEW i \in Id, run'[i].by = "job"
      PROVE  \E j \in Job : jobs'[j].of = i /\ jobs'[j].st = "running"
  <2>1. CASE run[i].by = "job"
    <3>1. PICK j \in Job : jobs[j].of = i /\ jobs[j].st = "running"
      BY <2>1 DEF RunInv
    <3>2. run'[i] # NoRun
      BY <1>2, Typed DEF NoRun
    <3>3. jobs'[j].st = "running"
      BY <2>1, <3>1, <3>2, JobsRun
    <3>4. jobs'[j].of = i
      BY <3>1, OfStays, Typed
    <3>. QED BY <3>3, <3>4
  <2>2. ASSUME NEW j \in Job, JobStarts(j), jobs[j].of = i, run[i].by # "job"
        PROVE  jobs'[j].of = i /\ jobs'[j].st = "running"
    BY <1>2, <2>2, JobOpens
  <2>3. ASSUME NEW c \in Cmd, Foreground(c), cmd[c].id = i PROVE FALSE
    BY <1>2, <2>3, ForegroundOpens, Typed
  <2>4. Begin(i) \/ TakeLocks(i) \/ (\E ok \in BOOLEAN : Made(i, ok)) => run[i].by = "job"
    BY <1>2, BeginEff, TakeLocksEff, MadeEff, Typed DEF RunGoes, NoRun
  <2>. QED BY <1>2, <2>1, <2>2, <2>3, <2>4, RunsStay, Typed DEF RunStays, NoRun
<1>3. ASSUME NEW i \in Id, NEW c \in Cmd, run'[i].by = c
      PROVE  cmd'[c].at = "building" /\ cmd'[c].id = i
  <2>0. c # None /\ c # "job"
    BY Typed
  <2>1. CASE run[i].by = c
    <3>1. cmd[c].at = "building" /\ cmd[c].id = i
      BY <2>1 DEF RunInv
    <3>2. ~ForegroundEnds(c)
      BY <2>1, <3>1 DEF ForegroundEnds
    <3>3. ~Die(c)
      BY <1>3, <2>0, <2>1, DieEff DEF NoRun
    <3>. QED BY <3>1, <3>2, <3>3, Leaves
  <2>2. ASSUME NEW d \in Cmd, Foreground(d), cmd[d].id = i
        PROVE  d = c /\ cmd'[c].at = "building" /\ cmd'[c].id = i
    <3>1. run'[i].by = d /\ Goes(d, "building", i, cmd[d].copy)
      BY <2>2, ForegroundEff, ForegroundOpens
    <3>. QED BY <1>3, <3>1 DEF Goes
  <2>3. ASSUME NEW j \in Job, JobStarts(j), jobs[j].of = i PROVE run[i].by = c
    BY <1>3, <2>0, <2>3, JobOpens
  <2>4. Begin(i) \/ TakeLocks(i) \/ (\E ok \in BOOLEAN : Made(i, ok)) => run[i].by = c
    BY <1>3, <2>0, BeginEff, TakeLocksEff, MadeEff DEF RunGoes, NoRun
  <2>. QED BY <1>3, <2>0, <2>1, <2>2, <2>3, <2>4, RunsStay DEF RunStays, NoRun
<1>4. ASSUME NEW i \in Id, run'[i].at \in {"making", "ended"} PROVE i \in Incomplete'
  <2>1. CASE run'[i] = run[i]
    <3>1. ~End(i)
      BY <1>4, <2>1, EndEff DEF NoRun
    <3>. QED BY <1>4, <2>1, <3>1, StaysIncomplete DEF RunInv
  <2>2. CASE Begin(i)
    BY <2>2, BeginEff, BuildAttemptAssumption DEF Incomplete
  <2>3. ASSUME NEW ok \in BOOLEAN, Made(i, ok) PROVE i \in Incomplete'
    <3>1. i \in Incomplete
      BY <2>3 DEF Made, RunInv
    <3>. QED BY <2>3, <3>1, MadeEff DEF Incomplete
  <2>4. ~TakeLocks(i)
    BY <1>4, TakeLocksEff DEF RunGoes, NoRun
  <2>5. ASSUME NEW c \in Cmd, Foreground(c), cmd[c].id = i PROVE FALSE
    BY <1>4, <2>5, ForegroundOpens
  <2>6. ASSUME NEW j \in Job, JobStarts(j), jobs[j].of = i PROVE run'[i] = run[i]
    BY <1>4, <2>6, JobOpens
  <2>. QED BY <1>4, <2>1, <2>2, <2>3, <2>4, <2>5, <2>6, RunsStay DEF RunStays, NoRun
<1>. QED BY <1>1, <1>2, <1>3, <1>4 DEF RunInv

-----------------------------------------------------------------------------
(* What is settled.                                                         *)

LEMMA JobGoneStays ==
  ASSUME TypeOK, NumberInv, OwnInv, [Next]_vars
  PROVE  JobGone \subseteq JobGone'
<1>. SUFFICES ASSUME NEW i \in JobGone
              PROVE  i \in JobGone'
  OBVIOUS
<1>1. PICK j \in Job : i \in Id /\ jobs[j].of = i /\ jobs[j].st = "gone"
  BY DEF JobGone
<1>2. jobs'[j].of = i
  BY <1>1, OfStays, Typed
<1>3. CASE \A c \in Cmd : ~Submit(c) /\ ~SubmitBlocking(c)
  BY <1>1, <1>2, <1>3, JobsStay DEF JobStays, JobGone
<1>4. ASSUME NEW c \in Cmd, Submit(c) \/ SubmitBlocking(c) PROVE jobs'[j].st = "gone"
  BY <1>1, <1>4, SubmitEff
<1>. QED BY <1>1, <1>2, <1>3, <1>4 DEF JobGone

LEMMA SettledStep ==
  ASSUME TypeOK, NumberInv, OwnInv, StagedInv, SettledInv, [Next]_vars
  PROVE  SettledInv'
<1>0. \A i \in JobGone : i \in JobGone'
  BY JobGoneStays
<1>1. ASSUME NEW i \in Id, rec'[i] # None, rec'[i].settled PROVE i \in JobGone'
  <2>1. CASE rec'[i] = rec[i]
    BY <1>0, <1>1, <2>1 DEF SettledInv
  <2>2. \A c \in Cmd : RecordJob(c) => ~cmd[c].copy.settled
    BY DEF RecordJob, StagedInv
  <2>3. \A c \in Cmd : Callback(c) /\ cmd[c].id = i => rec[i] # None
    BY DEF Callback
  <2>4. \A c \in Cmd : StopSettles(c) /\ cmd[c].id = i => i \in JobGone
    BY DEF StopSettles, SettledInv
  <2>5. ~Begin(i)
    BY <1>1, BeginEff
  <2>6. End(i) => run[i].copy.settled
    BY <1>1, EndEff
  <2>. QED BY <1>0, <1>1, <2>1, <2>2, <2>3, <2>4, <2>5, <2>6, RecWrites
           DEF Rewritten, SettledInv, Fresh
<1>2. ASSUME NEW i \in Id, run'[i].copy.settled PROVE i \in JobGone'
  <2>1. run'[i] # NoRun
    BY <1>2 DEF NoRun, Fresh
  <2>2. CASE run'[i].copy = run[i].copy
    BY <1>0, <1>2, <2>2 DEF SettledInv
  <2>3. ~Begin(i)
    BY <1>2, BeginEff
  <2>4. TakeLocks(i) \/ (\E ok \in BOOLEAN : Made(i, ok)) => run'[i].copy = run[i].copy
    BY <2>1, TakeLocksEff, MadeEff
  <2>5. ASSUME NEW c \in Cmd, Foreground(c), cmd[c].id = i PROVE FALSE
    <3>1. run'[i].copy = cmd[c].copy
      BY <2>5, ForegroundOpens
    <3>2. cmd[c].copy = Fresh
      BY <2>5 DEF Foreground, StagedInv
    <3>. QED BY <1>2, <3>1, <3>2 DEF Fresh
  <2>6. ASSUME NEW j \in Job, JobStarts(j), jobs[j].of = i
        PROVE  run'[i] = run[i] \/ (rec[i] # None /\ rec[i].settled)
    BY <1>2, <2>6, JobOpens
  <2>. QED BY <1>0, <2>1, <2>2, <2>3, <2>4, <2>5, <2>6, RunsStay DEF RunStays, SettledInv
<1>3. ASSUME NEW c \in Cmd, cmd'[c].at = "settling" PROVE cmd'[c].id \in JobGone'
  <2>1. CASE cmd'[c] = cmd[c]
    BY <1>0, <1>3, <2>1 DEF SettledInv
  <2>2. CASE StopEnded(c)
    <3>1. cmd[c].at = "stopping"
      BY <2>2, StopEndedEff
    <3>2. cmd[c].id \in Id
      BY <3>1 DEF NumberInv, AtAttempt, Numbered
    <3>3. cmd[c].copy.job \in Job /\ Stops(cmd[c].copy.job) /\ cmd'[c].id = cmd[c].id
      BY <1>3, <2>2, StopEndedEff DEF Goes
    <3>4. jobs[cmd[c].copy.job].of = cmd[c].id
      BY <3>3, Typed DEF OwnInv, OwnJob
    <3>. QED BY <3>2, <3>3, <3>4 DEF Stops, JobGone
  <2>. QED BY <1>3, <2>1, <2>2, Waits
<1>. QED BY <1>1, <1>2, <1>3 DEF SettledInv

-----------------------------------------------------------------------------
(* What a stop has read of a record still holds when it writes.             *)

LEMMA StopStep ==
  ASSUME TypeOK, NumberInv, OwnInv, StagedInv, RunInv, StopsInPeace, StopInv, [Next]_vars
  PROVE  StopInv'
<1>1. ASSUME NEW c \in Cmd, cmd[c].at \in {"stopping", "marking"}
      PROVE  LET i == cmd[c].id IN
             /\ rec'[i] # None /\ rec'[i].job = cmd[c].copy.job
             /\ i \in Incomplete => i \in Incomplete'
  <2>. DEFINE i == cmd[c].id
  <2>1. i \in Id /\ rec[i] # None /\ rec[i].job = cmd[c].copy.job /\ ~Peace(i)
    BY <1>1 DEF NumberInv, AtAttempt, Numbered, StopInv, Peace
  <2>2. ~NextId(i)
    BY <1>1, <2>1, NextIsFresh
  <2>3. ~Begin(i) /\ ~End(i)
    BY <2>1 DEF Begin, End
  <2>4. \A d \in Cmd : StopMarks(d) /\ cmd[d].id = i => cmd[d].copy.job = rec[i].job
    BY DEF StopMarks, StopInv
  <2>5. rec'[i] # rec[i] =>
          /\ rec'[i] # None /\ rec'[i].job = rec[i].job
          /\ rec'[i].outcome = rec[i].outcome \/ rec'[i].outcome = "failed"
    <3>1. CASE rec'[i] # rec[i]
      <4>1. Rewritten(i)
        BY <2>1, <3>1, RecWrites
      <4>2. rec'[i] # None
        BY <2>1, <2>2, <2>3, <4>1, Wrote DEF Rewritten
      <4>. QED BY <2>1, <2>2, <2>3, <2>4, <4>1, <4>2 DEF Rewritten
    <3>. QED BY <3>1
  <2>. QED BY <2>1, <2>5 DEF Incomplete
<1>2. ASSUME NEW c \in Cmd, cmd'[c].at \in {"stopping", "marking"}
      PROVE  LET i == cmd'[c].id IN
             /\ rec'[i] # None /\ rec'[i].job = cmd'[c].copy.job
             /\ cmd'[c].at = "stopping" /\ cmd'[c].copy.outcome = None => i \in Incomplete'
             /\ cmd'[c].at = "marking" => cmd'[c].copy.outcome = None /\ i \in Incomplete'
  <2>1. CASE cmd'[c] = cmd[c]
    BY <1>1, <1>2, <2>1 DEF StopInv
  <2>2. CASE StopOpens(c)
    <3>1. PICK i \in Ids : Goes(c, "stopping", i, rec[i]) /\ UNCHANGED rec
      BY <2>2, QuietEff
    <3>. QED BY <3>1, BuildAttemptAssumption DEF Goes, Ids, Incomplete
  <2>3. CASE StopLive(c)
    BY <1>1, <2>3, StopLiveEff DEF Goes, StopInv
  <2>. QED BY <1>2, <2>1, <2>2, <2>3, Waits
<1>. QED BY <1>2 DEF StopInv

-----------------------------------------------------------------------------
(* Which jobs the records know.                                             *)

(* Where a record names no job, it did not before: but a new one.           *)
LEMMA NoJobBefore ==
  ASSUME TypeOK, NumberInv, OwnInv, StopsInPeace, StopInv, [Next]_vars,
         NEW i \in Id, rec'[i] # None, rec'[i].job = None
  PROVE  \/ NextId(i) /\ \E c \in Cmd : Create(c)
         \/ rec[i] # None /\ rec[i].job = None /\ \A c \in Cmd : cmd[c].id = i => ~RecordJob(c)
<1>1. ASSUME NEW c \in Cmd, RecordJob(c), cmd[c].id = i PROVE FALSE
  <2>1. rec'[i] = cmd[c].copy
    BY <1>1, RecordJobEff DEF Writes
  <2>. QED BY <1>1, <2>1 DEF RecordJob, OwnInv
<1>2. CASE rec'[i] = rec[i]
  BY <1>1, <1>2
<1>3. CASE rec'[i] # rec[i]
  <2>1. Rewritten(i)
    BY <1>3, RecWrites
  <2>2. \A c \in Cmd : StopMarks(c) /\ cmd[c].id = i => rec[i].job = cmd[c].copy.job
    BY DEF StopMarks, StopInv
  <2>3. Begin(i) \/ End(i) => rec[i] # None /\ rec[i].job = None
    BY BeginEff, EndEff
  <2>. QED BY <1>1, <2>1, <2>2, <2>3 DEF Rewritten
<1>. QED BY <1>2, <1>3

LEMMA KnownStep ==
  ASSUME TypeOK, TypeOK', NumberInv, OwnInv, OwnInv', StagedInv, StopsInPeace, StopInv,
         JobsRecorded, JobsKnown, [Next]_vars
  PROVE  JobsKnown'
<1>. SUFFICES ASSUME NEW j \in Job, jobs'[j].st \in {"queued", "running"},
                     rec'[jobs'[j].of] # None, rec'[jobs'[j].of].job # j
              PROVE  \E c \in Cmd : cmd'[c].at \in {"handoff", "blocking"} /\ cmd'[c].id = jobs'[j].of
  BY DEF JobsKnown, Listed
<1>1. CASE Listed(j)
  <2>. DEFINE i == jobs[j].of
  <2>1. i \in Id /\ jobs'[j].of = i /\ i # None
    <3>1. i \in Id
      BY <1>1 DEF Listed, NumberInv, Numbered
    <3>. QED BY <3>1, OfStays, Typed
  <2>2. rec'[i].job = None
    <3>1. rec'[i].job \in Job \cup {None}
      BY <2>1 DEF TypeOK, Record
    <3>2. rec'[i].job # None => jobs'[rec'[i].job].of = i
      BY <2>1 DEF OwnInv, OwnJob
    <3>. QED BY <2>1, <3>1, <3>2 DEF OwnInv
  <2>3. ~NextId(i)
    BY <2>1, NextIsFresh DEF Jobless
  <2>4. rec[i] # None /\ rec[i].job = None /\ \A c \in Cmd : cmd[c].id = i => ~RecordJob(c)
    BY <2>1, <2>2, <2>3, NoJobBefore
  <2>5. PICK c \in Cmd : cmd[c].at \in {"handoff", "blocking"} /\ cmd[c].id = i
    BY <1>1, <2>4, Typed DEF JobsKnown
  <2>6. ~BlockReturns(c)
    BY <2>4, <2>5 DEF BlockReturns
  <2>7. ~Die(c)
    BY <2>4, <2>5 DEF Die, Starting
  <2>8. cmd'[c] = cmd[c]
    BY <2>4, <2>5, <2>6, <2>7, Leaves
  <2>. QED BY <2>1, <2>5, <2>8
<1>2. CASE ~Listed(j)
  <2>1. PICK c \in Cmd : Submit(c) \/ SubmitBlocking(c)
    BY <1>2, JobsStay DEF JobStays, Listed, TypeOK
  <2>2. PICK k \in Job : /\ jobs'[k].of = cmd[c].id /\ \A l \in Job \ {k} : jobs'[l] = jobs[l]
                         /\ cmd'[c].id = cmd[c].id
                         /\ cmd'[c].at = "handoff" \/ cmd'[c].at = "blocking"
    BY <2>1, SubmitEff
  <2>3. k = j
    BY <1>2, <2>2 DEF Listed
  <2>. QED BY <2>2, <2>3
<1>. QED BY <1>1, <1>2

-----------------------------------------------------------------------------
(* One build is started at a time, and none while another may be made.      *)

LEMMA LatestIsOne ==
  ASSUME NEW i \in Id, NEW k \in Id, Latest(i), Latest(k)
  PROVE  i = k
<1>1. i \in Nat /\ k \in Nat
  BY Typed
<1>2. i <= k /\ k <= i
  BY DEF Latest
<1>. QED BY <1>1, <1>2

(* Who is starting a build now, was, or has just passed the guard.          *)
LEMMA StartersStep ==
  ASSUME TypeOK, NumberInv, OwnInv, StagedInv, StopsInPeace, StopInv, [Next]_vars,
         NEW c \in Starters'
  PROVE  c \in Starters \/ \E force \in BOOLEAN : Guard(c, force)
<1>. DEFINE i == cmd'[c].id
<1>1. c \in Cmd /\ \/ cmd'[c].at \in {"cleared", "staged", "handoff"}
                   \/ cmd'[c].at = "blocking" /\ rec'[i] # None /\ rec'[i].job = None
                   \/ cmd'[c].at = "building" /\ run'[i].at = "opened"
  BY DEF Starters, Starting
<1>2. CASE cmd'[c] # cmd[c]
  <2>1. Create(c) \/ Submit(c) \/ SubmitBlocking(c) \/ Foreground(c) => c \in Starters
    BY <1>1 DEF Create, Submit, SubmitBlocking, Foreground, Starters, Starting
  <2>. QED BY <1>1, <1>2, <2>1, Waits
<1>3. CASE cmd'[c] = cmd[c] /\ cmd[c].at \in {"cleared", "staged", "handoff"}
  BY <1>1, <1>3 DEF Starters, Starting
<1>4. CASE cmd'[c] = cmd[c] /\ cmd[c].at = "blocking"
  <2>1. i \in Id /\ ~NextId(i)
    <3>1. i \in Id
      BY <1>1, <1>4 DEF NumberInv, AtAttempt, Numbered
    <3>. QED BY <1>1, <1>4, <3>1, NextIsFresh DEF AtAttempt
  <2>2. rec[i] # None /\ rec[i].job = None
    BY <1>1, <1>4, <2>1, NoJobBefore
  <2>. QED BY <1>1, <1>4, <2>2 DEF Starters, Starting
<1>5. CASE cmd'[c] = cmd[c] /\ cmd[c].at = "building"
  <2>1. i \in Id /\ i \in Jobless
    BY <1>1, <1>5 DEF NumberInv, AtAttempt, Numbered, StagedInv
  <2>2. ASSUME NEW d \in Cmd, Foreground(d), cmd[d].id = i PROVE FALSE
    <3>1. cmd[d].at = "staged" /\ cmd'[d] # cmd[d]
      BY <2>1, <2>2, ForegroundEff DEF Goes
    <3>. QED BY <1>1, <1>5, <2>2, <3>1 DEF StagedInv
  <2>3. run'[i] = run[i]
    BY <1>1, <1>5, <2>1, <2>2, RunsStay, BeginEff, TakeLocksEff, MadeEff
       DEF RunStays, RunGoes, NoRun, Jobless
  <2>. QED BY <1>1, <1>5, <2>3 DEF Starters, Starting
<1>. QED BY <1>1, <1>2, <1>3, <1>4, <1>5

(* What keeps a build from being started comes from who starts one.         *)
LEMMA BusyStep ==
  ASSUME TypeOK, NumberInv, OwnInv, [Next]_vars, NEW i \in Busy'
  PROVE  \/ i \in Busy
         \/ \E c \in Cmd : (Submit(c) \/ SubmitBlocking(c) \/ Foreground(c)) /\ cmd[c].id = i
<1>1. i \in Id /\ \/ \E j \in Job : jobs'[j].of = i /\ jobs'[j].st \in {"queued", "running"}
                  \/ run'[i].by \in Cmd /\ run'[i].at \in {"opened", "locked", "making"}
  BY DEF Busy, Listed
<1>2. ASSUME NEW j \in Job, jobs'[j].of = i, jobs'[j].st \in {"queued", "running"}
      PROVE  \/ i \in Busy
             \/ \E c \in Cmd : (Submit(c) \/ SubmitBlocking(c)) /\ cmd[c].id = i
  <2>1. CASE \A c \in Cmd : ~Submit(c) /\ ~SubmitBlocking(c)
    <3>1. jobs[j].of = i
      BY <1>2, <2>1, JobsStay DEF JobStays
    <3>2. jobs[j].st \in {"queued", "running"}
      BY <1>2, <2>1, JobsStay DEF JobStays, JobStarts
    <3>. QED BY <1>1, <3>1, <3>2 DEF Busy, Listed
  <2>2. ASSUME NEW c \in Cmd, Submit(c) \/ SubmitBlocking(c)
        PROVE  i \in Busy \/ cmd[c].id = i
    <3>1. PICK k \in Job : jobs'[k].of = cmd[c].id /\ \A l \in Job \ {k} : jobs'[l] = jobs[l]
      BY <2>2, SubmitEff
    <3>2. CASE j = k
      BY <1>2, <3>1, <3>2
    <3>3. CASE j # k
      BY <1>1, <1>2, <3>1, <3>3 DEF Busy, Listed
    <3>. QED BY <3>2, <3>3
  <2>. QED BY <2>1, <2>2
<1>3. ASSUME run'[i].by \in Cmd, run'[i].at \in {"opened", "locked", "making"}
      PROVE  i \in Busy \/ \E c \in Cmd : Foreground(c) /\ cmd[c].id = i
  <2>1. CASE run'[i] = run[i]
    BY <1>1, <1>3, <2>1 DEF Busy
  <2>2. CASE Begin(i) \/ TakeLocks(i) \/ \E ok \in BOOLEAN : Made(i, ok)
    BY <1>1, <1>3, <2>2, BeginEff, TakeLocksEff, MadeEff DEF Busy, RunGoes, NoRun
  <2>3. ASSUME NEW j \in Job, JobStarts(j), jobs[j].of = i PROVE run'[i] = run[i]
    BY <1>1, <1>3, <2>3, JobOpens, Typed
  <2>. QED BY <1>1, <1>3, <2>1, <2>2, <2>3, RunsStay DEF RunStays, NoRun
<1>. QED BY <1>1, <1>2, <1>3

(* Only the next attempt makes the latest one not the latest.               *)
LEMMA LatestStays ==
  ASSUME TypeOK, NumberInv, OwnInv, [Next]_vars,
         \A c \in Cmd : cmd[c].at = "handoff" => Latest(cmd[c].id),
         \A c \in Cmd : ~Create(c),
         NEW i \in Id, Latest(i)
  PROVE  Latest(i)'
<1>1. i \in Ids'
  BY Wrote DEF Latest, Ids
<1>2. ASSUME NEW k \in Ids' PROVE k \in Ids
  <2>1. k \in Id /\ rec'[k] # None
    BY <1>2 DEF Ids
  <2>2. CASE rec'[k] = rec[k]
    BY <2>1, <2>2 DEF Ids
  <2>3. CASE rec'[k] # rec[k]
    <3>1. Rewritten(k)
      BY <2>1, <2>3, RecWrites
    <3>2. \A c \in Cmd : RecordJob(c) /\ cmd[c].id = k => k \in Ids
      BY DEF RecordJob, Latest
    <3>3. \A c \in Cmd : Callback(c) /\ cmd[c].id = k => rec[k] # None
      BY DEF Callback
    <3>4. Begin(k) \/ End(k) => rec[k] # None
      BY <2>1, BeginEff, EndEff
    <3>. QED BY <2>1, <3>1, <3>2, <3>3, <3>4 DEF Rewritten, Ids
  <2>. QED BY <2>2, <2>3
<1>. QED BY <1>1, <1>2 DEF Latest

(* After the guard nothing keeps a build from being started: it asked about *)
(* the only attempt that might, and that one's record knows its job.        *)
LEMMA GuardClears ==
  ASSUME TypeOK, NumberInv, OwnInv, RunInv, SettledInv, JobsKnown, StartsApart, [Next]_vars,
         \A i \in Busy : Latest(i),
         NEW c \in Cmd, NEW force \in BOOLEAN, Guard(c, force)
  PROVE  Busy' = {}
<1>. SUFFICES ASSUME NEW i \in Busy'
              PROVE  FALSE
  OBVIOUS
<1>1. \A d \in Cmd : ~Starting(d)
  BY DEF Guard, Alone
<1>2. i \in Busy
  <2>1. ASSUME NEW d \in Cmd, Submit(d) \/ SubmitBlocking(d) \/ Foreground(d) PROVE FALSE
    BY <1>1, <2>1 DEF Submit, SubmitBlocking, Foreground, Starting
  <2>. QED BY <2>1, BusyStep
<1>3. i \in Id /\ i \in Ids /\ Latest(i) /\ rec[i] # None
  BY <1>2 DEF Busy, Latest, Ids
<1>4. \/ ~LockLive(i) /\ ~AskedJob(rec[i]) /\ UNCHANGED <<jobs, run>>
      \/ ~LockLive(i) /\ rec[i].job \in Job /\ ~Listed(rec[i].job) /\ UNCHANGED <<jobs, run>>
      \/ ~LockLive(i) /\ rec[i].job \in Job /\ Stops(rec[i].job)
  BY <1>3, GuardEff
<1>5. ASSUME NEW j \in Job, jobs'[j].of = i, jobs'[j].st \in {"queued", "running"}
      PROVE  FALSE
  <2>1. jobs[j].of = i /\ Listed(j)
    <3>1. \A d \in Cmd : ~Submit(d) /\ ~SubmitBlocking(d)
      BY <1>1 DEF Submit, SubmitBlocking, Starting
    <3>. QED BY <1>5, <3>1, JobsStay DEF JobStays, JobStarts, Listed
  <2>2. rec[i].job = j
    <3>1. CASE rec[i].job = None
      BY <1>1, <1>3, <2>1, <3>1, Typed DEF JobsKnown, Starting
    <3>2. CASE rec[i].job # None
      BY <1>3, <2>1, <3>2, JobTyped, Typed DEF OwnInv, OwnJob
    <3>. QED BY <3>1, <3>2
  <2>3. AskedJob(rec[i])
    <3>1. rec[i].settled => \E k \in Job : jobs[k].of = i /\ jobs[k].st = "gone"
      BY <1>3 DEF SettledInv, JobGone
    <3>2. ~rec[i].settled
      BY <1>3, <2>1, <3>1, Typed DEF OwnInv, Listed
    <3>. QED BY <2>2, <3>2, Typed DEF AskedJob
  <2>. QED BY <1>4, <1>5, <2>1, <2>2, <2>3 DEF Stops
<1>6. ASSUME run'[i].by \in Cmd, run'[i].at \in {"opened", "locked", "making"}
      PROVE  FALSE
  <2>1. run'[i] = run[i]
    BY <1>3, <1>4, <1>6, Typed DEF Stops, NoRun
  <2>2. run[i].at = "opened"
    BY <1>4, <1>6, <2>1 DEF LockLive
  <2>3. Starting(run[i].by)
    BY <1>3, <1>6, <2>1, <2>2 DEF RunInv, Starting
  <2>. QED BY <1>1, <1>6, <2>1, <2>3
<1>. QED BY <1>5, <1>6 DEF Busy, Listed

LEMMA StartStep ==
  ASSUME TypeOK, NumberInv, OwnInv, StagedInv, RunInv, SettledInv, StopsInPeace, StopInv,
         JobsRecorded, JobsKnown, StartsApart, StartInv, [Next]_vars
  PROVE  StartInv'
<1>1. ASSUME NEW c \in Starters', NEW d \in Starters' PROVE c = d
  <2>0. c \in Cmd /\ d \in Cmd
    BY DEF Starters
  <2>1. CASE c \in Starters /\ d \in Starters
    BY <2>1 DEF StartInv
  <2>2. ASSUME NEW e \in Cmd, NEW force \in BOOLEAN, Guard(e, force)
        PROVE  \A b \in Starters' : b = e
    <3>1. ASSUME NEW b \in Starters' PROVE b = e
      <4>1. b \in Cmd /\ b \notin Starters
        BY <2>2 DEF Guard, Alone, Starters
      <4>2. PICK f \in BOOLEAN : Guard(b, f)
        BY <4>1, StartersStep
      <4>. QED BY <2>2, <4>1, <4>2, GuardEff DEF Goes
    <3>. QED BY <3>1
  <2>. QED BY <2>0, <2>1, <2>2, StartersStep
<1>2. ASSUME NEW c \in Cmd, Create(c) PROVE Busy' = {}
  <2>1. cmd[c].at = "cleared" /\ UNCHANGED <<jobs, run>>
    BY <1>2, CreateEff
  <2>. QED BY <2>1 DEF StartInv, Busy, Listed
<1>3. ASSUME NEW c \in Cmd, Submit(c) \/ SubmitBlocking(c) \/ Foreground(c)
      PROVE  /\ cmd[c].at = "staged" /\ Latest(cmd[c].id) /\ c \in Starters /\ cmd'[c].at # "staged"
             /\ \A d \in Cmd : ~Create(d)
  <2>1. cmd[c].at = "staged" /\ Latest(cmd[c].id) /\ c \in Starters
    BY <1>3 DEF Submit, SubmitBlocking, Foreground, StartInv, Starters, Starting
  <2>2. cmd[c].id \in Id
    BY <2>1 DEF Latest, Ids
  <2>3. cmd'[c].at # "staged"
    BY <1>3, <2>2, SubmitEff, ForegroundEff DEF Goes
  <2>4. ASSUME NEW d \in Cmd, Create(d) PROVE FALSE
    BY <2>1, <2>4 DEF Create, StartInv, Starters, Starting
  <2>. QED BY <2>1, <2>3, <2>4
<1>4. ASSUME NEW i \in Id, Latest(i), \A c \in Cmd : ~Create(c) PROVE Latest(i)'
  BY <1>4, LatestStays DEF StartInv
<1>5. ASSUME NEW i \in Busy' PROVE Latest(i)'
  <2>0. i \in Id
    BY DEF Busy
  <2>1. \A c \in Cmd : ~Create(c)
    BY <1>2
  <2>2. Latest(i)
    BY <1>3, BusyStep DEF StartInv
  <2>. QED BY <1>4, <2>0, <2>1, <2>2
<1>6. ASSUME NEW c \in Cmd, cmd'[c].at \in {"cleared", "staged"} PROVE Busy' = {}
  <2>1. CASE cmd'[c] = cmd[c]
    <3>1. Busy = {} /\ c \in Starters
      BY <1>6, <2>1 DEF StartInv, Starters, Starting
    <3>2. ASSUME NEW d \in Cmd, Submit(d) \/ SubmitBlocking(d) \/ Foreground(d) PROVE FALSE
      <4>1. d = c
        BY <1>3, <3>1, <3>2 DEF StartInv
      <4>. QED BY <1>3, <2>1, <3>2, <4>1
    <3>. QED BY <3>1, <3>2, BusyStep
  <2>2. ASSUME NEW force \in BOOLEAN, Guard(c, force) PROVE Busy' = {}
    BY <2>2, GuardClears DEF StartInv
  <2>. QED BY <1>2, <1>6, <2>1, <2>2, Waits
<1>7. ASSUME NEW c \in Cmd, cmd'[c].at \in {"staged", "handoff"}
      PROVE  cmd'[c].id \in Ids' /\ \A k \in Ids' : k <= cmd'[c].id
  <2>1. ASSUME cmd[c].at \in {"staged", "handoff"}, cmd'[c].id = cmd[c].id,
               \A d \in Cmd : ~Create(d)
        PROVE  cmd'[c].id \in Ids' /\ \A k \in Ids' : k <= cmd'[c].id
    <3>1. cmd[c].id \in Id /\ Latest(cmd[c].id)
      BY <2>1 DEF StartInv, Latest, Ids
    <3>2. cmd[c].id \in Ids' /\ \A k \in Ids' : k <= cmd[c].id
      BY <1>4, <2>1, <3>1 DEF Latest
    <3>. QED BY <2>1, <3>2
  <2>2. CASE cmd'[c] = cmd[c]
    <3>1. c \in Starters /\ cmd[c].at # "cleared"
      BY <1>7, <2>2 DEF Starters, Starting
    <3>2. ASSUME NEW d \in Cmd, Create(d) PROVE FALSE
      BY <3>1, <3>2 DEF Create, StartInv, Starters, Starting
    <3>. QED BY <1>7, <2>1, <2>2, <3>2
  <2>3. CASE Submit(c)
    <3>1. cmd'[c].id = cmd[c].id
      BY <2>3, SubmitEff
    <3>. QED BY <1>3, <2>1, <2>3, <3>1
  <2>4. CASE Create(c)
    <3>1. PICK i \in Id : NextId(i) /\ Writes(i, Fresh) /\ Goes(c, "staged", i, Fresh)
      BY <2>4, CreateEff
    <3>2. i \in Ids' /\ \A k \in Ids' : k = i \/ k \in Ids
      BY <3>1, Typed DEF Writes, Ids
    <3>3. \A k \in Ids : k <= i
      BY <3>1, NextIsLast
    <3>4. i <= i
      BY Typed
    <3>. QED BY <3>1, <3>2, <3>3, <3>4 DEF Goes
  <2>. QED BY <1>7, <2>2, <2>3, <2>4, Waits
<1>. QED BY <1>1, <1>5, <1>6, <1>7 DEF StartInv, Latest

-----------------------------------------------------------------------------
(* The invariant.                                                           *)

LEMMA InitAttemptInv ==
  ASSUME Init
  PROVE  AttemptInv
<1>1. /\ \A i \in Id : rec[i] = None /\ run[i] = NoRun
      /\ \A j \in Job : jobs[j].of = None /\ jobs[j].st = "none"
      /\ \A c \in Cmd : cmd[c] = Idle
  BY DEF Init
<1>2. Idle.at = "idle" /\ Idle.id = None /\ Idle.copy = Fresh
  BY DEF Idle
<1>3. NoRun.at = "none" /\ NoRun.by = None /\ NoRun.copy = Fresh
  BY DEF NoRun
<1>4. Fresh.job = None /\ Fresh.outcome = None /\ ~Fresh.settled
  BY DEF Fresh
<1>5. TypeOK
  BY Typed, ConstantsTyped, BuildAttemptAssumption DEF Init, TypeOK, RunType, CmdType, CmdSteps
<1>6. NumberInv
  BY <1>1, <1>2, <1>3 DEF NumberInv, AtAttempt
<1>7. OwnInv
  BY <1>1, <1>2, <1>3, <1>4 DEF OwnInv, OwnJob
<1>8. StagedInv /\ StopInv
  BY <1>1, <1>2 DEF StagedInv, StopInv
<1>9. RunInv
  BY <1>1, <1>3, Typed DEF RunInv
<1>10. SettledInv
  BY <1>1, <1>2, <1>3, <1>4 DEF SettledInv
<1>11. JobsKnown
  BY <1>1 DEF JobsKnown, Listed
<1>12. Busy = {} /\ Starters = {}
  BY <1>1, <1>2, <1>3, Typed DEF Busy, Starters, Starting, Listed
<1>13. StartInv
  BY <1>1, <1>2, <1>12 DEF StartInv
<1>. QED BY <1>5, <1>6, <1>7, <1>8, <1>9, <1>10, <1>11, <1>13 DEF AttemptInv

LEMMA AttemptStep ==
  ASSUME AttemptInv, [Next]_vars
  PROVE  AttemptInv'
<1>1. TypeOK /\ NumberInv /\ OwnInv /\ StagedInv /\ RunInv /\ SettledInv
  BY DEF AttemptInv
<1>2. TypeOK'
  BY <1>1, TypeStep
<1>3. NumberInv' /\ StagedInv' /\ RunInv' /\ SettledInv'
  BY <1>1, NumberStep, StagedStep, RunStep, SettledStep
<1>4. OwnInv'
  BY <1>1, <1>2, OwnStep
<1>5. StopsInPeace => StopInv'
  BY <1>1, StopStep DEF AttemptInv
<1>6. StopsInPeace /\ JobsRecorded => JobsKnown'
  BY <1>1, <1>2, <1>4, KnownStep DEF AttemptInv
<1>7. StopsInPeace /\ JobsRecorded /\ StartsApart => StartInv'
  BY <1>1, StartStep DEF AttemptInv
<1>. QED BY <1>2, <1>3, <1>4, <1>5, <1>6, <1>7 DEF AttemptInv

(* In every state the attempts, jobs, processes and terminals fit together. *)
THEOREM AttemptInvHolds == Spec => []AttemptInv
<1>1. Init => AttemptInv
  BY InitAttemptInv
<1>2. AttemptInv /\ [Next]_vars => AttemptInv'
  BY AttemptStep
<1>. QED BY <1>1, <1>2, PTL DEF Spec

(* Every variable keeps its type.                                           *)
THEOREM TypesHold == Spec => []TypeOK
<1>1. AttemptInv => TypeOK
  BY DEF AttemptInv
<1>. QED BY <1>1, AttemptInvHolds, PTL

(* As long as the attempt exists, a job the scheduler still has is recorded *)
(* or about to be: provided that no command dies between submitting it and  *)
(* recording it, and that nobody writes a record while a stop has a copy.   *)
THEOREM JobsKnownHolds ==
  ASSUME StopsInPeace, JobsRecorded
  PROVE  Spec => []JobsKnown
<1>1. AttemptInv => JobsKnown
  BY DEF AttemptInv
<1>. QED BY <1>1, AttemptInvHolds, PTL

(* If moreover no two builds are started at the same time, builds of one    *)
(* config never chain, however often the scheduler queues a job again and   *)
(* however many of its queries fail.                                        *)
THEOREM NeverChainHolds ==
  ASSUME StopsInPeace, JobsRecorded, StartsApart
  PROVE  Spec => []NeverChain
<1>1. ASSUME AttemptInv PROVE NeverChain
  <2>1. ASSUME NEW i \in Id, Working(i) PROVE Latest(i)
    <3>1. CASE \E j \in Job : jobs[j].of = i /\ jobs[j].st = "queued"
      BY <1>1, <2>1, <3>1 DEF Busy, Listed, AttemptInv, StartInv
    <3>2. CASE run[i].at \in {"opened", "locked", "making"}
      <4>1. run[i].by \in Cmd \cup {"job"}
        BY <1>1, <3>2 DEF AttemptInv, RunInv, TypeOK
      <4>2. run[i].by = "job" => \E j \in Job : jobs[j].of = i /\ jobs[j].st = "running"
        BY <1>1 DEF AttemptInv, RunInv
      <4>3. i \in Busy
        BY <3>2, <4>1, <4>2 DEF Busy, Listed
      <4>. QED BY <1>1, <4>3 DEF AttemptInv, StartInv
    <3>. QED BY <2>1, <3>1, <3>2 DEF Working
  <2>. QED BY <2>1, LatestIsOne DEF NeverChain
<1>. QED BY <1>1, AttemptInvHolds, PTL

(* A recorded success stays until the attempt is built once more or pruned: *)
(* what the submitter, the process and a stop hold copies of is written     *)
(* back only where there is none yet.                                       *)
THEOREM OutcomeKeptHolds ==
  ASSUME StopsInPeace
  PROVE  Spec => OutcomeKept
<1>1. ASSUME AttemptInv, [Next]_vars,
             NEW i \in Id, rec[i] # None, rec'[i] # None, rec[i].outcome = "complete"
      PROVE  rec'[i].outcome = "complete" \/ run'[i].at = "making"
  <2>1. TypeOK /\ NumberInv /\ OwnInv /\ StagedInv /\ RunInv /\ StopInv
    BY <1>1 DEF AttemptInv
  <2>2. i \notin Incomplete
    BY <1>1 DEF Incomplete
  <2>3. CASE rec'[i] = rec[i]
    BY <1>1, <2>3
  <2>4. CASE rec'[i] # rec[i]
    <3>1. Rewritten(i)
      BY <1>1, <2>1, <2>4, RecWrites
    <3>2. ~NextId(i)
      BY <1>1, <2>1, NextIsFresh
    <3>3. \A c \in Cmd : cmd[c].id = i => ~RecordJob(c) /\ ~StopMarks(c)
      BY <2>1, <2>2 DEF RecordJob, StopMarks, StagedInv, StopInv
    <3>4. Begin(i) => run'[i].at = "making"
      BY <2>1, BeginEff DEF RunGoes
    <3>5. ~End(i)
      BY <2>1, <2>2 DEF End, RunInv
    <3>. QED BY <1>1, <3>1, <3>2, <3>3, <3>4, <3>5 DEF Rewritten
  <2>. QED BY <2>3, <2>4
<1>2. AttemptInv /\ [Next]_vars =>
        [\A i \in Id : rec[i] # None /\ rec'[i] # None /\ rec[i].outcome = "complete" =>
             rec'[i].outcome = "complete" \/ run'[i].at = "making"]_vars
  BY <1>1
<1>. QED BY <1>2, AttemptInvHolds, PTL DEF Spec, OutcomeKept
=============================================================================
