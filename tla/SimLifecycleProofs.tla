-------------------------- MODULE SimLifecycleProofs --------------------------
(***************************************************************************)
(* SimLifecycle proved for any number of restarts, segments, requeues and   *)
(* failing queries, whichever commands are typed and whatever the user is   *)
(* taken to do: the types, the one active restart, and the jobs on record.  *)
(***************************************************************************)
EXTENDS SimLifecycle, FiniteSetTheorems, WellFoundedInduction, TLAPS

(* What the proofs use of the sets the records are made of. *)
LEMMA Typed ==
  /\ NoMeta \in Meta
  /\ NoCmd \in Cmd
  /\ MaxRestarts \in Nat \ {0} /\ Segments \in Nat \ {0}
  /\ MaxRequeues \in Nat /\ MaxFails \in Nat
  /\ Id \subseteq Nat
BY Constants DEF NoMeta, Meta, NoCmd, Cmd, CmdSteps, Id

LEMMA Steps ==
  \A step \in {"idle", "reap", "unlink", "mark", "decide", "prepare", "activate",
               "launch", "queue", "record", "stop", "await", "finish",
               "deactivate", "live", "remove"} : step \in CmdSteps
BY DEF CmdSteps

(* A set of ids that is not empty has a greatest one: the newest restart. *)
Less == {ss \in Nat \X Nat : ss[1] < ss[2]}
LEMMA LessWF == IsWellFoundedOn(Less, Nat)
<1>1. Less = OpToRel(<, Nat)
  BY Zenon DEF Less, OpToRel
<1>. QED BY <1>1, NatLessThanWellFounded

LEMMA NatMin ==
  ASSUME NEW T \in SUBSET Nat, T # {}
  PROVE  \E x \in T : \A y \in T : x <= y
<1>1. PICK x \in T : \A y \in T : ~(<<y, x>> \in Less)
  BY LessWF, WFMin
<1>2. ASSUME NEW y \in T PROVE x <= y
  <2>1. x \in Nat /\ y \in Nat
    OBVIOUS
  <2>2. ~(y < x)
    <3>1. <<y, x>> \notin Less
      BY <1>1
    <3>2. y < x => <<y, x>> \in Less
      BY <2>1 DEF Less
    <3>. QED BY <3>1, <3>2
  <2>. QED BY <2>1, <2>2
<1>. QED BY <1>2

LEMMA BoundedMax ==
  ASSUME NEW n \in Nat, NEW S \in SUBSET (0 .. n), S # {}
  PROVE  \E x \in S : \A y \in S : y <= x
<1>. DEFINE T == {n - x : x \in S}
<1>1. T \in SUBSET Nat /\ T # {}
  <2>1. \A x \in S : n - x \in Nat /\ n - x \in T
    OBVIOUS
  <2>2. \A t \in T : t \in Nat
    OBVIOUS
  <2>. QED BY <2>1, <2>2
<1>. HIDE DEF T
<1>2. PICK m \in T : \A y \in T : m <= y
  BY <1>1, NatMin
<1>3. PICK x \in S : m = n - x
  BY <1>2 DEF T
<1>4. ASSUME NEW y \in S PROVE y <= x
  <2>1. n - y \in T
    BY DEF T
  <2>2. n - x <= n - y
    BY <2>1, <1>2, <1>3
  <2>3. x \in Int /\ y \in Int
    OBVIOUS
  <2>. QED BY <2>2, <2>3
<1>. QED BY <1>3, <1>4

LEMMA Newest ==
  ASSUME Ended # {}
  PROVE  /\ NewestEnded \in Ended /\ NewestEnded \in Id
         /\ \A i \in Ended : i <= NewestEnded
<1>1. Ended \in SUBSET (0 .. MaxRestarts - 1) /\ MaxRestarts - 1 \in Nat
  BY Typed DEF Ended, Made, Id
<1>2. \E i \in Ended : \A j \in Ended : j <= i
  BY <1>1, BoundedMax
<1>. QED BY <1>1, <1>2 DEF NewestEnded, Id

(* A failed query is counted while the bound has room. *)
LEMMA CountTyped ==
  ASSUME TypeOK, NEW i, NEW answer \in Answers(i) \cup EndedAnswers(i) \cup {"unasked"},
         Count(answer)
  PROVE  fails' \in 0 .. MaxFails
<1>. USE Constants
<1>1. CASE answer \in Fails
  <2>1. answer \notin {"listed", "over", "unasked"}
    BY <1>1
  <2>2. fails < MaxFails
    BY <1>1, <2>1 DEF Answers, EndedAnswers
  <2>. QED BY <1>1, <2>2 DEF TypeOK, Count
<1>2. CASE answer \notin Fails
  BY <1>2 DEF TypeOK, Count
<1>. QED BY <1>1, <1>2

(* The command's record after a step. *)
LEMMA OverTyped ==
  ASSUME Over
  PROVE  cmd' \in Cmd /\ CmdInv'
BY Typed DEF Over, NoCmd, CmdInv

LEMMA GotoTyped ==
  ASSUME TypeOK, CmdInv, NEW step \in CmdSteps, Goto(step),
         step \in {"mark", "activate", "launch", "queue", "record", "await", "finish"}
           => cmd.cur \in Id,
         step \in {"reap", "decide", "prepare", "activate", "launch", "queue", "record"}
           => cmd.then # "idle"
  PROVE  /\ cmd' \in Cmd /\ CmdInv'
         /\ cmd'.at = step /\ cmd'.cur = cmd.cur /\ cmd'.op = cmd.op
<1>1. cmd \in Cmd
  BY DEF TypeOK
<1>2. /\ cmd' = [cmd EXCEPT !.at = step]
      /\ cmd'.at = step /\ cmd'.cur = cmd.cur /\ cmd'.op = cmd.op
      /\ cmd'.then = cmd.then /\ cmd'.left = cmd.left
  BY <1>1 DEF Goto, Cmd
<1>3. cmd' \in Cmd
  BY <1>1, <1>2 DEF Cmd
<1>. QED BY <1>2, <1>3 DEF CmdInv

(* A step that leaves the records, the jobs and the processes alone. *)
LEMMA OnlyCmd ==
  ASSUME TypeOK, cmd' \in Cmd, fails' \in 0 .. MaxFails,
         UNCHANGED <<recVars, jobVars, runVars, gone>>
  PROVE  TypeOK'
BY DEF TypeOK, recVars, jobVars, runVars

(* The steps of the commands keep the types and what a command carries. *)
LEMMA BeginTyped ==
  ASSUME TypeOK, CmdInv, NEW op \in Ops, Begin(op)
  PROVE  TypeOK' /\ CmdInv'
<1>1. PICK force \in BOOLEAN, left \in 1 .. Segments :
        cmd' = [NoCmd EXCEPT
            !.op = op, !.force = force, !.first = TRUE,
            !.left = IF op \in {"submit", "run"} THEN left ELSE 0,
            !.at = CASE op \in {"submit", "run"} -> "reap"
                     [] op = "clean"  -> "unlink"
                     [] op = "stop"   -> "stop"
                     [] op = "delete" -> "live",
            !.then = IF op \in {"submit", "run"} THEN "decide" ELSE "idle"]
  BY DEF Begin
<1>2. cmd' \in Cmd /\ CmdInv'
  <2>1. CASE op \in {"submit", "run"}
    <3>1. cmd' = [op |-> op, force |-> force, at |-> "reap", then |-> "decide",
                  left |-> left, prev |-> None, first |-> TRUE, cur |-> None]
      BY <1>1, <2>1 DEF NoCmd
    <3>. QED BY <3>1, Typed, Steps DEF Cmd, CmdInv
  <2>2. CASE op \in {"clean", "stop", "delete"}
    <3>1. \E at \in {"unlink", "stop", "live"} :
            cmd' = [op |-> op, force |-> force, at |-> at, then |-> "idle",
                    left |-> 0, prev |-> None, first |-> TRUE, cur |-> None]
      BY <1>1, <2>2 DEF NoCmd
    <3>. QED BY <3>1, Typed, Steps DEF Cmd, CmdInv
  <2>. QED BY <2>1, <2>2 DEF Ops
<1>. QED BY <1>2, OnlyCmd DEF Begin, TypeOK

LEMMA ReapTyped ==
  ASSUME TypeOK, CmdInv, Reap
  PROVE  TypeOK' /\ CmdInv'
<1>1. fails' \in 0 .. MaxFails
  BY CountTyped DEF Reap, TypeOK
<1>2. Over \/ Goto("decide") \/ Goto("unlink")
  BY DEF Reap
<1>3. cmd' \in Cmd /\ CmdInv'
  BY <1>2, OverTyped, GotoTyped, Steps DEF Reap, CmdInv
<1>. QED BY <1>1, <1>3, OnlyCmd DEF Reap

LEMMA UnlinkTyped ==
  ASSUME TypeOK, CmdInv, Unlink
  PROVE  TypeOK' /\ CmdInv'
<1>1. CASE links = {} /\ Goto(cmd.then) /\ UNCHANGED links
  <2>1. cmd.then \in CmdSteps /\ cmd.then \in {"idle", "decide", "prepare"}
    BY Steps DEF CmdInv
  <2>2. cmd' \in Cmd /\ CmdInv'
    BY <1>1, <2>1, GotoTyped
  <2>. QED BY <1>1, <2>2, OnlyCmd DEF Unlink, TypeOK, recVars
<1>2. ASSUME NEW i \in links,
             links' = links \ {i},
             cmd' = [cmd EXCEPT !.at = "mark", !.cur = i]
      PROVE  TypeOK' /\ CmdInv'
  <2>1. i \in Id /\ cmd \in Cmd
    BY DEF TypeOK
  <2>2. cmd' \in Cmd /\ CmdInv'
    BY <1>2, <2>1, Steps DEF Cmd, CmdInv
  <2>. QED BY <1>2, <2>2 DEF Unlink, TypeOK, jobVars, runVars
<1>. QED BY <1>1, <1>2 DEF Unlink

LEMMA MarkTyped ==
  ASSUME TypeOK, CmdInv, Mark
  PROVE  TypeOK' /\ CmdInv'
<1>1. cmd.cur \in Id /\ cmd \in Cmd
  BY DEF Mark, CmdInv, TypeOK
<1>2. meta' \in [Id -> Meta]
  <2>1. meta[cmd.cur] \in Meta
    BY <1>1 DEF TypeOK
  <2>2. [meta[cmd.cur] EXCEPT !.ended = TRUE,
                              !.settled = meta[cmd.cur].ended /\ @] \in Meta
    BY <2>1 DEF Meta
  <2>3. meta' = [meta EXCEPT ![cmd.cur] =
                   [meta[cmd.cur] EXCEPT !.ended = TRUE,
                                         !.settled = meta[cmd.cur].ended /\ @]]
    BY <1>1 DEF Mark, TypeOK
  <2>. QED BY <2>2, <2>3 DEF TypeOK
<1>3. cmd' \in Cmd /\ CmdInv'
  <2>1. CASE cmd.then = "idle"
    BY <2>1, OverTyped DEF Mark, Cleaned, Over
  <2>2. CASE cmd.then # "idle"
    BY <2>2, <1>1, Steps DEF Mark, Cleaned, Cmd, CmdInv
  <2>. QED BY <2>1, <2>2
<1>. QED BY <1>2, <1>3 DEF Mark, TypeOK, jobVars, runVars

(* Where a submission or a run goes from "decide". *)
LEMMA DecidedTyped ==
  ASSUME TypeOK, CmdInv, cmd.at = "decide",
         Over \/ Unchained \/ CleanFirst \/ \E i \in Id : ChainBehind(i)
  PROVE  cmd' \in Cmd /\ CmdInv'
<1>1. cmd \in Cmd /\ cmd.then # "idle"
  BY DEF TypeOK, CmdInv
<1>2. CASE Over
  BY <1>2, OverTyped
<1>3. CASE Unchained
  BY <1>1, <1>3, GotoTyped, Steps DEF Unchained
<1>4. CASE CleanFirst
  BY <1>1, <1>4, Steps DEF CleanFirst, Cmd, CmdInv
<1>5. ASSUME NEW i \in Id, ChainBehind(i)
      PROVE  cmd' \in Cmd /\ CmdInv'
  BY <1>1, <1>5, Steps DEF ChainBehind, Cmd, CmdInv
<1>. QED BY <1>2, <1>3, <1>4, <1>5

LEMMA SettleTyped ==
  ASSUME TypeOK, NEW i \in Id, Settle(i) \/ UNCHANGED meta
  PROVE  meta' \in [Id -> Meta]
<1>1. meta[i] \in Meta
  BY DEF TypeOK
<1>2. [meta[i] EXCEPT !.settled = TRUE] \in Meta
  BY <1>1 DEF Meta
<1>. QED BY <1>2 DEF TypeOK, Settle

LEMMA StopTyped ==
  ASSUME TypeOK, NEW js \in SUBSET Id, StopJobs(js) \/ UNCHANGED doomed
  PROVE  doomed' \subseteq Id
BY DEF TypeOK, StopJobs

(* What the deciding steps do to everything but the command. *)
LEMMA DecidingTyped ==
  ASSUME TypeOK, cmd' \in Cmd, fails' \in 0 .. MaxFails,
         meta' \in [Id -> Meta], doomed' \subseteq Id,
         UNCHANGED <<chained, links, queue, requeues, runVars, gone>>
  PROVE  TypeOK'
BY DEF TypeOK, runVars

LEMMA DecideSubmitTyped ==
  ASSUME TypeOK, CmdInv, DecideSubmit
  PROVE  TypeOK' /\ CmdInv'
<1>1. CASE links = {} /\ DecideInactive
  <2>1. CASE Ended = {}
    BY <1>1, <2>1, DecidedTyped, DecidingTyped DEF DecideSubmit, DecideInactive, TypeOK
  <2>2. CASE Ended # {}
    <3>1. NewestEnded \in Id
      BY <2>2, Newest
    <3>2. fails' \in 0 .. MaxFails
      BY <1>1, <2>2, CountTyped DEF DecideInactive
    <3>3. Over \/ Unchained \/ ChainBehind(NewestEnded)
      BY <1>1, <2>2 DEF DecideInactive
    <3>4. /\ Settle(NewestEnded) \/ UNCHANGED meta
          /\ StopJobs({NewestEnded}) \/ UNCHANGED doomed
      BY <1>1, <2>2 DEF DecideInactive
    <3>5. meta' \in [Id -> Meta] /\ doomed' \subseteq Id
      BY <3>1, <3>4, SettleTyped, StopTyped
    <3>. QED BY <3>1, <3>2, <3>3, <3>5, DecidedTyped, DecidingTyped DEF DecideSubmit
  <2>. QED BY <2>1, <2>2
<1>2. ASSUME NEW i \in links,
             \/ Over /\ UNCHANGED <<fails, meta, doomed>>
             \/ ChainBehind(i) /\ UNCHANGED <<fails, meta, doomed>>
             \/ DecideEnded(i)
      PROVE  TypeOK' /\ CmdInv'
  <2>1. i \in Id
    BY DEF TypeOK
  <2>2. CASE (Over \/ ChainBehind(i)) /\ UNCHANGED <<fails, meta, doomed>>
    BY <2>1, <2>2, DecidedTyped, DecidingTyped DEF DecideSubmit, TypeOK
  <2>3. CASE DecideEnded(i)
    <3>1. fails' \in 0 .. MaxFails
      BY <2>3, CountTyped DEF DecideEnded
    <3>2. Over \/ CleanFirst \/ ChainBehind(i)
      BY <2>3 DEF DecideEnded
    <3>3. (Settle(i) \/ UNCHANGED meta) /\ (StopJobs({i}) \/ UNCHANGED doomed)
      BY <2>3 DEF DecideEnded
    <3>4. meta' \in [Id -> Meta] /\ doomed' \subseteq Id
      BY <2>1, <3>3, SettleTyped, StopTyped
    <3>. QED BY <2>1, <3>1, <3>2, <3>4, DecidedTyped, DecidingTyped DEF DecideSubmit
  <2>. QED BY <1>2, <2>2, <2>3
<1>. QED BY <1>1, <1>2 DEF DecideSubmit

LEMMA DecideRunTyped ==
  ASSUME TypeOK, CmdInv, DecideRun
  PROVE  TypeOK' /\ CmdInv'
<1>1. CASE Over /\ UNCHANGED <<fails, meta, doomed>>
  BY <1>1, DecidedTyped, DecidingTyped DEF DecideRun, TypeOK
<1>2. ASSUME NEW answer \in IF Ended = {} THEN {"unasked"} ELSE EndedAnswers(NewestEnded),
             Count(answer),
             Over \/ CleanFirst \/ Unchained,
             \/ UNCHANGED <<meta, doomed>>
             \/ answer # "unasked" /\ StopJobs({NewestEnded}) /\ Settle(NewestEnded)
      PROVE  TypeOK' /\ CmdInv'
  <2>1. fails' \in 0 .. MaxFails
    BY <1>2, CountTyped
  <2>2. meta' \in [Id -> Meta] /\ doomed' \subseteq Id
    <3>1. CASE UNCHANGED <<meta, doomed>>
      BY <3>1 DEF TypeOK
    <3>2. CASE answer # "unasked" /\ StopJobs({NewestEnded}) /\ Settle(NewestEnded)
      <4>1. NewestEnded \in Id
        BY <1>2, <3>2, Newest
      <4>. QED BY <3>2, <4>1, SettleTyped, StopTyped
    <3>. QED BY <1>2, <3>1, <3>2
  <2>. QED BY <1>2, <2>1, <2>2, DecidedTyped, DecidingTyped DEF DecideRun
<1>. QED BY <1>1, <1>2 DEF DecideRun

LEMMA StopStepTyped ==
  ASSUME TypeOK, CmdInv, Stop
  PROVE  TypeOK' /\ CmdInv'
<1>0. cmd \in Cmd
  BY DEF TypeOK
<1>1. ASSUME NEW i \in links, StopActive(i)
      PROVE  TypeOK' /\ CmdInv'
  <2>1. i \in Id
    BY DEF TypeOK
  <2>2. \/ Over
        \/ cmd' = [cmd EXCEPT !.at = "await", !.cur = i]
        \/ cmd' = [cmd EXCEPT !.at = "finish", !.cur = i]
    BY <1>1 DEF StopActive
  <2>3. cmd' \in Cmd /\ CmdInv'
    BY <1>0, <2>1, <2>2, OverTyped, Steps DEF Cmd, CmdInv
  <2>4. doomed' \subseteq Id
    BY <1>1, <2>1, StopTyped DEF StopActive, StopJobs, TypeOK
  <2>. QED BY <1>1, <2>3, <2>4, DecidingTyped DEF Stop, StopActive, TypeOK
<1>2. CASE StopEnded
  <2>1. Over \/ Goto("deactivate")
    BY <1>2 DEF StopEnded
  <2>2. cmd' \in Cmd /\ CmdInv'
    BY <2>1, OverTyped, GotoTyped, Steps
  <2>3. CASE Ended = {}
    BY <1>2, <2>2, <2>3, DecidingTyped DEF Stop, StopEnded, TypeOK
  <2>4. CASE Ended # {}
    <3>1. NewestEnded \in Id
      BY <2>4, Newest
    <3>2. fails' \in 0 .. MaxFails
      BY <1>2, <2>4, CountTyped DEF StopEnded
    <3>3. /\ Settle(NewestEnded) \/ UNCHANGED meta
          /\ StopJobs({NewestEnded}) \/ UNCHANGED doomed
      BY <1>2, <2>4 DEF StopEnded
    <3>4. meta' \in [Id -> Meta] /\ doomed' \subseteq Id
      BY <3>1, <3>3, SettleTyped, StopTyped
    <3>. QED BY <2>2, <3>2, <3>4, DecidingTyped DEF Stop
  <2>. QED BY <2>3, <2>4
<1>. QED BY <1>1, <1>2 DEF Stop

LEMMA DeleteTyped ==
  ASSUME TypeOK, CmdInv, Delete
  PROVE  TypeOK' /\ CmdInv'
<1>1. Over \/ Goto("remove")
  BY DEF Delete
<1>2. cmd' \in Cmd /\ CmdInv'
  BY <1>1, OverTyped, GotoTyped, Steps
<1>3. fails' \in 0 .. MaxFails
  <2>1. IsFiniteSet(Id)
    BY Typed, FS_Interval DEF Id
  <2>2. \A wrong \in SUBSET AskedAbout : Cardinality(wrong) \in Nat
    BY <2>1, FS_Subset, FS_CardinalityType DEF AskedAbout, Made
  <2>3. /\ fails \in 0 .. MaxFails
        /\ \/ UNCHANGED fails
           \/ \E wrong \in SUBSET AskedAbout :
                fails' = fails + Cardinality(wrong) /\ fails' <= MaxFails
    BY DEF Delete, TypeOK
  <2>. QED BY <2>2, <2>3, Typed
<1>4. doomed' \subseteq Id
  BY StopTyped DEF Delete, AskedAbout, Made, StopJobs, TypeOK
<1>5. UNCHANGED <<chained, links, queue, requeues, runVars, gone>> /\ meta' = meta
  BY DEF Delete, recVars
<1>6. meta' \in [Id -> Meta]
  BY <1>5 DEF TypeOK
<1>. QED BY <1>2, <1>3, <1>4, <1>5, <1>6, DecidingTyped

LEMMA PrepareTyped ==
  ASSUME TypeOK, CmdInv, Prepare
  PROVE  TypeOK' /\ CmdInv'
<1>0. cmd \in Cmd /\ cmd.then # "idle" /\ cmd.left # 0 /\ cmd.prev \in Id \cup {None}
  BY DEF TypeOK, CmdInv, Prepare, Cmd
<1>1. CASE Over /\ UNCHANGED <<meta, chained>>
  BY <1>1, OverTyped, OnlyCmd DEF Prepare, TypeOK, recVars
<1>2. CASE /\ NextId \in Id
           /\ meta' = [meta EXCEPT ![NextId] =
                         [NoMeta EXCEPT !.made = TRUE,
                                        !.job = cmd.op = "run",
                                        !.foreground = cmd.op = "run"]]
           /\ chained' = [chained EXCEPT ![NextId] = cmd.prev]
           /\ cmd' = [cmd EXCEPT !.cur = NextId,
                        !.at = IF cmd.first THEN "activate" ELSE "queue"]
  <2>1. [NoMeta EXCEPT !.made = TRUE, !.job = cmd.op = "run",
                       !.foreground = cmd.op = "run"] \in Meta
    BY DEF NoMeta, Meta
  <2>2. meta' \in [Id -> Meta] /\ chained' \in [Id -> Id \cup {None}]
    BY <1>0, <1>2, <2>1 DEF TypeOK
  <2>3. cmd' \in Cmd /\ CmdInv'
    BY <1>0, <1>2, Steps DEF Cmd, CmdInv
  <2>. QED BY <1>2, <2>2, <2>3 DEF Prepare, TypeOK, jobVars, runVars
<1>. QED BY <1>1, <1>2 DEF Prepare

LEMMA RecordTyped ==
  ASSUME TypeOK, CmdInv, Record
  PROVE  TypeOK' /\ CmdInv'
<1>0. cmd \in Cmd /\ cmd.then # "idle" /\ cmd.left \in 1 .. Segments /\ cmd.cur \in Id
  BY Typed DEF TypeOK, CmdInv, Record, Cmd
<1>1. meta' \in [Id -> Meta]
  <2>0. meta[cmd.cur] \in Meta
    BY <1>0 DEF TypeOK
  <2>1. [meta[cmd.cur] EXCEPT !.job = TRUE] \in Meta
    BY <2>0 DEF Meta
  <2>. QED BY <2>1 DEF TypeOK, Record
<1>2. cmd' \in Cmd /\ CmdInv'
  <2>1. CASE cmd.left = 1
    BY <2>1, OverTyped DEF Record, Over
  <2>2. CASE cmd.left # 1
    <3>1. cmd.left - 1 \in 0 .. Segments /\ cmd.left - 1 # 0
      BY <1>0, <2>2, Typed
    <3>2. cmd' = [cmd EXCEPT !.left = cmd.left - 1, !.prev = cmd.cur,
                             !.first = FALSE, !.cur = None, !.at = "prepare"]
      BY <2>2 DEF Record
    <3>3. /\ cmd' \in Cmd /\ cmd'.at = "prepare" /\ cmd'.then = cmd.then
          /\ cmd'.left # 0
      BY <1>0, <3>1, <3>2, Steps DEF Cmd
    <3>. QED BY <1>0, <3>3 DEF CmdInv
  <2>. QED BY <2>1, <2>2
<1>. QED BY <1>1, <1>2 DEF Record, TypeOK, jobVars, runVars

LEMMA CommandTyped ==
  ASSUME TypeOK, CmdInv, Command
  PROVE  TypeOK' /\ CmdInv'
<1>1. CASE Abort
  BY <1>1, OverTyped, OnlyCmd DEF Abort, TypeOK
<1>2. CASE Activate
  <2>1. Over \/ Goto("launch") \/ Goto("queue")
    BY <1>2 DEF Activate
  <2>2. cmd' \in Cmd /\ CmdInv'
    BY <1>2, <2>1, OverTyped, GotoTyped, Steps DEF Activate, CmdInv
  <2>. QED BY <1>2, <2>2 DEF Activate, CmdInv, TypeOK, jobVars, runVars
<1>3. CASE Launch
  <2>1. cmd.cur \in Id /\ meta[cmd.cur] \in Meta
    BY <1>3 DEF Launch, CmdInv, TypeOK
  <2>. QED BY <1>3, <2>1, OverTyped
           DEF Launch, TypeOK, recVars, jobVars, RunSteps, Beats
<1>4. CASE Queue
  <2>1. cmd' \in Cmd /\ CmdInv'
    BY <1>4, GotoTyped, Steps DEF Queue, CmdInv
  <2>. QED BY <1>4, <2>1 DEF Queue, TypeOK, recVars, runVars, QueueStates
<1>5. CASE Await
  <2>1. fails' \in 0 .. MaxFails
    BY <1>5, CountTyped DEF Await, TypeOK
  <2>2. Over \/ Goto("finish")
    BY <1>5 DEF Await
  <2>3. cmd' \in Cmd /\ CmdInv'
    BY <1>5, <2>2, OverTyped, GotoTyped, Steps DEF Await, CmdInv
  <2>. QED BY <1>5, <2>1, <2>3, OnlyCmd DEF Await
<1>6. CASE Finish
  <2>1. cmd.cur \in Id /\ meta[cmd.cur] \in Meta
    BY <1>6 DEF Finish, CmdInv, TypeOK
  <2>2. [meta[cmd.cur] EXCEPT !.ended = TRUE, !.settled = FALSE] \in Meta
    BY <2>1 DEF Meta
  <2>3. meta' = [meta EXCEPT ![cmd.cur] =
                   [meta[cmd.cur] EXCEPT !.ended = TRUE, !.settled = FALSE]]
    BY <1>6, <2>1 DEF Finish, TypeOK
  <2>4. cmd' \in Cmd /\ CmdInv'
    BY <1>6, GotoTyped, Steps DEF Finish
  <2>. QED BY <1>6, <2>2, <2>3, <2>4 DEF Finish, TypeOK, jobVars, runVars
<1>7. CASE Deactivate
  BY <1>7, OverTyped DEF Deactivate, TypeOK, jobVars, runVars
<1>8. CASE Remove
  BY <1>8, OverTyped DEF Remove, TypeOK, recVars, jobVars, runVars
<1>. QED BY <1>1, <1>2, <1>3, <1>4, <1>5, <1>6, <1>7, <1>8, BeginTyped,
            ReapTyped, UnlinkTyped, MarkTyped, DecideSubmitTyped, DecideRunTyped,
            PrepareTyped, RecordTyped, StopStepTyped, DeleteTyped
         DEF Command, Proceed

(* And so do the processes, the scheduler and time. *)
LEMMA ProcessTyped ==
  ASSUME TypeOK, CmdInv, NEW i \in Id, Process(i) \/ Scheduler(i) \/ Time(i)
  PROVE  TypeOK' /\ CmdInv'
<1>. USE Typed DEF TypeOK, Next1, recVars, jobVars, runVars, RunSteps, Handing,
                   Running, QueueStates, Beats
<1>1. CASE Handoff(i)
  BY <1>1 DEF Handoff, CmdInv
<1>2. CASE GivesUp(i)
  BY <1>2 DEF GivesUp, CmdInv
<1>3. CASE Rename(i)
  BY <1>3 DEF Rename, CmdInv
<1>4. CASE Load(i)
  BY <1>4 DEF Load, CmdInv
<1>5. CASE TakeRunning(i)
  BY <1>5 DEF TakeRunning, CmdInv
<1>6. CASE StoreStart(i)
  <2>1. mine[i] \in Meta /\ [mine[i] EXCEPT !.ended = FALSE] \in Meta
    BY DEF Meta
  <2>. QED BY <1>6, <2>1 DEF StoreStart, CmdInv
<1>7. CASE ExecEnds(i)
  BY <1>7 DEF ExecEnds, CmdInv
<1>8. CASE StoreEnd(i)
  <2>1. /\ mine[i] \in Meta
        /\ [mine[i] EXCEPT !.ended = TRUE, !.settled = FALSE] \in Meta
    BY DEF Meta
  <2>. QED BY <1>8, <2>1 DEF StoreEnd, CmdInv
<1>9. CASE JobStarts(i)
  BY <1>9 DEF JobStarts, CmdInv
<1>10. CASE Dies(i)
  BY <1>10 DEF Dies, Killed, CmdInv
<1>11. CASE JobLeaves(i)
  BY <1>11 DEF JobLeaves, CmdInv
<1>12. CASE Requeue(i)
  BY <1>12 DEF Requeue, Killed, CmdInv
<1>13. CASE BeatStales(i)
  BY <1>13 DEF BeatStales, CmdInv
<1>14. CASE CorpseExpires(i)
  BY <1>14 DEF CorpseExpires, CmdInv
<1>. QED BY <1>1, <1>2, <1>3, <1>4, <1>5, <1>6, <1>7, <1>8, <1>9, <1>10,
            <1>11, <1>12, <1>13, <1>14
         DEF Process, Scheduler, Time

(* sim.lock has one holder, whatever the commands and the jobs do. *)
LEMMA LockStep ==
  ASSUME TypeOK, LockInv, [Next]_vars
  PROVE  LockInv'
<1>. USE DEF LockInv, Handing, Running, Next1, Over, Goto, TypeOK, recVars,
            jobVars, runVars
<1>1. CASE UNCHANGED vars
  BY <1>1 DEF vars
<1>2. CASE Proceed
  BY <1>2 DEF Proceed, Abort, Reap, Unlink, Mark, DecideSubmit, DecideRun,
      Prepare, Activate, Launch, Queue, Record, Stop, Await, Finish, Deactivate,
      Delete, Remove
<1>3. ASSUME NEW op \in Ops, Begin(op) PROVE LockInv'
  BY <1>3 DEF Begin, SimLockFree
<1>4. ASSUME NEW i \in Id, Process(i) PROVE LockInv'
  BY <1>4 DEF Process, Handoff, GivesUp, Rename, Load, TakeRunning, StoreStart,
      ExecEnds, StoreEnd, SimLockFree
<1>5. ASSUME NEW i \in Id, Scheduler(i) \/ Time(i) PROVE LockInv'
  BY <1>5 DEF Scheduler, Time, JobStarts, Dies, JobLeaves, Requeue, Killed,
      BeatStales, CorpseExpires
<1>. QED BY <1>1, <1>2, <1>3, <1>4, <1>5 DEF Next, Command

(* Only the holder of sim.lock touches the link. *)
LEMMA LinkStep ==
  ASSUME TypeOK, LockInv, LinkInv, [Next]_vars
  PROVE  LinkInv'
<1>. USE DEF LockInv, LinkInv, Handing, Next1, TypeOK, recVars, jobVars, runVars
<1>1. CASE UNCHANGED vars
  BY <1>1 DEF vars
<1>2. CASE Command
  <2>1. CASE Activate
    BY <2>1 DEF Activate
  <2>2. CASE Deactivate
    BY <2>2 DEF Deactivate
  <2>3. CASE Unlink
    BY <2>3 DEF Unlink
  <2>4. CASE Launch
    BY <2>4 DEF Launch
  <2>5. CASE UNCHANGED <<links, run>>
    BY <2>5
  <2>. QED BY <1>2, <2>1, <2>2, <2>3, <2>4, <2>5
           DEF Command, Proceed, Begin, Abort, Reap, Mark, DecideSubmit,
               DecideRun, Prepare, Queue, Record, Stop, Await, Finish, Delete,
               Remove
<1>3. ASSUME NEW i \in Id, Process(i) PROVE LinkInv'
  BY <1>3 DEF Process, Handoff, GivesUp, Rename, Load, TakeRunning, StoreStart,
      ExecEnds, StoreEnd, SimLockFree
<1>4. ASSUME NEW i \in Id, Scheduler(i) \/ Time(i) PROVE LinkInv'
  BY <1>4 DEF Scheduler, Time, JobStarts, Dies, JobLeaves, Requeue, Killed,
      BeatStales, CorpseExpires
<1>. QED BY <1>1, <1>2, <1>3, <1>4 DEF Next

(* The next id is the first one that was never made. *)
LEMMA NextIdIsNew ==
  ASSUME TypeOK, MadeInv
  PROVE  NextId \notin Made /\ Made = 0 .. NextId - 1 /\ NextId \in 0 .. MaxRestarts
<1>1. PICK n \in 0 .. MaxRestarts : Made = 0 .. n - 1
  BY DEF MadeInv
<1>2. n \in Nat /\ Cardinality(0 .. n - 1) = n
  BY <1>1, Typed, FS_Interval
<1>. QED BY <1>1, <1>2 DEF NextId

SameRecord(i) == /\ meta'[i].made = meta[i].made
                 /\ meta'[i].job = meta[i].job
                 /\ meta'[i].foreground = meta[i].foreground

LEMMA Settled ==
  ASSUME TypeOK, NEW j \in Id, Settle(j) \/ UNCHANGED meta
  PROVE  \A i \in Id : SameRecord(i) /\ meta'[i].ended = meta[i].ended
BY DEF TypeOK, Settle, Meta, SameRecord

(* A command that is not about to make a restart, or to record its job,     *)
(* leaves what was made and which jobs are known alone; two steps write an  *)
(* end.                                                                     *)
LEMMA KeptRecords ==
  ASSUME TypeOK, CmdInv, Command, ~Prepare, ~Record
  PROVE  /\ \A i \in Id : SameRecord(i)
         /\ ~Mark /\ ~Finish => \A i \in Id : meta'[i].ended = meta[i].ended
<1>. DEFINE Kept == \A i \in Id : SameRecord(i) /\ meta'[i].ended = meta[i].ended
<1>1. CASE UNCHANGED meta
  BY <1>1 DEF SameRecord
<1>2. CASE Mark
  BY <1>2 DEF Mark, TypeOK, Meta, SameRecord
<1>3. CASE Finish
  BY <1>3 DEF Finish, TypeOK, Meta, SameRecord
<1>4. ASSUME NEW j \in links, DecideEnded(j) PROVE Kept
  <2>1. Settle(j) \/ UNCHANGED meta
    BY <1>4 DEF DecideEnded
  <2>. QED BY <2>1, Settled DEF TypeOK
<1>5. CASE DecideInactive
  <2>1. UNCHANGED meta \/ (Ended # {} /\ Settle(NewestEnded))
    BY <1>5 DEF DecideInactive
  <2>. QED BY <2>1, <1>1, Settled, Newest
<1>6. CASE DecideRun
  <2>1. UNCHANGED meta \/ (Ended # {} /\ Settle(NewestEnded))
    BY <1>6 DEF DecideRun
  <2>. QED BY <2>1, <1>1, Settled, Newest
<1>7. CASE Stop
  <2>1. UNCHANGED meta \/ (Ended # {} /\ Settle(NewestEnded))
    BY <1>7 DEF Stop, StopActive, StopEnded
  <2>. QED BY <2>1, <1>1, Settled, Newest
<1>8. CASE DecideSubmit
  <2>1. UNCHANGED meta \/ DecideInactive \/ \E j \in links : DecideEnded(j)
    BY <1>8 DEF DecideSubmit
  <2>. QED BY <2>1, <1>1, <1>4, <1>5
<1>. QED BY <1>1, <1>2, <1>3, <1>6, <1>7, <1>8
         DEF Command, Proceed, Begin, Abort, Reap, Unlink, Activate, Launch,
             Queue, Await, Deactivate, Delete, Remove, recVars

(* A restart at hand stays at hand until its job is recorded. *)
LEMMA NewWorkSteps ==
  ASSUME TypeOK, CmdInv, Command, ~Prepare, ~Record,
         cmd'.at \in {"activate", "launch", "queue", "record"}
  PROVE  /\ Activate \/ Queue
         /\ cmd'.cur = cmd.cur /\ cmd'.op = cmd.op
         /\ cmd'.at = "launch" => cmd.op = "run"
         /\ cmd'.at # "activate"
<1>0. cmd \in Cmd
  BY DEF TypeOK
<1>. DEFINE Elsewhere == cmd'.at \notin {"activate", "launch", "queue", "record"}
<1>1. CASE Activate \/ Queue
  BY <1>0, <1>1 DEF Activate, Queue, Over, Goto, NoCmd, Cmd
<1>2. CASE Over
  BY <1>2 DEF Over, NoCmd
<1>3. ASSUME NEW step \in CmdSteps \ {"activate", "launch", "queue", "record"},
             Goto(step)
      PROVE  Elsewhere
  BY <1>0, <1>3 DEF Goto, Cmd
<1>4. ASSUME NEW op \in Ops, Begin(op) PROVE Elsewhere
  BY <1>4 DEF Begin, NoCmd, Ops
<1>5. CASE Unlink
  BY <1>0, <1>5 DEF Unlink, Goto, Cmd, CmdInv
<1>6. CASE Mark
  BY <1>0, <1>6 DEF Mark, Cleaned, NoCmd, Cmd, CmdInv
<1>7. CASE Unchained \/ CleanFirst \/ \E i \in Id : ChainBehind(i)
  BY <1>0, <1>7 DEF Unchained, CleanFirst, ChainBehind, Goto, Cmd
<1>8. CASE DecideSubmit
  <2>1. CASE links = {} /\ DecideInactive
    BY <1>2, <1>7, <2>1, Newest DEF DecideInactive
  <2>2. ASSUME NEW i \in links, Over \/ ChainBehind(i) \/ DecideEnded(i)
        PROVE  Elsewhere
    <3>1. i \in Id
      BY DEF TypeOK
    <3>2. Over \/ ChainBehind(i) \/ CleanFirst
      BY <2>2 DEF DecideEnded
    <3>3. CASE Over
      BY <3>3 DEF Over, NoCmd
    <3>4. CASE ChainBehind(i)
      BY <1>0, <3>4 DEF ChainBehind, Cmd
    <3>5. CASE CleanFirst
      BY <1>0, <3>5 DEF CleanFirst, Cmd
    <3>. QED BY <3>2, <3>3, <3>4, <3>5
  <2>. QED BY <1>8, <2>1, <2>2 DEF DecideSubmit
<1>9. CASE DecideRun
  BY <1>2, <1>7, <1>9 DEF DecideRun
<1>10. CASE Stop
  <2>1. ASSUME NEW i \in links, StopActive(i) PROVE Elsewhere
    <3>1. \/ Over
          \/ cmd' = [cmd EXCEPT !.at = "await", !.cur = i]
          \/ cmd' = [cmd EXCEPT !.at = "finish", !.cur = i]
      BY <2>1 DEF StopActive
    <3>2. CASE Over
      BY <3>2 DEF Over, NoCmd
    <3>3. CASE cmd' = [cmd EXCEPT !.at = "await", !.cur = i]
      BY <1>0, <3>3 DEF Cmd
    <3>4. CASE cmd' = [cmd EXCEPT !.at = "finish", !.cur = i]
      BY <1>0, <3>4 DEF Cmd
    <3>. QED BY <3>1, <3>2, <3>3, <3>4
  <2>. QED BY <1>2, <1>3, <1>10, <2>1, Steps DEF Stop, StopEnded
<1>11. CASE Reap \/ Await \/ Finish \/ Delete
  BY <1>2, <1>3, <1>11, Steps DEF Reap, Await, Finish, Delete
<1>12. CASE Launch \/ Abort \/ Deactivate \/ Remove
  BY <1>2, <1>12 DEF Launch, Abort, Deactivate, Remove, Over
<1>. QED BY <1>1, <1>2, <1>4, <1>5, <1>6, <1>8, <1>9, <1>10, <1>11, <1>12
         DEF Command, Proceed

(* The processes' own records say what restart.toml says of being made. *)
LEMMA MadeStep ==
  ASSUME TypeOK, TypeOK', CmdInv, MadeInv, [Next]_vars
  PROVE  MadeInv'
<1>1. CASE UNCHANGED vars
  BY <1>1 DEF vars, MadeInv, Made
<1>2. ASSUME \A i \in Id : meta'[i].made = meta[i].made
      PROVE  \E n \in 0 .. MaxRestarts : Made' = 0 .. n - 1
  <2>1. Made' = Made
    BY <1>2 DEF Made
  <2>. QED BY <2>1 DEF MadeInv
<1>3. CASE Prepare
  <2>1. CASE NextId \notin Id
    <3>1. UNCHANGED <<meta, queue, run, mine>> /\ cmd'.at = "idle"
      BY <1>3, <2>1 DEF Prepare, Over, NoCmd, jobVars, runVars
    <3>. QED BY <1>2, <3>1 DEF MadeInv
  <2>2. CASE NextId \in Id
    <3>1. /\ meta' = [meta EXCEPT ![NextId] =
                      [NoMeta EXCEPT !.made = TRUE,
                                     !.job = cmd.op = "run",
                                     !.foreground = cmd.op = "run"]]
          /\ cmd'.cur = NextId
      <4>1. /\ meta' = [meta EXCEPT ![NextId] =
                      [NoMeta EXCEPT !.made = TRUE,
                                     !.job = cmd.op = "run",
                                     !.foreground = cmd.op = "run"]]
            /\ cmd' = [cmd EXCEPT !.cur = NextId,
                                  !.at = IF cmd.first THEN "activate" ELSE "queue"]
            /\ cmd.at = "prepare"
        BY <1>3, <2>2 DEF Prepare
      <4>2. cmd \in Cmd
        BY DEF TypeOK
      <4>3. /\ cmd'.cur = NextId /\ cmd'.op = cmd.op
            /\ cmd'.at = IF cmd.first THEN "activate" ELSE "queue"
        BY <4>1, <4>2 DEF Cmd
      <4>. QED BY <4>1, <4>3
    <3>2. \A i \in Id : meta'[i].made = (i = NextId \/ meta[i].made)
      BY <2>2, <3>1 DEF TypeOK, Meta, NoMeta
    <3>3. Made' = 0 .. (NextId + 1) - 1 /\ NextId + 1 \in 0 .. MaxRestarts
      <4>1. Made' = Made \cup {NextId}
        BY <2>2, <3>2 DEF Made
      <4>2. NextId \in Nat /\ NextId < MaxRestarts
        BY <2>2, Typed DEF Id
      <4>. QED BY <4>1, <4>2, NextIdIsNew, Typed
    <3>4. UNCHANGED <<queue, run, mine>>
      BY <1>3 DEF Prepare, jobVars, runVars
    <3>. QED BY <2>2, <3>1, <3>2, <3>3, <3>4 DEF MadeInv
  <2>. QED BY <2>1, <2>2
<1>4. CASE Record
  <2>1. \A i \in Id : meta'[i].made = meta[i].made
    BY <1>4 DEF Record, TypeOK, Meta
  <2>2. cmd'.at \in {"idle", "prepare"} /\ UNCHANGED <<queue, run, mine>>
    BY <1>4 DEF Record, NoCmd, TypeOK, Cmd, jobVars, runVars
  <2>. QED BY <1>2, <2>1, <2>2 DEF MadeInv
<1>5. CASE Command /\ ~Prepare /\ ~Record
  <2>1. \A i \in Id : meta'[i].made = meta[i].made
    BY <1>5, KeptRecords DEF SameRecord
  <2>2. /\ \A i \in Id : queue'[i] # "none" => queue[i] # "none" \/ (Queue /\ i = cmd.cur)
        /\ \A i \in Id : run'[i] # "off" => run[i] # "off" \/ (Launch /\ i = cmd.cur)
    BY <1>5 DEF Command, Proceed, Begin, Abort, Reap, Unlink, Mark, DecideSubmit,
        DecideRun, Activate, Launch, Queue, Stop, Await, Finish, Deactivate,
        Delete, Remove, jobVars, runVars, TypeOK
  <2>3. \A i \in Id : run'[i] \in Running \cup {"begin", "end"} =>
           \/ run[i] = run'[i] /\ mine'[i] = mine[i]
           \/ Launch /\ i = cmd.cur /\ mine'[i] = meta[i]
    <3>1. CASE Launch
      <4>1. /\ run' = [run EXCEPT ![cmd.cur] = "begin"]
            /\ mine' = [mine EXCEPT ![cmd.cur] = meta[cmd.cur]]
        BY <3>1 DEF Launch
      <4>2. run \in [Id -> RunSteps] /\ mine \in [Id -> Meta]
        BY DEF TypeOK
      <4>. QED BY <3>1, <4>1, <4>2
    <3>2. CASE ~Launch
      <4>1. UNCHANGED mine
        BY <1>5, <3>2 DEF Command, Proceed, Begin, Abort, Reap, Unlink, Mark,
            DecideSubmit, DecideRun, Activate, Queue, Stop, Await, Finish,
            Deactivate, Delete, Remove, jobVars, runVars
      <4>2. \A i \in Id : run'[i] = run[i] \/ run'[i] = "off"
        BY <1>5, <3>2 DEF Command, Proceed, Begin, Abort, Reap, Unlink, Mark,
            DecideSubmit, DecideRun, Activate, Queue, Stop, Await, Finish,
            Deactivate, Delete, Remove, jobVars, runVars, TypeOK
      <4>. QED BY <4>1, <4>2 DEF Running
    <3>. QED BY <3>1, <3>2
  <2>4. cmd'.at \in {"activate", "launch", "queue", "record"} =>
          /\ cmd'.cur = cmd.cur
          /\ cmd.at \in {"activate", "launch", "queue", "record"}
    BY <1>5, NewWorkSteps DEF Activate, Queue
  <2>5. (Queue \/ Launch) => cmd.cur \in Id /\ meta[cmd.cur].made
    BY DEF Queue, Launch, MadeInv, CmdInv
  <2>. QED BY <1>2, <2>1, <2>2, <2>3, <2>4, <2>5 DEF MadeInv, CmdInv
<1>6. ASSUME NEW i \in Id, Process(i) \/ Scheduler(i) \/ Time(i)
      PROVE  MadeInv'
  <2>. USE DEF Next1, recVars, jobVars, runVars, Running, Handing, TypeOK
  <2>1. cmd' = cmd
    BY <1>6 DEF Process, Handoff, GivesUp, Rename, Load, TakeRunning, StoreStart,
        ExecEnds, StoreEnd, Scheduler, Time, JobStarts, Dies, JobLeaves, Requeue,
        Killed, BeatStales, CorpseExpires
  <2>2. \A j \in Id : meta'[j].made = meta[j].made
    <3>1. CASE UNCHANGED meta
      BY <3>1
    <3>2. CASE StoreStart(i)
      BY <3>2 DEF StoreStart, Meta, MadeInv
    <3>3. CASE StoreEnd(i)
      BY <3>3 DEF StoreEnd, Meta, MadeInv
    <3>. QED BY <1>6, <3>1, <3>2, <3>3
             DEF Process, Handoff, GivesUp, Rename, Load, TakeRunning, ExecEnds,
                 Scheduler, Time, JobStarts, Dies, JobLeaves, Requeue, Killed,
                 BeatStales, CorpseExpires
  <2>3. /\ \A j \in Id : queue'[j] # "none" => queue[j] # "none"
        /\ \A j \in Id : run'[j] # "off" => run[j] # "off" \/ queue[j] # "none"
    <3>1. CASE Process(i)
      BY <3>1 DEF Process, Handoff, GivesUp, Rename, Load, TakeRunning,
          StoreStart, ExecEnds, StoreEnd
    <3>2. CASE Scheduler(i) \/ Time(i)
      BY <3>2 DEF Scheduler, Time, JobStarts, Dies, JobLeaves, Requeue, Killed,
          BeatStales, CorpseExpires, Listed
    <3>. QED BY <1>6, <3>1, <3>2
  <2>4. \A j \in Id : run'[j] \in Running \cup {"begin", "end"} => mine'[j].made
    <3>1. CASE Process(i)
      BY <3>1 DEF Process, Handoff, GivesUp, Rename, Load, TakeRunning,
          StoreStart, ExecEnds, StoreEnd, MadeInv
    <3>2. CASE Scheduler(i) \/ Time(i)
      BY <3>2 DEF Scheduler, Time, JobStarts, Dies, JobLeaves, Requeue, Killed,
          BeatStales, CorpseExpires, MadeInv
    <3>. QED BY <1>6, <3>1, <3>2
  <2>. QED BY <1>2, <2>1, <2>2, <2>3, <2>4 DEF MadeInv, CmdInv
<1>. QED BY <1>1, <1>3, <1>4, <1>5, <1>6 DEF Next

(* The jobs stay on record, as long as every submission lives to write down *)
(* the id of the job it queued.                                             *)
LEMMA JobStep ==
  ASSUME TypeOK, TypeOK', LockInv, CmdInv, MadeInv, JobInv, JobsRecorded,
         [Next]_vars
  PROVE  JobInv'
<1>1. CASE UNCHANGED vars
  BY <1>1 DEF vars, JobInv, JobsKnown, Listed
<1>2. CASE Prepare
  <2>1. UNCHANGED <<queue, run, mine>>
    BY <1>2 DEF Prepare, jobVars, runVars
  <2>2. CASE NextId \notin Id
    <3>1. UNCHANGED meta /\ cmd' = NoCmd /\ cmd.at = "prepare"
      BY <1>2, <2>2 DEF Prepare, Over
    <3>. QED BY <2>1, <3>1 DEF JobInv, JobsKnown, Listed, NoCmd
  <2>3. CASE NextId \in Id
    <3>1. /\ meta' = [meta EXCEPT ![NextId] =
                      [NoMeta EXCEPT !.made = TRUE,
                                     !.job = cmd.op = "run",
                                     !.foreground = cmd.op = "run"]]
          /\ cmd'.cur = NextId /\ cmd'.op = cmd.op
          /\ cmd'.at \in {"activate", "queue"}
          /\ cmd.at = "prepare"
      <4>1. /\ meta' = [meta EXCEPT ![NextId] =
                      [NoMeta EXCEPT !.made = TRUE,
                                     !.job = cmd.op = "run",
                                     !.foreground = cmd.op = "run"]]
            /\ cmd' = [cmd EXCEPT !.cur = NextId,
                                  !.at = IF cmd.first THEN "activate" ELSE "queue"]
            /\ cmd.at = "prepare"
        BY <1>2, <2>3 DEF Prepare
      <4>2. cmd \in Cmd
        BY DEF TypeOK
      <4>3. /\ cmd'.cur = NextId /\ cmd'.op = cmd.op
            /\ cmd'.at = IF cmd.first THEN "activate" ELSE "queue"
        BY <4>1, <4>2 DEF Cmd
      <4>. QED BY <4>1, <4>3
    <3>2. ~Listed(NextId)
      BY <2>3, NextIdIsNew DEF MadeInv, Made, Listed
    <3>3. \A i \in Id : i # NextId => meta'[i] = meta[i]
      BY <2>3, <3>1 DEF TypeOK
    <3>4. cmd.op = "run" => meta'[NextId].job
      BY <2>3, <3>1 DEF TypeOK, NoMeta
    <3>. QED BY <2>1, <2>3, <3>1, <3>2, <3>3, <3>4 DEF JobInv, JobsKnown, Listed
  <2>. QED BY <2>2, <2>3
<1>3. CASE Record
  <2>a. cmd.at = "record" /\ meta' = [meta EXCEPT ![cmd.cur].job = TRUE]
    BY <1>3 DEF Record
  <2>b. cmd.cur \in Id
    BY <2>a DEF CmdInv
  <2>c. meta \in [Id -> Meta]
    BY DEF TypeOK
  <2>d. \A i \in Id : i # cmd.cur => meta'[i] = meta[i]
    BY <2>a, <2>b, <2>c
  <2>e. meta'[cmd.cur].job
    BY <2>a, <2>b, <2>c DEF Meta
  <2>f. \A i \in Id : meta[i].job \in BOOLEAN /\ (i = cmd.cur => meta'[i].job = TRUE)
    BY <2>a, <2>b, <2>c DEF Meta
  <2>1. /\ cmd.at = "record" /\ cmd.cur \in Id
        /\ \A i \in Id : meta'[i].job = (i = cmd.cur \/ meta[i].job)
    BY <2>a, <2>b, <2>d, <2>e, <2>f
  <2>2. cmd'.at \in {"idle", "prepare"} /\ UNCHANGED <<queue, run, mine>>
    BY <1>3 DEF Record, NoCmd, TypeOK, Cmd, jobVars, runVars
  <2>. QED BY <2>1, <2>2 DEF JobInv, JobsKnown, Listed
<1>4. CASE Command /\ ~Prepare /\ ~Record
  <2>1. \A i \in Id : meta'[i].job = meta[i].job
    BY <1>4, KeptRecords DEF SameRecord
  <2>2. ~(cmd.at = "record")
    BY <1>4 DEF Command, Proceed, Begin, SimLockFree, Abort, Reap, Unlink, Mark,
        DecideSubmit, DecideRun, Activate, Launch, Queue, Stop, Await, Finish,
        Deactivate, Delete, Remove
  <2>3. cmd'.at \in {"activate", "launch", "queue", "record"} =>
          /\ Activate \/ Queue
          /\ cmd'.cur = cmd.cur /\ cmd'.op = cmd.op
          /\ cmd'.at = "launch" => cmd.op = "run"
          /\ cmd'.at # "activate"
    BY <1>4, NewWorkSteps
  <2>4. CASE Queue
    <3>1. /\ cmd'.at = "record" /\ cmd'.cur = cmd.cur /\ cmd.cur \in Id
          /\ queue' = [queue EXCEPT ![cmd.cur] = "queued"]
          /\ UNCHANGED <<run, mine>>
      BY <2>4 DEF Queue, Goto, TypeOK, Cmd, CmdInv, runVars
    <3>2. \A i \in Id : Listed(i)' = (i = cmd.cur \/ Listed(i))
      BY <3>1 DEF Listed, TypeOK
    <3>. QED BY <2>1, <2>2, <3>1, <3>2 DEF JobInv, JobsKnown
  <2>5. CASE Launch
    <3>1. cmd.cur \in Id /\ meta[cmd.cur].job
      BY <2>5 DEF Launch, CmdInv, JobInv
    <3>2. /\ cmd' = NoCmd /\ UNCHANGED queue
          /\ run' = [run EXCEPT ![cmd.cur] = "begin"]
          /\ mine' = [mine EXCEPT ![cmd.cur] = meta[cmd.cur]]
      BY <2>5 DEF Launch, Over, jobVars
    <3>3. \A i \in Id : /\ i # cmd.cur => run'[i] = run[i] /\ mine'[i] = mine[i]
                        /\ run'[cmd.cur] = "begin" /\ mine'[cmd.cur].job
      BY <3>1, <3>2 DEF TypeOK
    <3>. QED BY <2>1, <2>2, <3>1, <3>2, <3>3
             DEF JobInv, JobsKnown, Listed, NoCmd, Handing, Running
  <2>6. CASE ~Queue /\ ~Launch
    <3>1. UNCHANGED <<queue, run, mine>>
      BY <1>4, <2>6 DEF Command, Proceed, Begin, Abort, Reap, Unlink, Mark,
          DecideSubmit, DecideRun, Activate, Stop, Await, Finish, Deactivate,
          Delete, Remove, jobVars, runVars
    <3>2. (cmd'.at \in {"activate", "launch"} /\ cmd'.op = "run") => meta'[cmd'.cur].job
      <4>1. SUFFICES ASSUME cmd'.at \in {"activate", "launch"}, cmd'.op = "run"
                     PROVE  meta'[cmd'.cur].job
        OBVIOUS
      <4>2. Activate /\ cmd'.cur = cmd.cur /\ cmd.op = "run"
        BY <2>3, <2>6, <4>1
      <4>3. cmd.at = "activate" /\ cmd.cur \in Id
        BY <4>2 DEF Activate, CmdInv
      <4>. QED BY <2>1, <4>2, <4>3 DEF JobInv
    <3>3. cmd'.at = "launch" => cmd'.op = "run"
      BY <2>3
    <3>4. JobsKnown'
      BY <2>1, <2>2, <3>1 DEF JobInv, JobsKnown, Listed
    <3>. QED BY <3>1, <3>2, <3>3, <3>4 DEF JobInv, Listed
  <2>. QED BY <2>4, <2>5, <2>6
<1>5. ASSUME NEW i \in Id, Process(i) \/ Scheduler(i) \/ Time(i)
      PROVE  JobInv'
  <2>. USE DEF Next1, recVars, jobVars, runVars, Running, Handing, TypeOK
  <2>1. cmd' = cmd
    BY <1>5 DEF Process, Handoff, GivesUp, Rename, Load, TakeRunning, StoreStart,
        ExecEnds, StoreEnd, Scheduler, Time, JobStarts, Dies, JobLeaves, Requeue,
        Killed, BeatStales, CorpseExpires
  <2>2. \A j \in Id : meta[j].job => meta'[j].job
    <3>1. CASE UNCHANGED meta
      BY <3>1
    <3>2. CASE StoreStart(i)
      BY <3>2 DEF StoreStart, Meta, JobInv
    <3>3. CASE StoreEnd(i)
      BY <3>3 DEF StoreEnd, Meta, JobInv
    <3>. QED BY <1>5, <3>1, <3>2, <3>3
             DEF Process, Handoff, GivesUp, Rename, Load, TakeRunning, ExecEnds,
                 Scheduler, Time, JobStarts, Dies, JobLeaves, Requeue, Killed,
                 BeatStales, CorpseExpires
  <2>3. \A j \in Id : queue'[j] \in {"queued", "running"} =>
          queue[j] \in {"queued", "running"}
    BY <1>5 DEF Process, Handoff, GivesUp, Rename, Load, TakeRunning, StoreStart,
        ExecEnds, StoreEnd, Scheduler, Time, JobStarts, Dies, JobLeaves, Requeue,
        Killed, BeatStales, CorpseExpires, Listed
  <2>4. JobsKnown'
    BY <2>1, <2>2, <2>3 DEF JobInv, JobsKnown, Listed
  <2>5. \A j \in Id : run'[j] \in Handing \cup {"wait"} => Listed(j)'
    <3>1. CASE Process(i)
      BY <3>1 DEF Process, Handoff, GivesUp, Rename, Load, TakeRunning,
          StoreStart, ExecEnds, StoreEnd, JobInv, Listed
    <3>2. CASE Scheduler(i) \/ Time(i)
      BY <3>2 DEF Scheduler, Time, JobStarts, Dies, JobLeaves, Requeue, Killed,
          BeatStales, CorpseExpires, JobInv, Listed
    <3>. QED BY <1>5, <3>1, <3>2
  <2>6. \A j \in Id : run'[j] \in Running \cup {"begin", "end"} => mine'[j].job
    <3>1. CASE Load(i)
      <4>1. Listed(i) /\ cmd.at # "record"
        BY <3>1 DEF Load, JobInv, LockInv
      <4>2. meta[i].job
        BY <4>1 DEF JobInv, JobsKnown
      <4>. QED BY <3>1, <4>2 DEF Load, JobInv
    <3>2. CASE Process(i) /\ ~Load(i)
      BY <3>2 DEF Process, Handoff, GivesUp, Rename, TakeRunning, StoreStart,
          ExecEnds, StoreEnd, JobInv
    <3>3. CASE Scheduler(i) \/ Time(i)
      BY <3>3 DEF Scheduler, Time, JobStarts, Dies, JobLeaves, Requeue, Killed,
          BeatStales, CorpseExpires, JobInv
    <3>. QED BY <1>5, <3>1, <3>2, <3>3
  <2>7. (cmd.at \in {"activate", "launch"} /\ cmd.op = "run") => meta'[cmd.cur].job
    BY <2>2 DEF JobInv, CmdInv
  <2>. QED BY <2>1, <2>4, <2>5, <2>6, <2>7 DEF JobInv
<1>. QED BY <1>1, <1>2, <1>3, <1>4, <1>5 DEF Next

-----------------------------------------------------------------------------
(* What each step does to the command at hand.                              *)

SameWork == /\ cmd'.op = cmd.op /\ cmd'.then = cmd.then
            /\ cmd'.first = cmd.first /\ cmd'.prev = cmd.prev
At(step) == cmd'.at = step /\ SameWork /\ cmd'.cur = cmd.cur
Takes(step, i) == cmd'.at = step /\ SameWork /\ cmd'.cur = i
Behinds(i) == /\ cmd'.at = "prepare" /\ cmd'.op = cmd.op
              /\ ~cmd'.first /\ cmd'.prev = i
Cleans == /\ cmd'.at = "unlink" /\ cmd'.op = cmd.op /\ cmd'.then = "prepare"
          /\ cmd'.first = cmd.first /\ cmd'.prev = cmd.prev
Ends == /\ cmd'.at = "idle" /\ cmd'.op = "none" /\ cmd'.then = "idle"
        /\ ~cmd'.first /\ cmd'.prev = None

LEMMA OverEff == Over => Ends
BY DEF Over, Ends, NoCmd

LEMMA GotoEff ==
  ASSUME TypeOK, NEW step, Goto(step)
  PROVE  At(step)
BY DEF Goto, At, SameWork, TypeOK, Cmd

LEMMA ChoiceEff ==
  ASSUME TypeOK
  PROVE  /\ Unchained => At("prepare")
         /\ CleanFirst => Cleans
         /\ \A i \in Id : ChainBehind(i) => Behinds(i)
BY GotoEff DEF Unchained, CleanFirst, ChainBehind, Cleans, Behinds, TypeOK, Cmd

LEMMA BeginEff ==
  ASSUME NEW op \in Ops, Begin(op)
  PROVE  /\ op \in Commands /\ SimLockFree /\ ~gone
         /\ UserWaits /\ op \in {"submit", "run"} => Waiting = {}
         /\ QuickLaunch /\ op \notin {"submit", "run"} => Launching = {}
         /\ cmd'.op = op /\ cmd'.first /\ cmd'.prev = None
         /\ op \in {"submit", "run"} => cmd'.at = "reap" /\ cmd'.then = "decide"
         /\ op = "clean" => cmd'.at = "unlink" /\ cmd'.then = "idle"
         /\ op = "stop" => cmd'.at = "stop"
         /\ op = "delete" => cmd'.at = "live"
         /\ UNCHANGED <<recVars, jobVars, runVars, gone>>
BY DEF Begin, NoCmd, Ops

LEMMA ReapEff ==
  ASSUME TypeOK, Reap
  PROVE  /\ cmd.at = "reap"
         /\ \/ Ends \/ At("decide")
            \/ /\ At("unlink")
               /\ \E i \in links : \E held \in HeldLive(i) :
                    \E answer \in IF meta[i].ended THEN EndedAnswers(i)
                                  ELSE IF SchedulerJob(i) THEN Answers(i)
                                  ELSE {"unasked"} :
                      TrulyDead(i, answer = "listed", held)
         /\ UNCHANGED <<recVars, jobVars, runVars, gone>>
<1>1. cmd.at = "reap" /\ UNCHANGED <<recVars, jobVars, runVars, gone>>
  BY DEF Reap
<1>2. CASE Goto("decide")
  BY <1>1, <1>2, GotoEff
<1>3. ASSUME NEW i \in links, NEW held \in HeldLive(i),
             NEW answer \in IF meta[i].ended THEN EndedAnswers(i)
                            ELSE IF SchedulerJob(i) THEN Answers(i) ELSE {"unasked"},
             IF answer = "unanswered" /\ ~meta[i].ended THEN Over
             ELSE Goto(IF TrulyDead(i, answer = "listed", held)
                       THEN "unlink" ELSE "decide")
      PROVE  \/ Ends \/ At("decide")
             \/ At("unlink") /\ TrulyDead(i, answer = "listed", held)
  <2>1. CASE Over
    BY <2>1, OverEff
  <2>2. CASE Goto("decide")
    BY <2>2, GotoEff
  <2>3. CASE Goto("unlink") /\ TrulyDead(i, answer = "listed", held)
    BY <2>3, GotoEff
  <2>. QED BY <1>3, <2>1, <2>2, <2>3
<1>. QED BY <1>1, <1>2, <1>3 DEF Reap

LEMMA UnlinkEff ==
  ASSUME TypeOK, Unlink
  PROVE  /\ cmd.at = "unlink"
         /\ \/ links = {} /\ At(cmd.then) /\ UNCHANGED links
            \/ \E i \in links : links' = links \ {i} /\ Takes("mark", i)
         /\ UNCHANGED <<meta, chained, jobVars, runVars, gone>>
BY GotoEff DEF Unlink, Takes, SameWork, TypeOK, Cmd

LEMMA MarkEff ==
  ASSUME TypeOK, CmdInv, Mark
  PROVE  /\ cmd.at = "mark" /\ cmd.cur \in Id
         /\ (Ends /\ cmd.then = "idle") \/ (Takes(cmd.then, None) /\ cmd.then # "idle")
         /\ \A i \in Id \ {cmd.cur} : meta'[i] = meta[i]
         /\ meta'[cmd.cur].ended /\ SameRecord(cmd.cur)
         /\ meta'[cmd.cur].settled => meta[cmd.cur].settled
         /\ UNCHANGED <<chained, links, jobVars, runVars, gone>>
<1>1. cmd.cur \in Id /\ cmd \in Cmd
  BY DEF Mark, CmdInv, TypeOK
<1>2. /\ \A i \in Id \ {cmd.cur} : meta'[i] = meta[i]
      /\ meta'[cmd.cur].ended /\ SameRecord(cmd.cur)
      /\ meta'[cmd.cur].settled => meta[cmd.cur].settled
  <2>1. PICK m \in Meta : m = meta[cmd.cur]
    BY <1>1 DEF TypeOK
  <2>2. meta' = [meta EXCEPT ![cmd.cur] =
                   [m EXCEPT !.ended = TRUE, !.settled = m.ended /\ m.settled]]
    BY <1>1, <2>1 DEF Mark, TypeOK
  <2>3. /\ meta'[cmd.cur] = [m EXCEPT !.ended = TRUE, !.settled = m.ended /\ m.settled]
        /\ \A i \in Id \ {cmd.cur} : meta'[i] = meta[i]
    BY <1>1, <2>2 DEF TypeOK
  <2>4. /\ meta'[cmd.cur].ended
        /\ meta'[cmd.cur].settled => m.settled
        /\ meta'[cmd.cur].made = m.made /\ meta'[cmd.cur].job = m.job
        /\ meta'[cmd.cur].foreground = m.foreground
    BY <2>1, <2>3 DEF Meta
  <2>. QED BY <2>1, <2>3, <2>4 DEF SameRecord
<1>3. (Ends /\ cmd.then = "idle") \/ (Takes(cmd.then, None) /\ cmd.then # "idle")
  <2>1. CASE cmd.then = "idle"
    BY <2>1 DEF Mark, Cleaned, Ends, NoCmd
  <2>2. CASE cmd.then # "idle"
    BY <1>1, <2>2 DEF Mark, Cleaned, Takes, SameWork, Cmd
  <2>. QED BY <2>1, <2>2
<1>. QED BY <1>1, <1>2, <1>3 DEF Mark

LEMMA PrepareEff ==
  ASSUME TypeOK, MadeInv, Prepare
  PROVE  /\ cmd.at = "prepare"
         /\ \/ Ends /\ UNCHANGED <<meta, chained>>
            \/ /\ NextId \in Id /\ NextId \notin Made
               /\ Takes(IF cmd.first THEN "activate" ELSE "queue", NextId)
               /\ \A i \in Id \ {NextId} : meta'[i] = meta[i] /\ chained'[i] = chained[i]
               /\ meta'[NextId].made /\ ~meta'[NextId].ended /\ ~meta'[NextId].settled
               /\ meta'[NextId].foreground = (cmd.op = "run")
               /\ chained'[NextId] = cmd.prev
               /\ \A i \in Made : i < NextId
         /\ UNCHANGED <<links, jobVars, runVars, gone>>
<1>1. CASE NextId \notin Id
  BY <1>1, OverEff DEF Prepare
<1>2. CASE NextId \in Id
  <2>1. /\ meta' = [meta EXCEPT ![NextId] =
                      [NoMeta EXCEPT !.made = TRUE,
                                     !.job = cmd.op = "run",
                                     !.foreground = cmd.op = "run"]]
        /\ chained' = [chained EXCEPT ![NextId] = cmd.prev]
        /\ cmd' = [cmd EXCEPT !.cur = NextId,
                              !.at = IF cmd.first THEN "activate" ELSE "queue"]
    BY <1>2 DEF Prepare
  <2>2. Takes(IF cmd.first THEN "activate" ELSE "queue", NextId)
    BY <2>1 DEF Takes, SameWork, TypeOK, Cmd
  <2>3. /\ \A i \in Id \ {NextId} : meta'[i] = meta[i] /\ chained'[i] = chained[i]
        /\ meta'[NextId].made /\ ~meta'[NextId].ended /\ ~meta'[NextId].settled
        /\ meta'[NextId].foreground = (cmd.op = "run")
        /\ chained'[NextId] = cmd.prev
    <3>1. /\ \A i \in Id \ {NextId} : meta'[i] = meta[i] /\ chained'[i] = chained[i]
          /\ meta'[NextId] = [NoMeta EXCEPT !.made = TRUE,
                                            !.job = cmd.op = "run",
                                            !.foreground = cmd.op = "run"]
          /\ chained'[NextId] = cmd.prev
      BY <1>2, <2>1 DEF TypeOK
    <3>. QED BY <3>1 DEF NoMeta
  <2>4. NextId \notin Made /\ \A i \in Made : i < NextId
    BY <1>2, NextIdIsNew, Typed DEF Id
  <2>. QED BY <1>2, <2>2, <2>3, <2>4 DEF Prepare
<1>. QED BY <1>1, <1>2

LEMMA ActivateEff ==
  ASSUME TypeOK, Activate
  PROVE  /\ cmd.at = "activate"
         /\ \/ Ends /\ UNCHANGED links
            \/ /\ links = {} /\ links' = {cmd.cur}
               /\ At(IF cmd.op = "run" THEN "launch" ELSE "queue")
         /\ UNCHANGED <<meta, chained, jobVars, runVars, gone>>
BY OverEff, GotoEff DEF Activate

LEMMA LaunchEff ==
  ASSUME TypeOK, CmdInv, Launch
  PROVE  /\ cmd.at = "launch" /\ cmd.cur \in Id /\ Ends
         /\ \A i \in Id \ {cmd.cur} : /\ run'[i] = run[i] /\ mine'[i] = mine[i]
                                      /\ beat'[i] = beat[i]
         /\ run'[cmd.cur] = "begin" /\ mine'[cmd.cur] = meta[cmd.cur]
         /\ beat'[cmd.cur] = "fresh"
         /\ UNCHANGED <<recVars, jobVars, corpse, gone>>
BY OverEff DEF Launch, CmdInv, TypeOK

LEMMA QueueEff ==
  ASSUME TypeOK, CmdInv, Queue
  PROVE  /\ cmd.at = "queue" /\ cmd.cur \in Id /\ At("record")
         /\ \A i \in Id \ {cmd.cur} : queue'[i] = queue[i]
         /\ queue'[cmd.cur] = "queued"
         /\ UNCHANGED <<recVars, doomed, requeues, runVars, gone>>
BY GotoEff DEF Queue, CmdInv, TypeOK

LEMMA RecordEff ==
  ASSUME TypeOK, CmdInv, Record
  PROVE  /\ cmd.at = "record" /\ cmd.cur \in Id
         /\ Ends \/ Behinds(cmd.cur)
         /\ \A i \in Id : /\ meta'[i].made = meta[i].made
                          /\ meta'[i].foreground = meta[i].foreground
                          /\ meta'[i].ended = meta[i].ended
                          /\ meta'[i].settled = meta[i].settled
         /\ UNCHANGED <<chained, links, jobVars, runVars, gone>>
<1>1. cmd.cur \in Id /\ cmd \in Cmd
  BY DEF Record, CmdInv, TypeOK
<1>2. \A i \in Id : /\ meta'[i].made = meta[i].made
                    /\ meta'[i].foreground = meta[i].foreground
                    /\ meta'[i].ended = meta[i].ended
                    /\ meta'[i].settled = meta[i].settled
  BY <1>1 DEF Record, TypeOK, Meta
<1>3. Ends \/ Behinds(cmd.cur)
  <2>1. CASE cmd.left = 1
    BY <2>1, OverEff DEF Record, Over
  <2>2. CASE cmd.left # 1
    BY <1>1, <2>2 DEF Record, Behinds, Cmd
  <2>. QED BY <2>1, <2>2
<1>. QED BY <1>1, <1>2, <1>3 DEF Record

LEMMA DecideEndedEff ==
  ASSUME TypeOK, NEW i \in links, DecideEnded(i)
  PROVE  /\ Ends \/ Cleans \/ Behinds(i)
         /\ doomed' = doomed \/ StopJobs({i})
         /\ meta' = meta \/ Settle(i)
         /\ Fails = {} => /\ UNCHANGED <<meta, doomed>>
                          /\ Ends \/ Behinds(i) \/ (Cleans /\ "listed" \notin EndedAnswers(i))
<1>a. Over => Ends
  BY OverEff
<1>b. /\ Unchained => At("prepare")
      /\ CleanFirst => Cleans
      /\ \A j \in Id : ChainBehind(j) => Behinds(j)
  BY ChoiceEff
<1>0. i \in Id
  BY DEF TypeOK
<1>1. PICK answer \in EndedAnswers(i), held \in HeldLive(i) :
         CASE answer = "unanswered" /\ ~cmd.force ->
                Over /\ UNCHANGED <<meta, doomed>>
           [] answer = "unanswered" /\ cmd.force ->
                /\ StopJobs({i}) /\ Settle(i)
                /\ IF held THEN Over ELSE CleanFirst
           [] answer = "listed" -> ChainBehind(i) /\ UNCHANGED <<meta, doomed>>
           [] OTHER ->
                /\ IF held THEN ChainBehind(i) ELSE CleanFirst
                /\ UNCHANGED <<meta, doomed>>
  BY DEF DecideEnded
<1>2. /\ Over \/ CleanFirst \/ ChainBehind(i)
      /\ doomed' = doomed \/ StopJobs({i})
      /\ meta' = meta \/ Settle(i)
      /\ answer # "unanswered" => UNCHANGED <<meta, doomed>>
      /\ answer = "listed" => ChainBehind(i)
  BY <1>1
<1>3. Ends \/ Cleans \/ Behinds(i)
  BY <1>a, <1>b, <1>0, <1>2
<1>4. Fails = {} => answer # "unanswered" /\ EndedAnswers(i) = {answer}
  BY <1>1 DEF EndedAnswers, Answers
<1>5. Ends \/ Behinds(i) \/ (Cleans /\ answer # "listed")
  BY <1>a, <1>b, <1>0, <1>2
<1>. QED BY <1>2, <1>3, <1>4, <1>5

LEMMA DecideInactiveEff ==
  ASSUME TypeOK, DecideInactive
  PROVE  /\ Ends \/ At("prepare") \/ (Ended # {} /\ Behinds(NewestEnded))
         /\ \/ UNCHANGED <<meta, doomed>>
            \/ Ended # {} /\ StopJobs({NewestEnded}) /\ Settle(NewestEnded)
         /\ Fails = {} =>
              /\ UNCHANGED <<meta, doomed>>
              /\ \/ Ends
                 \/ At("prepare") /\ Ended = {}
                 \/ /\ Ended # {} /\ "listed" \in EndedAnswers(NewestEnded)
                    /\ Behinds(NewestEnded)
                 \/ At("prepare") /\ "listed" \notin EndedAnswers(NewestEnded)
<1>a. Over => Ends
  BY OverEff
<1>b. /\ Unchained => At("prepare")
      /\ CleanFirst => Cleans
      /\ \A j \in Id : ChainBehind(j) => Behinds(j)
  BY ChoiceEff
<1>1. CASE Ended = {}
  BY <1>1, <1>b DEF DecideInactive
<1>2. ASSUME Ended # {}, NEW answer \in EndedAnswers(NewestEnded),
             CASE answer = "listed" ->
                    ChainBehind(NewestEnded) /\ UNCHANGED <<meta, doomed>>
               [] answer = "unanswered" /\ ~cmd.force ->
                    Over /\ UNCHANGED <<meta, doomed>>
               [] answer = "unanswered" /\ cmd.force ->
                    Unchained /\ StopJobs({NewestEnded}) /\ Settle(NewestEnded)
               [] OTHER -> Unchained /\ UNCHANGED <<meta, doomed>>
      PROVE  /\ Ends \/ At("prepare") \/ (Ended # {} /\ Behinds(NewestEnded))
             /\ UNCHANGED <<meta, doomed>> \/ (StopJobs({NewestEnded}) /\ Settle(NewestEnded))
             /\ Fails = {} => /\ UNCHANGED <<meta, doomed>>
                              /\ \/ Ends
                                 \/ Behinds(NewestEnded) /\ "listed" \in EndedAnswers(NewestEnded)
                                 \/ At("prepare") /\ "listed" \notin EndedAnswers(NewestEnded)
  <2>1. /\ \/ Over
           \/ Unchained /\ answer # "listed"
           \/ ChainBehind(NewestEnded) /\ answer = "listed"
        /\ UNCHANGED <<meta, doomed>> \/ (StopJobs({NewestEnded}) /\ Settle(NewestEnded))
        /\ answer # "unanswered" => UNCHANGED <<meta, doomed>>
    BY <1>2
  <2>2. \/ Ends
        \/ At("prepare") /\ answer # "listed"
        \/ Behinds(NewestEnded) /\ answer = "listed"
    BY <1>2, <1>a, <1>b, <2>1, Newest
  <2>3. Fails = {} => answer # "unanswered" /\ EndedAnswers(NewestEnded) = {answer}
    BY <1>2 DEF EndedAnswers, Answers
  <2>. QED BY <1>2, <2>1, <2>2, <2>3
<1>. QED BY <1>1, <1>2 DEF DecideInactive

(* What a submission or a run decides. *)
LEMMA DecideSubmitEff ==
  ASSUME TypeOK, DecideSubmit
  PROVE  /\ \/ Ends
            \/ Cleans /\ \E i \in links : meta[i].ended
            \/ At("prepare")
            \/ \E i \in Id : Behinds(i)
         /\ \E i \in Id : doomed' = doomed \/ StopJobs({i})
         /\ \E i \in Id : meta' = meta \/ Settle(i)
         /\ Fails = {} =>
              /\ UNCHANGED <<meta, doomed>>
              /\ \/ Ends
                 \/ At("prepare") /\ links = {} /\ Ended = {}
                 \/ /\ links = {} /\ Ended # {} /\ Behinds(NewestEnded)
                    /\ "listed" \in EndedAnswers(NewestEnded)
                 \/ /\ links = {} /\ At("prepare")
                    /\ "listed" \notin EndedAnswers(NewestEnded)
                 \/ \E i \in links : SchedulerJob(i) /\ Behinds(i)
                 \/ \E i \in links : /\ SchedulerJob(i) /\ meta[i].ended /\ Cleans
                                     /\ "listed" \notin EndedAnswers(i)
<1>. DEFINE Same == UNCHANGED <<meta, doomed>>
<1>a. 0 \in Id /\ \A i \in links : i \in Id
  BY Typed DEF Id, TypeOK
<1>1. CASE links = {} /\ DecideInactive
  <2>1. Ended # {} => NewestEnded \in Id
    BY Newest
  <2>2. /\ Ends \/ At("prepare") \/ \E i \in Id : Behinds(i)
        /\ \E i \in Id : doomed' = doomed \/ StopJobs({i})
        /\ \E i \in Id : meta' = meta \/ Settle(i)
    BY <1>1, <1>a, <2>1, DecideInactiveEff
  <2>. QED BY <1>1, <2>2, DecideInactiveEff
<1>2. ASSUME NEW i \in links, Over, UNCHANGED <<fails, meta, doomed>>
      PROVE  Ends /\ Same
  BY <1>2, OverEff
<1>3. ASSUME NEW i \in links, ChainBehind(i), UNCHANGED <<fails, meta, doomed>>
      PROVE  Behinds(i) /\ Same
  BY <1>3, <1>a, ChoiceEff
<1>4. ASSUME NEW i \in links, DecideEnded(i)
      PROVE  /\ Ends \/ Cleans \/ Behinds(i)
             /\ doomed' = doomed \/ StopJobs({i})
             /\ meta' = meta \/ Settle(i)
             /\ Fails = {} => /\ Same
                              /\ Ends \/ Behinds(i) \/ (Cleans /\ "listed" \notin EndedAnswers(i))
  BY <1>4, DecideEndedEff
<1>5. \/ links = {} /\ DecideInactive
      \/ \E i \in links : \/ Over /\ UNCHANGED <<fails, meta, doomed>>
                          \/ /\ SchedulerJob(i) /\ ChainBehind(i)
                             /\ UNCHANGED <<fails, meta, doomed>>
                          \/ SchedulerJob(i) /\ meta[i].ended /\ DecideEnded(i)
  BY DEF DecideSubmit
<1>6. CASE \E i \in links : Over /\ UNCHANGED <<fails, meta, doomed>>
  BY <1>6, <1>2, <1>a
<1>7. CASE \E i \in links : /\ SchedulerJob(i) /\ ChainBehind(i)
                            /\ UNCHANGED <<fails, meta, doomed>>
  BY <1>7, <1>3, <1>a
<1>8. ASSUME NEW i \in links, SchedulerJob(i), meta[i].ended, DecideEnded(i)
      PROVE  /\ \/ Ends
                \/ Cleans /\ \E j \in links : meta[j].ended
                \/ \E j \in Id : Behinds(j)
             /\ \E j \in Id : doomed' = doomed \/ StopJobs({j})
             /\ \E j \in Id : meta' = meta \/ Settle(j)
             /\ Fails = {} =>
                  /\ Same
                  /\ \/ Ends
                     \/ \E j \in links : SchedulerJob(j) /\ Behinds(j)
                     \/ \E j \in links : /\ SchedulerJob(j) /\ meta[j].ended /\ Cleans
                                         /\ "listed" \notin EndedAnswers(j)
  <2>1. i \in Id
    BY <1>a
  <2>2. /\ Ends \/ Cleans \/ Behinds(i)
        /\ doomed' = doomed \/ StopJobs({i})
        /\ meta' = meta \/ Settle(i)
        /\ Fails = {} => /\ Same
                         /\ Ends \/ Behinds(i) \/ (Cleans /\ "listed" \notin EndedAnswers(i))
    BY <1>8, <1>4
  <2>. HIDE DEF Same
  <2>. QED BY <1>8, <2>1, <2>2
<1>. QED BY <1>1, <1>5, <1>6, <1>7, <1>8

LEMMA DecideRunEff ==
  ASSUME TypeOK, DecideRun
  PROVE  /\ \/ Ends
            \/ Cleans /\ \E i \in links : meta[i].ended
            \/ At("prepare")
         /\ \E i \in Id : doomed' = doomed \/ StopJobs({i})
         /\ \E i \in Id : meta' = meta \/ Settle(i)
         /\ Fails = {} =>
              /\ UNCHANGED <<meta, doomed>>
              /\ \/ Ends
                 \/ At("prepare") /\ links = {} /\ Ended = {}
                 \/ /\ links = {} /\ At("prepare")
                    /\ "listed" \notin EndedAnswers(NewestEnded)
<1>a. 0 \in Id /\ \A i \in links : i \in Id
  BY Typed DEF Id, TypeOK
<1>b. /\ Unchained => At("prepare")
      /\ CleanFirst => Cleans
      /\ Over => Ends
  BY ChoiceEff, OverEff
<1>1. CASE Over /\ UNCHANGED <<fails, meta, doomed>>
  BY <1>1, <1>a, <1>b
<1>2. ASSUME \A i \in links : meta[i].ended,
             NEW answer \in IF Ended = {} THEN {"unasked"} ELSE EndedAnswers(NewestEnded),
             CASE answer = "listed" -> Over /\ UNCHANGED <<meta, doomed>>
               [] answer = "unanswered" /\ ~cmd.force ->
                    Over /\ UNCHANGED <<meta, doomed>>
               [] answer = "unanswered" /\ cmd.force ->
                    /\ StopJobs({NewestEnded}) /\ Settle(NewestEnded)
                    /\ IF links # {} THEN CleanFirst ELSE Unchained
               [] OTHER ->
                    /\ IF links # {} THEN Over ELSE Unchained
                    /\ UNCHANGED <<meta, doomed>>
      PROVE  /\ \/ Ends
                \/ Cleans /\ \E i \in links : meta[i].ended
                \/ At("prepare")
             /\ \E i \in Id : doomed' = doomed \/ StopJobs({i})
             /\ \E i \in Id : meta' = meta \/ Settle(i)
             /\ Fails = {} =>
                  /\ UNCHANGED <<meta, doomed>>
                  /\ \/ Ends
                     \/ At("prepare") /\ links = {} /\ Ended = {}
                     \/ /\ links = {} /\ At("prepare")
                        /\ "listed" \notin EndedAnswers(NewestEnded)
  <2>1. \/ Over /\ UNCHANGED <<meta, doomed>>
        \/ /\ answer = "unanswered" /\ StopJobs({NewestEnded}) /\ Settle(NewestEnded)
           /\ IF links # {} THEN CleanFirst ELSE Unchained
        \/ answer # "listed" /\ links = {} /\ Unchained /\ UNCHANGED <<meta, doomed>>
    BY <1>2
  <2>2. Fails = {} => /\ answer # "unanswered"
                      /\ Ended # {} => EndedAnswers(NewestEnded) = {answer}
    BY <1>2 DEF EndedAnswers, Answers
  <2>3. answer = "unanswered" => NewestEnded \in Id
    BY <1>2, Newest
  <2>4. \/ Ends /\ UNCHANGED <<meta, doomed>>
        \/ /\ answer = "unanswered" /\ StopJobs({NewestEnded}) /\ Settle(NewestEnded)
           /\ \/ Cleans /\ \E i \in links : meta[i].ended
              \/ At("prepare")
        \/ answer # "listed" /\ links = {} /\ At("prepare") /\ UNCHANGED <<meta, doomed>>
    BY <1>2, <1>b, <2>1
  <2>. QED BY <1>a, <2>2, <2>3, <2>4
<1>. QED BY <1>1, <1>2 DEF DecideRun

(* What a stop and a delete do. *)
LEMMA StopEff ==
  ASSUME TypeOK, Stop
  PROVE  /\ cmd.at = "stop"
         /\ \/ Ends
            \/ /\ \A i \in links : meta[i].ended
               /\ At("deactivate")
               /\ Fails = {} => /\ Ended # {}
                                /\ "listed" \notin EndedAnswers(NewestEnded)
            \/ \E i \in links : ~meta[i].ended /\ Takes("await", i)
            \/ \E i \in links :
                 /\ ~meta[i].ended /\ Takes("finish", i)
                 /\ \/ meta[i].foreground /\ FALSE \in HeldLive(i)
                    \/ ~meta[i].foreground /\ (meta[i].job => StopJobs({i}))
         /\ doomed' = doomed \/ \E i \in links \cup Ended : StopJobs({i})
         /\ \E i \in Id : meta' = meta \/ Settle(i)
         /\ Fails = {} => UNCHANGED meta
         /\ UNCHANGED <<chained, links, queue, requeues, runVars, gone>>
<1>a. 0 \in Id /\ \A i \in links : i \in Id
  BY Typed DEF Id, TypeOK
<1>b. cmd \in Cmd
  BY DEF TypeOK
<1>1. ASSUME NEW i \in links, StopActive(i)
      PROVE  /\ \/ Ends
                \/ ~meta[i].ended /\ Takes("await", i)
                \/ /\ ~meta[i].ended /\ Takes("finish", i)
                   /\ \/ meta[i].foreground /\ FALSE \in HeldLive(i)
                      \/ ~meta[i].foreground /\ (meta[i].job => StopJobs({i}))
             /\ doomed' = doomed \/ StopJobs({i})
             /\ UNCHANGED meta
  <2>1. ~meta[i].ended /\ UNCHANGED meta
    BY <1>1 DEF StopActive
  <2>2. CASE cmd' = [cmd EXCEPT !.at = "await", !.cur = i] /\ UNCHANGED doomed
    BY <1>b, <2>1, <2>2 DEF Takes, SameWork, Cmd
  <2>3. CASE Over /\ UNCHANGED doomed
    BY <2>1, <2>3, OverEff
  <2>4. CASE /\ meta[i].foreground /\ FALSE \in HeldLive(i) /\ UNCHANGED doomed
             /\ cmd' = [cmd EXCEPT !.at = "finish", !.cur = i]
    <3>1. Takes("finish", i)
      BY <1>b, <2>4 DEF Takes, SameWork, Cmd
    <3>. QED BY <2>1, <2>4, <3>1
  <2>5. CASE /\ ~meta[i].foreground /\ StopJobs({j \in {i} : meta[j].job})
             /\ cmd' = [cmd EXCEPT !.at = "finish", !.cur = i]
    <3>1. Takes("finish", i)
      BY <1>b, <2>5 DEF Takes, SameWork, Cmd
    <3>2. meta[i].job \in BOOLEAN
      BY <1>a DEF TypeOK, Meta
    <3>3. CASE meta[i].job
      <4>1. {j \in {i} : meta[j].job} = {i}
        BY <3>3
      <4>. QED BY <2>1, <2>5, <3>1, <4>1
    <3>4. CASE ~meta[i].job
      <4>1. doomed' = doomed
        BY <2>5, <3>4 DEF StopJobs
      <4>. QED BY <2>1, <2>5, <3>1, <3>4, <4>1
    <3>. QED BY <3>2, <3>3, <3>4
  <2>6. \A held \in HeldLive(i) : held \in BOOLEAN
    BY DEF HeldLive
  <2>. QED BY <1>1, <2>2, <2>3, <2>4, <2>5, <2>6 DEF StopActive
<1>2. CASE StopEnded
  <2>1. \A i \in links : meta[i].ended
    BY <1>2 DEF StopEnded
  <2>2. CASE Ended = {}
    BY <1>a, <1>2, <2>2, OverEff DEF StopEnded, Stop
  <2>3. CASE Ended # {}
    <3>1. PICK answer \in EndedAnswers(NewestEnded) :
            /\ IF answer \in {"listed", "unanswered"} THEN StopJobs({NewestEnded})
               ELSE UNCHANGED doomed
            /\ IF answer = "unanswered" THEN Settle(NewestEnded) ELSE UNCHANGED meta
            /\ IF answer = "listed" THEN Over ELSE Goto("deactivate")
      BY <1>2, <2>3 DEF StopEnded
    <3>2. Ends \/ (At("deactivate") /\ answer # "listed")
      BY <3>1, OverEff, GotoEff
    <3>3. Fails = {} => answer # "unanswered" /\ EndedAnswers(NewestEnded) = {answer}
      BY <3>1 DEF EndedAnswers, Answers
    <3>4. NewestEnded \in Id /\ NewestEnded \in Ended
      BY <2>3, Newest
    <3>5. /\ doomed' = doomed \/ StopJobs({NewestEnded})
          /\ meta' = meta \/ Settle(NewestEnded)
          /\ answer # "unanswered" => UNCHANGED meta
      BY <3>1
    <3>. QED BY <2>1, <2>3, <3>2, <3>3, <3>4, <3>5 DEF Stop
  <2>. QED BY <2>1, <2>2, <2>3 DEF Stop
<1>3. cmd.at = "stop" /\ UNCHANGED <<chained, links, queue, requeues, runVars, gone>>
  BY DEF Stop
<1>4. (\E i \in links : StopActive(i)) \/ StopEnded
  BY DEF Stop
<1>. QED BY <1>a, <1>1, <1>2, <1>3, <1>4

LEMMA AwaitEff ==
  ASSUME TypeOK, Await
  PROVE  /\ cmd.at = "await"
         /\ \/ Ends
            \/ /\ At("finish")
               /\ Fails = {} /\ SchedulerJob(cmd.cur) => ~Listed(cmd.cur)
               /\ ~SchedulerJob(cmd.cur) => FALSE \in HeldLive(cmd.cur)
         /\ UNCHANGED <<recVars, jobVars, runVars, gone>>
<1>0. cmd.at = "await" /\ UNCHANGED <<recVars, jobVars, runVars, gone>>
  BY DEF Await
<1>1. CASE SchedulerJob(cmd.cur)
  <2>1. PICK answer \in Answers(cmd.cur) :
          IF answer \in {"listed", "unanswered"} THEN Over ELSE Goto("finish")
    BY <1>1 DEF Await
  <2>2. Fails = {} /\ Listed(cmd.cur) => answer = "listed"
    BY <2>1 DEF Answers
  <2>. QED BY <1>0, <1>1, <2>1, <2>2, OverEff, GotoEff
<1>2. CASE ~SchedulerJob(cmd.cur)
  <2>1. PICK held \in HeldLive(cmd.cur) : IF held THEN Over ELSE Goto("finish")
    BY <1>2 DEF Await
  <2>2. held \in BOOLEAN
    BY <2>1 DEF HeldLive
  <2>. QED BY <1>0, <1>2, <2>1, <2>2, OverEff, GotoEff
<1>. QED BY <1>1, <1>2

LEMMA FinishEff ==
  ASSUME TypeOK, CmdInv, Finish
  PROVE  /\ cmd.at = "finish" /\ cmd.cur \in Id /\ At("deactivate")
         /\ \A i \in Id \ {cmd.cur} : meta'[i] = meta[i]
         /\ meta'[cmd.cur].ended /\ SameRecord(cmd.cur) /\ ~meta'[cmd.cur].settled
         /\ UNCHANGED <<chained, links, jobVars, runVars, gone>>
<1>1. cmd.cur \in Id /\ At("deactivate")
  BY GotoEff DEF Finish, CmdInv
<1>2. PICK m \in Meta : m = meta[cmd.cur]
  BY <1>1 DEF TypeOK
<1>3. meta' = [meta EXCEPT ![cmd.cur] = [m EXCEPT !.ended = TRUE, !.settled = FALSE]]
  BY <1>1, <1>2 DEF Finish, TypeOK
<1>4. /\ meta'[cmd.cur] = [m EXCEPT !.ended = TRUE, !.settled = FALSE]
      /\ \A i \in Id \ {cmd.cur} : meta'[i] = meta[i]
  BY <1>1, <1>3 DEF TypeOK
<1>5. /\ meta'[cmd.cur].ended /\ ~meta'[cmd.cur].settled
      /\ meta'[cmd.cur].made = m.made /\ meta'[cmd.cur].job = m.job
      /\ meta'[cmd.cur].foreground = m.foreground
  BY <1>2, <1>4 DEF Meta
<1>. QED BY <1>1, <1>2, <1>4, <1>5 DEF Finish, SameRecord

LEMMA DeleteEff ==
  ASSUME TypeOK, Delete
  PROVE  /\ cmd.at = "live"
         /\ \/ Ends
            \/ /\ At("remove")
               /\ \A i \in Made : meta[i].foreground => FALSE \in HeldLive(i)
               /\ Fails = {} => \A i \in AskedAbout : Listed(i) => i \in doomed'
         /\ \E js \in SUBSET Id : doomed' = doomed \/ StopJobs(js)
         /\ UNCHANGED <<recVars, queue, requeues, runVars, gone>>
<1>1. CASE Over /\ UNCHANGED doomed
  BY <1>1, OverEff DEF Delete
<1>2. ASSUME NEW wrong \in SUBSET AskedAbout,
             Fails # {} \/ wrong = {},
             StopJobs({i \in AskedAbout \ wrong : Listed(i)}),
             \A i \in Made : meta[i].foreground => FALSE \in HeldLive(i),
             Goto("remove")
      PROVE  /\ At("remove")
             /\ Fails = {} => \A i \in AskedAbout : Listed(i) => i \in doomed'
             /\ \E js \in SUBSET Id : doomed' = doomed \/ StopJobs(js)
  <2>1. {i \in AskedAbout \ wrong : Listed(i)} \in SUBSET Id
    BY DEF AskedAbout, Made
  <2>. QED BY <1>2, <2>1, GotoEff DEF StopJobs
<1>. QED BY <1>1, <1>2, OverEff DEF Delete

LEMMA SimpleEff ==
  ASSUME TypeOK
  PROVE  /\ Abort => /\ Ends /\ (DeletesRemove => cmd.at # "remove")
                     /\ UNCHANGED <<recVars, jobVars, runVars, gone>>
         /\ Deactivate => /\ cmd.at = "deactivate" /\ Ends /\ links' = {}
                          /\ UNCHANGED <<meta, chained, jobVars, runVars, gone>>
         /\ Remove => /\ cmd.at = "remove" /\ Ends /\ gone'
                      /\ UNCHANGED <<recVars, jobVars, runVars>>
BY OverEff DEF Abort, Deactivate, Remove

(* A process and the scheduler deal with one restart at a time. *)
Apart(i) == \A j \in Id \ {i} :
  /\ meta'[j] = meta[j] /\ queue'[j] = queue[j] /\ run'[j] = run[j]
  /\ mine'[j] = mine[j] /\ beat'[j] = beat[j]

LEMMA ApartEff ==
  ASSUME TypeOK, NEW i \in Id, Process(i) \/ Scheduler(i) \/ Time(i)
  PROVE  /\ Apart(i) /\ ~gone
         /\ UNCHANGED <<chained, doomed, cmd, gone>>
         /\ links' = links \/ Handoff(i) \/ Rename(i)
<1>. USE DEF Apart, Next1, recVars, jobVars, runVars, TypeOK
<1>1. CASE Process(i)
  BY <1>1 DEF Process, Handoff, GivesUp, Rename, Load, TakeRunning, StoreStart,
      ExecEnds, StoreEnd
<1>2. CASE Scheduler(i)
  BY <1>2 DEF Scheduler, JobStarts, Dies, JobLeaves, Requeue, Killed
<1>3. CASE Time(i)
  BY <1>3 DEF Time, BeatStales, CorpseExpires
<1>. QED BY <1>1, <1>2, <1>3

(* What they make of it. *)
LEMMA MovesEff ==
  ASSUME TypeOK, NEW i \in Id
  PROVE  /\ Handoff(i) => /\ run[i] = "wait" /\ SimLockFree
                          /\ \/ links = {i} /\ run'[i] = "load" /\ links' = links
                             \/ links # {i} /\ run'[i] = "rename" /\ links' = {}
         /\ GivesUp(i) => run[i] = "wait" /\ run'[i] = "off"
         /\ Rename(i) => run[i] = "rename" /\ run'[i] = "load" /\ links' = links \cup {i}
         /\ Load(i) => run[i] = "load" /\ run'[i] = "begin" /\ mine'[i] = meta[i]
         /\ TakeRunning(i) => run[i] = "begin" /\ run'[i] = "store" /\ beat'[i] = "fresh"
         /\ StoreStart(i) => /\ run[i] = "store" /\ run'[i] = "exec"
                             /\ meta'[i] = [mine[i] EXCEPT !.ended = FALSE]
         /\ ExecEnds(i) => run[i] = "exec" /\ run'[i] = "end"
         /\ StoreEnd(i) => /\ run[i] = "end" /\ run'[i] = "off" /\ mine'[i] = NoMeta
                           /\ meta'[i] = [mine[i] EXCEPT !.ended = TRUE, !.settled = FALSE]
         /\ JobStarts(i) => /\ queue[i] = "queued" /\ queue'[i] = "running"
                            /\ run'[i] = "wait"
                            /\ chained[i] # None => queue[chained[i]] = "over"
         /\ Dies(i) => /\ run[i] # "off" \/ (queue[i] = "queued" /\ i \in doomed)
                       /\ run'[i] = "off" /\ mine'[i] = NoMeta
                       /\ queue'[i] = IF Listed(i) THEN "over" ELSE queue[i]
         /\ JobLeaves(i) => queue[i] = "running" /\ queue'[i] = "over" /\ run[i] = "off"
         /\ Requeue(i) => /\ queue[i] = "running" /\ queue'[i] = "queued" /\ i \notin doomed
                          /\ run'[i] = "off" /\ mine'[i] = NoMeta
         /\ BeatStales(i) => /\ run[i] \notin Running \cup {"end"}
                             /\ ~(run[i] = "begin" /\ meta[i].foreground)
BY DEF TypeOK, Handoff, GivesUp, Rename, Load, TakeRunning, StoreStart, ExecEnds,
       StoreEnd, JobStarts, Dies, JobLeaves, Requeue, Killed, BeatStales, Next1

(* And what they leave alone. *)
LEMMA StaysEff ==
  ASSUME TypeOK, NEW i \in Id
  PROVE  /\ Process(i) => queue'[i] = queue[i]
         /\ Scheduler(i) \/ Time(i) => meta'[i] = meta[i]
         /\ Handoff(i) \/ GivesUp(i) \/ Rename(i) \/ Load(i) \/ TakeRunning(i)
              \/ ExecEnds(i) => meta'[i] = meta[i]
         /\ Process(i) /\ ~Load(i) /\ ~StoreEnd(i) => mine'[i] = mine[i]
         /\ Process(i) /\ ~TakeRunning(i) => beat'[i] = beat[i]
         /\ JobStarts(i) \/ JobLeaves(i) \/ Time(i) => mine'[i] = mine[i]
         /\ Time(i) => queue'[i] = queue[i] /\ run'[i] = run[i]
         /\ JobLeaves(i) => run'[i] = run[i]
         /\ Scheduler(i) => beat'[i] = beat[i]
         /\ CorpseExpires(i) => beat'[i] = beat[i]
<1>. USE DEF Next1, recVars, jobVars, runVars, TypeOK
<1>1. Process(i) => queue'[i] = queue[i]
  BY DEF Process, Handoff, GivesUp, Rename, Load, TakeRunning, StoreStart,
      ExecEnds, StoreEnd
<1>2. Process(i) /\ ~Load(i) /\ ~StoreEnd(i) => mine'[i] = mine[i]
  BY DEF Process, Handoff, GivesUp, Rename, TakeRunning, StoreStart, ExecEnds
<1>3. Process(i) /\ ~TakeRunning(i) => beat'[i] = beat[i]
  BY DEF Process, Handoff, GivesUp, Rename, Load, StoreStart, ExecEnds, StoreEnd
<1>4. Scheduler(i) \/ Time(i) => meta'[i] = meta[i]
  BY DEF Scheduler, Time, JobStarts, Dies, JobLeaves, Requeue, BeatStales, CorpseExpires
<1>5. Handoff(i) \/ GivesUp(i) \/ Rename(i) \/ Load(i) \/ TakeRunning(i)
         \/ ExecEnds(i) => meta'[i] = meta[i]
  BY DEF Handoff, GivesUp, Rename, Load, TakeRunning, ExecEnds
<1>6. JobStarts(i) \/ JobLeaves(i) \/ Time(i) => mine'[i] = mine[i]
  BY DEF Time, JobStarts, JobLeaves, BeatStales, CorpseExpires
<1>7. Time(i) => queue'[i] = queue[i] /\ run'[i] = run[i]
  BY DEF Time, BeatStales, CorpseExpires
<1>8. (JobLeaves(i) => run'[i] = run[i]) /\ (CorpseExpires(i) => beat'[i] = beat[i])
  BY DEF JobLeaves, CorpseExpires
<1>9. Scheduler(i) => beat'[i] = beat[i]
  BY DEF Scheduler, JobStarts, Dies, JobLeaves, Requeue
<1>. QED BY <1>1, <1>2, <1>3, <1>4, <1>5, <1>6, <1>7, <1>8, <1>9

-----------------------------------------------------------------------------
(* The steps keep RunsInv.                                                  *)

LEMMA CommandSteps ==
  ASSUME Command
  PROVE  \/ Abort \/ Reap \/ Unlink \/ Mark \/ DecideSubmit \/ DecideRun
         \/ Prepare \/ Activate \/ Launch \/ Queue \/ Record
         \/ Stop \/ Await \/ Finish \/ Deactivate \/ Delete \/ Remove
         \/ \E op \in Ops : Begin(op)
BY DEF Command, Proceed

LEMMA OpStep ==
  ASSUME TypeOK, CmdInv, MadeInv, OpInv, Command
  PROVE  OpInv'
<1>. USE DEF OpInv
<1>1. CASE Ends
  BY <1>1 DEF Ends
<1>2. ASSUME NEW op \in Ops, Begin(op) PROVE OpInv'
  BY <1>2, BeginEff DEF Ops
<1>3. CASE Reap
  BY <1>1, <1>3, ReapEff DEF At, SameWork
<1>4. CASE Unlink
  BY <1>4, UnlinkEff DEF At, SameWork, Takes, CmdInv
<1>5. CASE Mark
  BY <1>1, <1>5, MarkEff DEF SameWork, Takes, CmdInv
<1>6. CASE DecideSubmit
  <2>1. cmd.at = "decide" /\ cmd.op = "submit"
    BY <1>6 DEF DecideSubmit
  <2>2. CASE Cleans
    BY <2>1, <2>2 DEF Cleans
  <2>3. CASE At("prepare")
    BY <2>1, <2>3 DEF At, SameWork
  <2>4. ASSUME NEW i \in Id, Behinds(i) PROVE OpInv'
    BY <2>1, <2>4 DEF Behinds
  <2>. QED BY <1>1, <1>6, <2>2, <2>3, <2>4, DecideSubmitEff
<1>7. CASE DecideRun
  <2>1. cmd.at = "decide" /\ cmd.op = "run"
    BY <1>7 DEF DecideRun
  <2>2. CASE Cleans
    BY <2>1, <2>2 DEF Cleans
  <2>3. CASE At("prepare")
    BY <2>1, <2>3 DEF At, SameWork
  <2>. QED BY <1>1, <1>7, <2>2, <2>3, DecideRunEff
<1>8. CASE Prepare
  BY <1>1, <1>8, PrepareEff DEF SameWork, Takes
<1>9. CASE Activate
  BY <1>1, <1>9, ActivateEff DEF At, SameWork
<1>10. CASE Launch \/ Abort \/ Deactivate \/ Remove
  BY <1>1, <1>10, LaunchEff, SimpleEff
<1>11. CASE Queue
  BY <1>11, QueueEff DEF At, SameWork
<1>12. CASE Record
  BY <1>1, <1>12, RecordEff DEF Behinds
<1>13. CASE Stop
  BY <1>1, <1>13, StopEff DEF At, SameWork, Takes
<1>14. CASE Await
  BY <1>1, <1>14, AwaitEff DEF At, SameWork
<1>15. CASE Finish
  BY <1>15, FinishEff DEF At, SameWork
<1>16. CASE Delete
  BY <1>1, <1>16, DeleteEff DEF At, SameWork
<1>. QED BY <1>2, <1>3, <1>4, <1>5, <1>6, <1>7, <1>8, <1>9, <1>10, <1>11, <1>12,
            <1>13, <1>14, <1>15, <1>16, CommandSteps

(* What is made stays made, and a foreground run one. *)
LEMMA CommandKeeps ==
  ASSUME TypeOK, CmdInv, Command, ~Prepare
  PROVE  /\ \A i \in Id : /\ meta'[i].made = meta[i].made
                          /\ meta'[i].foreground = meta[i].foreground
         /\ ~Mark /\ ~Finish => \A i \in Id : meta'[i].ended = meta[i].ended
         /\ Made' = Made
<1>1. /\ \A i \in Id : /\ meta'[i].made = meta[i].made
                       /\ meta'[i].foreground = meta[i].foreground
      /\ ~Mark /\ ~Finish => \A i \in Id : meta'[i].ended = meta[i].ended
  <2>1. CASE Record
    BY <2>1, RecordEff
  <2>2. CASE ~Record
    BY <2>2, KeptRecords DEF SameRecord
  <2>. QED BY <2>1, <2>2
<1>. QED BY <1>1 DEF Made

LEMMA OthersKeep ==
  ASSUME TypeOK, MadeInv, KindInv, NEW i \in Id, Process(i) \/ Scheduler(i) \/ Time(i)
  PROVE  /\ \A j \in Id : /\ meta'[j].made = meta[j].made
                          /\ meta'[j].foreground = meta[j].foreground
         /\ ~StoreStart(i) /\ ~StoreEnd(i) => meta'[i] = meta[i]
         /\ StoreStart(i) => ~meta'[i].ended
         /\ StoreEnd(i) => meta'[i].ended
         /\ Made' = Made
<1>1. Apart(i)
  BY ApartEff
<1>2. ~StoreStart(i) /\ ~StoreEnd(i) => meta'[i] = meta[i]
  BY StaysEff DEF Process
<1>3. CASE StoreStart(i)
  <2>1. PICK m \in Meta : m = mine[i]
    BY DEF TypeOK
  <2>2. /\ run[i] = "store" /\ meta'[i] = [m EXCEPT !.ended = FALSE]
        /\ run[i] \in Running
    BY <1>3, <2>1, MovesEff DEF Running
  <2>3. meta'[i].made = m.made /\ meta'[i].foreground = m.foreground /\ ~meta'[i].ended
    BY <2>1, <2>2 DEF Meta
  <2>4. m.made /\ m.foreground = meta[i].foreground /\ meta[i].made
    BY <2>1, <2>2 DEF MadeInv, KindInv
  <2>5. m.made = meta[i].made
    BY <2>1, <2>4 DEF Meta, TypeOK
  <2>6. run'[i] = "exec"
    BY <1>3, MovesEff
  <2>7. ~StoreEnd(i)
    BY <2>2 DEF StoreEnd
  <2>. QED BY <1>1, <1>3, <2>3, <2>4, <2>5, <2>7 DEF Apart, Made
<1>4. CASE StoreEnd(i)
  <2>1. PICK m \in Meta : m = mine[i]
    BY DEF TypeOK
  <2>2. run[i] = "end" /\ meta'[i] = [m EXCEPT !.ended = TRUE, !.settled = FALSE]
    BY <1>4, <2>1, MovesEff
  <2>3. meta'[i].made = m.made /\ meta'[i].foreground = m.foreground /\ meta'[i].ended
    BY <2>1, <2>2 DEF Meta
  <2>4. m.made /\ m.foreground = meta[i].foreground /\ meta[i].made
    BY <2>1, <2>2 DEF MadeInv, KindInv
  <2>5. m.made = meta[i].made
    BY <2>1, <2>4 DEF Meta, TypeOK
  <2>7. ~StoreStart(i)
    BY <2>2 DEF StoreStart
  <2>. QED BY <1>1, <1>4, <2>3, <2>4, <2>5, <2>7 DEF Apart, Made
<1>5. CASE ~StoreStart(i) /\ ~StoreEnd(i)
  BY <1>1, <1>2, <1>5 DEF Apart, Made
<1>. QED BY <1>3, <1>4, <1>5

LEMMA KindStep ==
  ASSUME TypeOK, CmdInv, MadeInv, OpInv, KindInv, FreshInv, [Next]_vars
  PROVE  KindInv'
<1>. USE DEF Handing, Running
<1>1. CASE UNCHANGED vars
  BY <1>1 DEF vars, KindInv
<1>2. CASE Prepare
  <2>1. UNCHANGED <<queue, run, mine, doomed>>
    BY <1>2, PrepareEff DEF jobVars, runVars
  <2>2. CASE UNCHANGED meta
    BY <2>1, <2>2 DEF KindInv
  <2>3. CASE ~UNCHANGED meta
    <3>1. /\ NextId \in Id /\ NextId \notin Made
          /\ \A i \in Id \ {NextId} : meta'[i] = meta[i]
      BY <1>2, <2>3, PrepareEff
    <3>2. queue[NextId] = "none" /\ run[NextId] = "off"
      BY <3>1 DEF MadeInv, Made
    <3>. QED BY <2>1, <3>1, <3>2 DEF KindInv
  <2>. QED BY <2>2, <2>3
<1>3. CASE Launch
  <2>1. \A i \in Id : meta'[i].foreground = meta[i].foreground
    BY <1>3, LaunchEff DEF recVars
  <2>2. meta[cmd.cur].foreground /\ cmd.cur \in Id
    BY <1>3, LaunchEff DEF OpInv, FreshInv
  <2>3. UNCHANGED <<queue, doomed>>
    BY <1>3, LaunchEff DEF jobVars
  <2>. QED BY <1>3, <2>1, <2>2, <2>3, LaunchEff DEF KindInv
<1>4. CASE Queue
  <2>1. \A i \in Id : meta'[i].foreground = meta[i].foreground
    BY <1>4, QueueEff DEF recVars
  <2>2. ~meta[cmd.cur].foreground /\ run[cmd.cur] = "off" /\ cmd.cur \in Id
    BY <1>4, QueueEff DEF OpInv, FreshInv
  <2>3. UNCHANGED <<run, mine, doomed>>
    BY <1>4, QueueEff DEF runVars
  <2>4. /\ \A i \in Id \ {cmd.cur} : queue'[i] = queue[i]
        /\ queue'[cmd.cur] = "queued"
    BY <1>4, QueueEff
  <2>5. doomed \subseteq Id
    BY DEF TypeOK
  <2>. QED BY <2>1, <2>2, <2>3, <2>4, <2>5 DEF KindInv
<1>5. CASE Command /\ ~Prepare /\ ~Launch /\ ~Queue
  <2>1. UNCHANGED <<queue, run, mine>>
    BY <1>5, CommandSteps DEF Begin, Abort, Reap, Unlink, Mark, DecideSubmit,
        DecideRun, Activate, Record, Stop, Await, Finish, Deactivate, Delete,
        Remove, jobVars, runVars
  <2>2. \A i \in Id : meta'[i].foreground = meta[i].foreground
    BY <1>5, CommandKeeps
  <2>3. doomed' = doomed \/ \E js \in SUBSET Id : StopJobs(js)
    <3>1. CASE Stop
      <4>1. links \cup Ended \subseteq Id
        BY DEF TypeOK, Ended, Made
      <4>. QED BY <3>1, <4>1, StopEff
    <3>2. CASE DecideSubmit \/ DecideRun
      BY <3>2, DecideSubmitEff, DecideRunEff
    <3>. QED BY <1>5, <3>1, <3>2, CommandSteps, DeleteEff
             DEF Begin, Abort, Reap, Unlink, Mark, Activate, Record, Await, Finish,
                 Deactivate, Remove, jobVars
  <2>4. \A i \in doomed' : queue[i] # "none"
    BY <2>3 DEF StopJobs, Listed, KindInv
  <2>. QED BY <2>1, <2>2, <2>4 DEF KindInv
<1>6. ASSUME NEW i \in Id, Process(i) \/ Scheduler(i) \/ Time(i)
      PROVE  KindInv'
  <2>0. doomed \subseteq Id
    BY DEF TypeOK
  <2>1. /\ Apart(i) /\ doomed' = doomed
        /\ \A j \in Id : meta'[j].foreground = meta[j].foreground
    BY <1>6, ApartEff, OthersKeep
  <2>2. /\ meta[i].foreground => queue[i] = "none" /\ run[i] \notin Handing \cup {"wait"}
        /\ run[i] # "off" => meta[i].foreground \/ queue[i] = "running"
        /\ run[i] \in Running \cup {"begin", "end"} =>
             mine[i].foreground = meta[i].foreground
        /\ i \in doomed => queue[i] # "none"
    BY DEF KindInv
  <2>3. /\ meta[i].foreground => queue'[i] = "none" /\ run'[i] \notin Handing \cup {"wait"}
        /\ run'[i] # "off" => meta[i].foreground \/ queue'[i] = "running"
        /\ run'[i] \in Running \cup {"begin", "end"} =>
             mine'[i].foreground = meta[i].foreground
        /\ i \in doomed => queue'[i] # "none"
    <3>1. CASE Process(i)
      BY <2>2, <3>1, MovesEff, StaysEff DEF Process
    <3>2. CASE Scheduler(i)
      BY <2>2, <3>2, MovesEff, StaysEff DEF Scheduler, Listed
    <3>3. CASE Time(i)
      BY <2>2, <3>3, StaysEff
    <3>. QED BY <1>6, <3>1, <3>2, <3>3
  <2>. QED BY <2>0, <2>1, <2>3 DEF Apart, KindInv
<1>. QED BY <1>1, <1>2, <1>3, <1>4, <1>5, <1>6 DEF Next

LEMMA FreshStep ==
  ASSUME TypeOK, CmdInv, LockInv, MadeInv, OpInv, KindInv, FreshInv, [Next]_vars
  PROVE  FreshInv'
<1>1. CASE UNCHANGED vars
  BY <1>1 DEF vars, FreshInv, Made
<1>2. CASE Prepare
  <2>1. UNCHANGED <<queue, run, links>>
    BY <1>2, PrepareEff DEF jobVars, runVars
  <2>2. CASE Ends /\ UNCHANGED <<meta, chained>>
    BY <2>1, <2>2 DEF FreshInv, Ends, Made
  <2>3. CASE /\ NextId \in Id /\ NextId \notin Made
             /\ Takes(IF cmd.first THEN "activate" ELSE "queue", NextId)
             /\ \A i \in Id \ {NextId} : meta'[i] = meta[i] /\ chained'[i] = chained[i]
             /\ meta'[NextId].made /\ ~meta'[NextId].ended /\ ~meta'[NextId].settled
             /\ meta'[NextId].foreground = (cmd.op = "run")
             /\ chained'[NextId] = cmd.prev
             /\ \A i \in Made : i < NextId
    <3>1. Made' = Made \cup {NextId}
      BY <2>3 DEF Made
    <3>2. queue[NextId] = "none" /\ run[NextId] = "off"
      BY <2>3 DEF MadeInv, Made
    <3>3. \A i \in Made' : i <= NextId
      BY <2>3, <3>1, Typed DEF Made
    <3>4. /\ cmd'.at \in {"activate", "queue"} /\ cmd'.cur = NextId
          /\ cmd'.op = cmd.op /\ cmd'.prev = cmd.prev
      BY <2>3 DEF Takes, SameWork
    <3>. QED BY <2>1, <2>3, <3>1, <3>2, <3>3, <3>4 DEF FreshInv
  <2>. QED BY <1>2, <2>2, <2>3, PrepareEff
<1>3. CASE Command /\ ~Prepare
  <2>1. /\ \A i \in Id : /\ meta'[i].made = meta[i].made
                         /\ meta'[i].foreground = meta[i].foreground
        /\ Made' = Made
        /\ UNCHANGED chained
    <3>1. UNCHANGED chained
      BY <1>3, CommandSteps DEF Begin, Abort, Reap, Unlink, Mark, DecideSubmit,
          DecideRun, Activate, Launch, Queue, Record, Stop, Await, Finish,
          Deactivate, Delete, Remove, recVars
    <3>. QED BY <1>3, <3>1, CommandKeeps
  <2>2. \A i \in Id \ Made' : ~meta'[i].ended /\ ~meta'[i].foreground
    <3>1. Mark \/ Finish => cmd.cur \in Made
      BY DEF Mark, Finish, FreshInv
    <3>2. CASE Mark \/ Finish
      <4>1. \A i \in Id \ {cmd.cur} : meta'[i] = meta[i]
        BY <3>2, MarkEff, FinishEff
      <4>. QED BY <2>1, <3>1, <3>2, <4>1 DEF FreshInv
    <3>3. CASE ~Mark /\ ~Finish
      BY <1>3, <2>1, <3>3, CommandKeeps DEF FreshInv
    <3>. QED BY <3>2, <3>3
  <2>3. links' \subseteq Made'
    <3>1. CASE Activate
      BY <2>1, <3>1, ActivateEff DEF FreshInv, MadeInv, Made, CmdInv
    <3>2. CASE ~Activate
      <4>1. links' \subseteq links
        BY <1>3, <3>2, CommandSteps DEF Begin, Abort, Reap, Unlink, Mark, DecideSubmit,
          DecideRun, Launch, Queue, Record, Stop, Await, Finish,
          Deactivate, Delete, Remove, recVars
      <4>. QED BY <2>1, <4>1 DEF FreshInv
    <3>. QED BY <3>1, <3>2
  <2>3a. cmd'.at \in {"mark", "await", "finish"} => cmd'.cur \in Made'
    <3>1. CASE Ends \/ cmd'.at \notin {"mark", "await", "finish"}
      BY <3>1 DEF Ends
    <3>2. CASE Unlink
      BY <2>1, <3>1, <3>2, UnlinkEff DEF FreshInv, At, Takes, CmdInv
    <3>3. CASE Stop
      BY <2>1, <3>1, <3>3, StopEff DEF FreshInv, At, Takes
    <3>4. CASE Await
      BY <2>1, <3>1, <3>4, AwaitEff DEF FreshInv, At
    <3>5. CASE Mark
      BY <3>1, <3>5, MarkEff DEF CmdInv, Takes
    <3>6. ASSUME NEW op \in Ops, Begin(op) PROVE cmd'.at \notin {"mark", "await", "finish"}
      BY <3>6, BeginEff DEF Ops
    <3>7. CASE Reap \/ DecideSubmit \/ DecideRun \/ Delete \/ Finish
      BY <3>1, <3>7, ReapEff, DecideSubmitEff, DecideRunEff, DeleteEff, FinishEff
         DEF At, Cleans, Behinds
    <3>8. CASE Abort \/ Activate \/ Launch \/ Queue \/ Record \/ Deactivate \/ Remove
      BY <3>1, <3>8, SimpleEff, ActivateEff, LaunchEff, QueueEff, RecordEff DEF At, Behinds
    <3>. QED BY <1>3, <3>2, <3>3, <3>4, <3>5, <3>6, <3>7, <3>8, <3>1, CommandSteps
  <2>4. CASE cmd'.at \notin {"activate", "launch", "queue", "record"}
    BY <2>2, <2>3, <2>3a, <2>4 DEF FreshInv
  <2>5. CASE Activate
    <3>1. CASE Ends
      BY <2>4, <3>1 DEF Ends
    <3>2. CASE ~Ends
      <4>1. /\ cmd.at = "activate" /\ links' = {cmd.cur} /\ cmd'.cur = cmd.cur
            /\ cmd'.op = cmd.op /\ cmd'.prev = cmd.prev
            /\ cmd'.at \in {"launch", "queue"}
            /\ UNCHANGED <<meta, queue, run>>
        BY <2>5, <3>2, ActivateEff DEF At, SameWork, jobVars, runVars
      <4>. QED BY <2>1, <2>2, <2>3, <4>1 DEF FreshInv
    <3>. QED BY <3>1, <3>2
  <2>6. CASE Queue
    <3>1. /\ cmd.at = "queue" /\ cmd'.cur = cmd.cur /\ cmd'.op = cmd.op
          /\ cmd'.at = "record" 
      BY <2>6, QueueEff DEF At, SameWork
    <3>2. cmd.cur \in Id
      BY <3>1 DEF CmdInv
    <3>. QED BY <2>1, <2>2, <2>3, <3>1, <3>2 DEF FreshInv
  <2>7. CASE ~Record /\ cmd'.at \in {"activate", "launch", "queue", "record"}
    BY <1>3, <2>5, <2>6, <2>7, NewWorkSteps
  <2>8. CASE Record
    <3>1. cmd'.at \in {"idle", "prepare"}
      BY <2>8, RecordEff DEF Ends, Behinds
    <3>. QED BY <2>4, <3>1
  <2>. QED BY <2>4, <2>7, <2>8
<1>4. ASSUME NEW i \in Id, Process(i) \/ Scheduler(i) \/ Time(i)
      PROVE  FreshInv'
  <2>1. /\ Apart(i) /\ UNCHANGED <<chained, cmd>>
        /\ \A j \in Id : meta'[j].foreground = meta[j].foreground
        /\ Made' = Made
    BY <1>4, ApartEff, OthersKeep
  <2>2. CASE queue[i] = "none" /\ run[i] = "off"
    <3>1. queue'[i] = queue[i] /\ run'[i] = run[i] /\ meta'[i] = meta[i] /\ links' = links
      <4>1. ~Process(i) /\ ~Scheduler(i)
        BY <2>2, MovesEff DEF Process, Scheduler
      <4>. QED BY <1>4, <4>1, StaysEff DEF Time, BeatStales, CorpseExpires, recVars
    <3>. QED BY <2>1, <3>1 DEF Apart, FreshInv, CmdInv
  <2>3. CASE queue[i] # "none" \/ run[i] # "off"
    <3>1. i \in Made
      BY <2>3 DEF MadeInv, Made
    <3>2. links' \subseteq links \cup {i}
      BY <1>4, ApartEff, MovesEff
    <3>3. cmd.at = "launch" => links' = links
      BY <1>4, ApartEff, MovesEff DEF LockInv, SimLockFree, Handing
    <3>4. cmd.at \in {"activate", "launch", "queue"} => i # cmd.cur
      BY <2>3 DEF FreshInv
    <3>. QED BY <2>1, <3>1, <3>2, <3>3, <3>4 DEF Apart, FreshInv, CmdInv
  <2>. QED BY <2>2, <2>3
<1>. QED BY <1>1, <1>2, <1>3, <1>4 DEF Next

LEMMA BeatStep ==
  ASSUME TypeOK, TypeOK', CmdInv, LockInv, LinkInv, MadeInv, OpInv, OpInv', KindInv,
         FreshInv, BeatInv, [Next]_vars
  PROVE  BeatInv'
<1>0. \A i \in Launching : i \in Id /\ meta[i].foreground /\ run[i] = "begin"
  BY DEF Launching, Made
<1>1. CASE UNCHANGED vars
  BY <1>1 DEF vars, BeatInv, Launching, Made
<1>2. CASE Launch
  <2>1. \A i \in Id : run'[i] \in Running \cup {"end"} => beat'[i] = "fresh"
    BY <1>2, LaunchEff DEF BeatInv, Running
  <2>2. QuickLaunch => \A i \in Launching' : beat'[i] = "fresh" /\ ~meta'[i].ended
    <3>1. UNCHANGED meta
      BY <1>2, LaunchEff DEF recVars
    <3>2. Launching' \subseteq Launching \cup {cmd.cur}
      BY <1>2, <3>1, LaunchEff DEF Launching, Made
    <3>. QED BY <1>2, <3>1, <3>2, <1>0, LaunchEff DEF BeatInv, FreshInv
  <2>3. cmd'.at = "idle" /\ cmd'.op = "none"
    BY <1>2, LaunchEff DEF Ends
  <2>. QED BY <2>1, <2>2, <2>3 DEF BeatInv
<1>3. CASE Command /\ ~Launch
  <2>1. UNCHANGED <<run, beat>>
    BY <1>3, CommandSteps DEF Begin, Abort, Reap, Unlink, Mark, DecideSubmit,
        DecideRun, Prepare, Activate, Queue, Record, Stop, Await, Finish,
        Deactivate, Delete, Remove, runVars
  <2>2. Launching' = Launching
    <3>1. CASE Prepare
      <4>1. CASE UNCHANGED meta
        BY <2>1, <4>1 DEF Launching, Made
      <4>2. CASE ~UNCHANGED meta
        <5>1. /\ NextId \in Id /\ NextId \notin Made
              /\ \A i \in Id \ {NextId} : meta'[i] = meta[i]
          BY <3>1, <4>2, PrepareEff
        <5>2. run[NextId] = "off"
          BY <5>1 DEF MadeInv, Made
        <5>. QED BY <2>1, <5>1, <5>2 DEF Launching, Made
      <4>. QED BY <4>1, <4>2
    <3>2. CASE ~Prepare
      <4>1. \A i \in Id : /\ meta'[i].made = meta[i].made
                          /\ meta'[i].foreground = meta[i].foreground
        BY <1>3, <3>2, CommandKeeps
      <4>. QED BY <2>1, <4>1 DEF Launching, Made
    <3>. QED BY <3>1, <3>2
  <2>3. QuickLaunch => \A i \in Launching : ~meta'[i].ended
    <3>1. CASE Prepare
      BY <1>0, <3>1, PrepareEff DEF BeatInv
    <3>2. CASE Mark \/ Finish
      <4>1. QuickLaunch => cmd.cur \notin Launching
        BY <3>2 DEF BeatInv, Mark, Finish, OpInv
      <4>2. \A i \in Id \ {cmd.cur} : meta'[i] = meta[i]
        BY <3>2, MarkEff, FinishEff
      <4>. QED BY <1>0, <4>1, <4>2 DEF BeatInv
    <3>3. CASE ~Prepare /\ ~Mark /\ ~Finish
      BY <1>0, <1>3, <3>3, CommandKeeps DEF BeatInv
    <3>. QED BY <3>1, <3>2, <3>3
  <2>4. QuickLaunch /\ cmd'.op \in {"stop", "clean", "delete"} => Launching = {}
    <3>1. ASSUME NEW op \in Ops, Begin(op) PROVE QuickLaunch /\ cmd'.op \in {"stop", "clean", "delete"} => Launching = {}
      BY <3>1, BeginEff
    <3>2. CASE cmd'.op \in {"none", cmd.op}
      BY <3>2 DEF BeatInv
    <3>3. CASE Command /\ ~\E op \in Ops : Begin(op)
      <4>1. CASE Reap \/ Unlink \/ Mark \/ Abort
        BY <3>2, <4>1, ReapEff, UnlinkEff, MarkEff, SimpleEff DEF Ends, At, SameWork, Takes
      <4>2. CASE DecideSubmit \/ DecideRun \/ Prepare \/ Activate \/ Launch
        BY <3>2, <4>2, DecideSubmitEff, DecideRunEff, PrepareEff, ActivateEff, LaunchEff
           DEF Ends, At, SameWork, Takes, Cleans, Behinds
      <4>3. CASE Queue \/ Record \/ Stop \/ Await
        BY <3>2, <4>3, QueueEff, RecordEff, StopEff, AwaitEff
           DEF Ends, At, SameWork, Takes, Behinds
      <4>4. CASE Finish \/ Deactivate \/ Delete \/ Remove
        BY <3>2, <4>4, FinishEff, DeleteEff, SimpleEff DEF Ends, At, SameWork
      <4>. QED BY <3>3, <4>1, <4>2, <4>3, <4>4, CommandSteps
    <3>. QED BY <1>3, <3>1, <3>3
  <2>5. QuickLaunch /\ cmd'.at = "unlink" => links' \cap Launching = {}
    <3>1. ASSUME NEW op \in Ops, Begin(op), cmd'.at = "unlink", QuickLaunch
          PROVE  links' \cap Launching = {}
      BY <3>1, BeginEff DEF Ops
    <3>2. ASSUME Reap, cmd'.at = "unlink", QuickLaunch
          PROVE  links' \cap Launching = {}
      <4>1. PICK i \in links : meta[i].ended \/ beat[i] # "fresh"
        BY <3>2, ReapEff DEF Ends, At, TrulyDead
      <4>2. i \notin Launching
        BY <3>2, <4>1 DEF BeatInv
      <4>3. UNCHANGED links
        BY <3>2, ReapEff DEF recVars
      <4>. QED BY <4>1, <4>2, <4>3 DEF LinkInv
    <3>3. ASSUME DecideSubmit \/ DecideRun, cmd'.at = "unlink", QuickLaunch
          PROVE  links' \cap Launching = {}
      <4>1. PICK i \in links : meta[i].ended
        BY <3>3, DecideSubmitEff, DecideRunEff DEF Ends, At, Behinds
      <4>2. i \notin Launching
        BY <3>3, <4>1 DEF BeatInv
      <4>3. UNCHANGED links
        BY <3>3 DEF DecideSubmit, DecideRun
      <4>. QED BY <4>1, <4>2, <4>3 DEF LinkInv
    <3>4. CASE Unlink \/ Mark \/ Prepare \/ Activate \/ Queue \/ Record
      BY <3>4, UnlinkEff, MarkEff, PrepareEff, ActivateEff, QueueEff, RecordEff
         DEF Ends, At, Takes, Behinds, CmdInv
    <3>5. CASE Stop \/ Await \/ Finish \/ Delete \/ Abort \/ Deactivate \/ Remove
      BY <3>5, StopEff, AwaitEff, FinishEff, DeleteEff, SimpleEff DEF Ends, At, Takes
    <3>. QED BY <1>3, <3>1, <3>2, <3>3, <3>4, <3>5, CommandSteps
  <2>6. QuickLaunch /\ cmd'.at = "mark" => cmd'.cur \notin Launching
    <3>1. CASE Unlink
      BY <3>1, UnlinkEff DEF At, Takes, CmdInv, BeatInv
    <3>2. CASE ~Unlink
      <4>1. ASSUME NEW op \in Ops, Begin(op) PROVE cmd'.at # "mark"
        BY <4>1, BeginEff DEF Ops
      <4>2. CASE Reap \/ Mark \/ DecideSubmit \/ DecideRun
        BY <4>2, ReapEff, MarkEff, DecideSubmitEff, DecideRunEff
           DEF Ends, At, Takes, Behinds, Cleans, CmdInv
      <4>3. CASE Prepare \/ Activate \/ Queue \/ Record
        BY <4>3, PrepareEff, ActivateEff, QueueEff, RecordEff DEF Ends, At, Takes, Behinds
      <4>4. CASE Stop \/ Await \/ Finish \/ Delete \/ Abort \/ Deactivate \/ Remove
        BY <4>4, StopEff, AwaitEff, FinishEff, DeleteEff, SimpleEff DEF Ends, At, Takes
      <4>. QED BY <1>3, <3>2, <4>1, <4>2, <4>3, <4>4, CommandSteps
    <3>. QED BY <3>1, <3>2
  <2>. QED BY <2>1, <2>2, <2>3, <2>4, <2>5, <2>6 DEF BeatInv
<1>4. ASSUME NEW i \in Id, Process(i) \/ Scheduler(i) \/ Time(i)
      PROVE  BeatInv'
  <2>1. /\ Apart(i) /\ UNCHANGED cmd
        /\ \A j \in Id : meta'[j].foreground = meta[j].foreground
        /\ Made' = Made
        /\ ~StoreStart(i) /\ ~StoreEnd(i) => meta'[i] = meta[i]
    BY <1>4, ApartEff, OthersKeep
  <2>2. run'[i] \in Running \cup {"end"} => beat'[i] = "fresh"
    <3>1. CASE Process(i)
      BY <3>1, MovesEff, StaysEff DEF Process, BeatInv, Running
    <3>2. CASE Scheduler(i)
      BY <3>2, MovesEff, StaysEff DEF Scheduler, BeatInv, Running
    <3>3. CASE Time(i)
      BY <3>3, MovesEff, StaysEff DEF Time, BeatInv
    <3>. QED BY <1>4, <3>1, <3>2, <3>3
  <2>3. meta[i].foreground /\ run'[i] = "begin" =>
          run[i] = "begin" /\ beat'[i] = beat[i] /\ meta'[i] = meta[i]
    <3>1. CASE Process(i)
      BY <2>1, <3>1, MovesEff, StaysEff DEF Process, KindInv, Handing
    <3>2. CASE Scheduler(i)
      BY <2>1, <3>2, MovesEff, StaysEff DEF Scheduler
    <3>3. CASE Time(i)
      BY <2>1, <3>3, MovesEff, StaysEff DEF Time
    <3>. QED BY <1>4, <3>1, <3>2, <3>3
  <2>4. Launching' \subseteq Launching
    BY <2>1, <2>3 DEF Launching, Apart, Made
  <2>5. QuickLaunch => \A j \in Launching' : beat'[j] = "fresh" /\ ~meta'[j].ended
    <3>1. ASSUME QuickLaunch, NEW j \in Launching'
          PROVE  beat'[j] = "fresh" /\ ~meta'[j].ended
      <4>1. j \in Launching /\ j \in Id /\ run'[j] = "begin" /\ meta[j].foreground
        BY <1>0, <2>4, <3>1 DEF Launching
      <4>2. beat'[j] = beat[j] /\ meta'[j] = meta[j]
        BY <2>1, <2>3, <4>1 DEF Apart
      <4>. QED BY <3>1, <4>1, <4>2 DEF BeatInv
    <3>. QED BY <3>1
  <2>6. cmd.at = "unlink" => links' = links
    BY <1>4, ApartEff, MovesEff DEF LockInv, SimLockFree, Handing
  <2>. QED BY <2>1, <2>2, <2>4, <2>5, <2>6 DEF Apart, BeatInv
<1>. QED BY <1>1, <1>2, <1>3, <1>4 DEF Next

LEMMA RunsInit == Init => RunsInv
<1>. SUFFICES ASSUME Init PROVE RunsInv
  OBVIOUS
<1>1. OpInv
  BY DEF Init, OpInv, NoCmd
<1>2. KindInv
  BY DEF Init, KindInv, NoMeta, Handing, Running
<1>3. FreshInv
  BY DEF Init, FreshInv, NoCmd, NoMeta, Made
<1>4. BeatInv
  BY DEF Init, BeatInv, NoCmd, NoMeta, Launching, Made, Running
<1>. QED BY <1>1, <1>2, <1>3, <1>4 DEF Init, RunsInv

LEMMA RunsStep ==
  ASSUME TypeOK, TypeOK', CmdInv, LockInv, LinkInv, MadeInv, RunsInv, [Next]_vars
  PROVE  RunsInv'
<1>1. OpInv /\ KindInv /\ FreshInv /\ BeatInv
  BY DEF RunsInv
<1>2. OpInv'
  <2>1. CASE UNCHANGED cmd
    BY <1>1, <2>1 DEF OpInv
  <2>2. CASE Command
    BY <1>1, <2>2, OpStep
  <2>3. ASSUME NEW i \in Id, Process(i) \/ Scheduler(i) \/ Time(i)
        PROVE  UNCHANGED cmd
    BY <2>3, ApartEff
  <2>. QED BY <2>1, <2>2, <2>3 DEF Next, vars
<1>3. KindInv' /\ FreshInv' /\ BeatInv'
  BY <1>1, <1>2, KindStep, FreshStep, BeatStep
<1>4. (gone => cmd.at = "idle")'
  <2>1. CASE UNCHANGED <<gone, cmd>>
    BY <2>1 DEF RunsInv
  <2>2. ASSUME NEW op \in Ops, Begin(op) PROVE ~gone'
    BY <2>2, BeginEff
  <2>3. CASE Remove
    BY <2>3, SimpleEff DEF Ends
  <2>4. CASE cmd.at # "idle" /\ UNCHANGED gone
    BY <2>4 DEF RunsInv
  <2>5. CASE Command
    BY <2>2, <2>3, <2>4, <2>5, CommandSteps DEF Abort, Reap, Unlink, Mark, DecideSubmit, DecideRun,
       Prepare, Activate, Launch, Queue, Record, Stop, Await, Finish, Deactivate, Delete
  <2>6. ASSUME NEW i \in Id, Process(i) \/ Scheduler(i) \/ Time(i)
        PROVE  UNCHANGED <<gone, cmd>>
    BY <2>6, ApartEff
  <2>. QED BY <2>1, <2>5, <2>6 DEF Next, vars
<1>. QED BY <1>2, <1>3, <1>4 DEF RunsInv

(* The verdict of the reaper: no run that has begun. *)
LEMMA ReapVerdict ==
  ASSUME TypeOK, CmdInv, LinkInv, RunsInv, QuickLaunch, Next, cmd.at = "reap",
         cmd'.at = "unlink"
  PROVE  \A i \in links : ~HasBegun(i)
<1>1. Reap
  <2>1. Command
    <3>1. ASSUME NEW i \in Id, Process(i) \/ Scheduler(i) \/ Time(i)
          PROVE  FALSE
      BY <3>1, ApartEff
    <3>. QED BY <3>1 DEF Next
  <2>2. ~\E op \in Ops : Begin(op)
    BY DEF Begin, SimLockFree
  <2>3. ~Abort
    BY SimpleEff DEF Ends
  <2>. QED BY <2>1, <2>2, <2>3, CommandSteps DEF Unlink, Mark, DecideSubmit, DecideRun, Prepare, Activate,
       Launch, Queue, Record, Stop, Await, Finish, Deactivate, Delete, Remove
<1>2. PICK i \in links : \E held \in HeldLive(i), listed \in BOOLEAN : TrulyDead(i, listed, held)
  BY <1>1, ReapEff DEF Ends, At
<1>3. i \in Id /\ links = {i} /\ i \in Made
  BY DEF TypeOK, LinkInv, RunsInv, FreshInv
<1>4. run[i] \notin Running
  BY <1>2 DEF TrulyDead, HeldLive
<1>5. meta[i].ended \/ beat[i] # "fresh"
  BY <1>2 DEF TrulyDead
<1>6. ~(run[i] = "begin" /\ meta[i].foreground)
  BY <1>3, <1>5 DEF RunsInv, BeatInv, Launching
<1>7. ~(run[i] = "end" /\ ~meta[i].ended)
  BY <1>3, <1>5 DEF RunsInv, BeatInv
<1>. QED BY <1>3, <1>4, <1>6, <1>7 DEF HasBegun

-----------------------------------------------------------------------------
(* What is taken for over, is.                                              *)

(* When no query fails, the answer about a job is what the queue has of it. *)
LEMMA AnswersTrue ==
  ASSUME TypeOK, KindInv, JobsKnown, NEW i \in Id, ~meta[i].settled,
         cmd.at # "record", "listed" \notin EndedAnswers(i)
  PROVE  ~Listed(i)
<1>1. ASSUME Listed(i) PROVE SchedulerJob(i)
  BY <1>1 DEF JobsKnown, KindInv, SchedulerJob, Listed
<1>. QED BY <1>1 DEF EndedAnswers, Answers

LEMMA PartedJob ==
  ASSUME TypeOK, KindInv, NEW i \in Id, ~Listed(i), ~meta[i].foreground
  PROVE  Parted(i)
BY DEF KindInv, Parted, Listed

LEMMA PartedForeground ==
  ASSUME TypeOK, KindInv, NEW i \in Made, FALSE \in HeldLive(i), i \notin Launching,
         meta[i].foreground
  PROVE  Parted(i)
<1>1. i \in Id
  BY DEF Made
<1>2. queue[i] = "none" /\ run[i] \notin {"wait", "rename", "load"}
  BY <1>1 DEF KindInv, Handing
<1>3. run[i] \notin Running
  BY DEF HeldLive
<1>4. run[i] # "begin"
  BY DEF Launching
<1>5. run[i] \in RunSteps
  BY <1>1 DEF TypeOK
<1>. QED BY <1>2, <1>3, <1>4, <1>5 DEF Parted, Listed, RunSteps, Handing

LEMMA PartedStays ==
  ASSUME TypeOK, CmdInv, [Next]_vars, ~Launch, ~Queue, NEW i \in Id, Parted(i)
  PROVE  Parted(i)'
<1>1. CASE UNCHANGED vars
  BY <1>1 DEF vars, Parted, Listed
<1>2. CASE Command
  <2>1. UNCHANGED <<run, queue>>
    BY <1>2, CommandSteps DEF Begin, Abort, Reap, Unlink, Mark, DecideSubmit,
        DecideRun, Prepare, Activate, Record, Stop, Await, Finish, Deactivate,
        Delete, Remove, runVars, jobVars
  <2>. QED BY <2>1 DEF Parted, Listed
<1>3. ASSUME NEW j \in Id, Process(j) \/ Scheduler(j) \/ Time(j)
      PROVE  Parted(i)'
  <2>1. CASE i # j
    BY <1>3, <2>1, ApartEff DEF Apart, Parted, Listed
  <2>2. CASE i = j
    <3>1. CASE Process(i)
      BY <2>2, <3>1, MovesEff, StaysEff DEF Process, Parted, Listed, Running
    <3>2. CASE Scheduler(i)
      BY <2>2, <3>2, MovesEff, StaysEff DEF Scheduler, Parted, Listed
    <3>3. CASE Time(i)
      BY <2>2, <3>3, StaysEff DEF Parted, Listed
    <3>. QED BY <1>3, <2>2, <3>1, <3>2, <3>3
  <2>. QED BY <2>1, <2>2
<1>. QED BY <1>1, <1>2, <1>3 DEF Next

(* Nothing is settled without a query that went wrong. *)
LEMMA SettledStep ==
  ASSUME TypeOK, CmdInv, MadeInv, Fails = {}, [Next]_vars,
         \A i \in Id : ~meta[i].settled, \A i \in Id : ~mine[i].settled
  PROVE  /\ \A i \in Id : ~meta'[i].settled
         /\ \A i \in Id : ~mine'[i].settled
<1>1. CASE UNCHANGED vars
  BY <1>1 DEF vars
<1>2. CASE Launch
  <2>1. UNCHANGED meta
    BY <1>2, LaunchEff DEF recVars
  <2>. QED BY <1>2, <2>1, LaunchEff
<1>3. CASE Command /\ ~Launch
  <2>1. UNCHANGED mine
    BY <1>3, CommandSteps DEF Begin, Abort, Reap, Unlink, Mark, DecideSubmit,
        DecideRun, Prepare, Activate, Queue, Record, Stop, Await, Finish,
        Deactivate, Delete, Remove, runVars
  <2>2. CASE Prepare
    <3>1. CASE UNCHANGED meta
      BY <2>1, <3>1
    <3>2. CASE ~UNCHANGED meta
      BY <2>1, <2>2, <3>2, PrepareEff
    <3>. QED BY <3>1, <3>2
  <2>3. CASE Mark
    BY <2>1, <2>3, MarkEff
  <2>4. CASE Finish
    BY <2>1, <2>4, FinishEff
  <2>5. CASE Record
    BY <2>1, <2>5, RecordEff
  <2>6. CASE ~Prepare /\ ~Mark /\ ~Finish /\ ~Record
    <3>1. UNCHANGED meta
      BY <1>3, <2>6, CommandSteps, DecideSubmitEff, DecideRunEff, StopEff
         DEF Begin, Abort, Reap, Unlink, Activate, Queue, Await, Deactivate,
             Delete, Remove, recVars
    <3>. QED BY <2>1, <3>1
  <2>. QED BY <2>2, <2>3, <2>4, <2>5, <2>6
<1>4. ASSUME NEW i \in Id, Process(i) \/ Scheduler(i) \/ Time(i)
      PROVE  /\ \A j \in Id : ~meta'[j].settled
             /\ \A j \in Id : ~mine'[j].settled
  <2>1. Apart(i)
    BY <1>4, ApartEff
  <2>2. ~mine'[i].settled
    <3>0. ~NoMeta.settled
      BY DEF NoMeta
    <3>1. CASE Process(i)
      BY <3>0, <3>1, MovesEff, StaysEff
    <3>2. CASE Scheduler(i)
      BY <3>0, <3>2, MovesEff, StaysEff DEF Scheduler
    <3>3. CASE Time(i)
      BY <3>3, StaysEff
    <3>. QED BY <1>4, <3>1, <3>2, <3>3
  <2>3. ~meta'[i].settled
    <3>0. PICK m \in Meta : m = mine[i]
      BY DEF TypeOK
    <3>1. CASE StoreStart(i)
      <4>1. meta'[i] = [m EXCEPT !.ended = FALSE]
        BY <3>0, <3>1, MovesEff
      <4>2. meta'[i].settled = m.settled
        BY <3>0, <4>1 DEF Meta
      <4>. QED BY <3>0, <4>2
    <3>2. CASE StoreEnd(i)
      <4>1. meta'[i] = [m EXCEPT !.ended = TRUE, !.settled = FALSE]
        BY <3>0, <3>2, MovesEff
      <4>2. meta'[i].settled = FALSE
        BY <3>0, <4>1 DEF Meta
      <4>. QED BY <4>2
    <3>3. CASE ~StoreStart(i) /\ ~StoreEnd(i)
      BY <1>4, <3>3, StaysEff DEF Process
    <3>. QED BY <3>1, <3>2, <3>3
  <2>. QED BY <2>1, <2>2, <2>3 DEF Apart
<1>. QED BY <1>1, <1>2, <1>3, <1>4 DEF Next

LEMMA PartedStep ==
  ASSUME TypeOK, CmdInv, LockInv, LinkInv, MadeInv, JobsKnown, RunsInv, RunsInv',
         Certain, PartedInv, [Next]_vars
  PROVE  PartedInv'
<1>0. /\ Fails = {} /\ QuickLaunch /\ "clean" \notin Commands
      /\ OpInv /\ KindInv /\ FreshInv /\ BeatInv
      /\ \A i \in Id : ~meta[i].settled
      /\ OpInv'
      /\ links \subseteq Made /\ Made \subseteq Id
  BY DEF Certain, RunsInv, PartedInv, FreshInv, Made
<1>1. /\ \A i \in Id : ~meta'[i].settled
      /\ \A i \in Id : ~mine'[i].settled
  BY <1>0, SettledStep DEF PartedInv
<1>2. CASE UNCHANGED vars
  BY <1>2 DEF vars, PartedInv, Parted, Listed
<1>3. ASSUME cmd'.at = "unlink"
      PROVE  \A i \in links' : Parted(i)'
  <2>1. ASSUME cmd'.at = "unlink", Command, ~UNCHANGED cmd
        PROVE  /\ \A i \in links : Parted(i)
               /\ UNCHANGED <<links, run, queue>>
    <3>1. ASSUME NEW op \in Ops, Begin(op) PROVE FALSE
      BY <1>0, <2>1, <3>1, BeginEff DEF Ops
    <3>2. CASE Reap
      <4>1. PICK i \in links : \E held \in HeldLive(i) :
               \E answer \in IF meta[i].ended THEN EndedAnswers(i)
                             ELSE IF SchedulerJob(i) THEN Answers(i) ELSE {"unasked"} :
                 TrulyDead(i, answer = "listed", held)
        BY <2>1, <3>2, ReapEff DEF Ends, At
      <4>2. i \in Made /\ i \in Id /\ cmd.at = "reap" /\ links = {i}
        BY <1>0, <3>2 DEF Reap, LinkInv
      <4>3. FALSE \in HeldLive(i) /\ (meta[i].ended \/ beat[i] # "fresh")
        BY <4>1 DEF TrulyDead, HeldLive
      <4>4. i \notin Launching
        BY <1>0, <4>3 DEF BeatInv
      <4>5. "listed" \notin EndedAnswers(i)
        BY <1>0, <4>1, <4>2 DEF TrulyDead, EndedAnswers, Answers
      <4>6. ~Listed(i)
        BY <1>0, <4>2, <4>5, AnswersTrue
      <4>7. Parted(i)
        BY <1>0, <4>2, <4>3, <4>4, <4>6, PartedJob, PartedForeground
      <4>8. UNCHANGED <<links, run, queue>>
        BY <3>2, ReapEff DEF recVars, jobVars, runVars
      <4>. QED BY <4>2, <4>7, <4>8
    <3>3. CASE DecideSubmit \/ DecideRun
      <4>1. PICK i \in links : SchedulerJob(i) /\ "listed" \notin EndedAnswers(i)
        BY <1>0, <2>1, <3>3, DecideSubmitEff, DecideRunEff DEF Ends, At, Behinds
      <4>2. i \in Id /\ cmd.at = "decide" /\ links = {i}
        BY <1>0, <3>3 DEF DecideSubmit, DecideRun, LinkInv
      <4>3. ~Listed(i)
        BY <1>0, <4>1, <4>2, AnswersTrue
      <4>4. Parted(i)
        BY <1>0, <4>1, <4>2, <4>3, PartedJob DEF SchedulerJob
      <4>5. UNCHANGED <<links, run, queue>>
        BY <3>3 DEF DecideSubmit, DecideRun, runVars
      <4>. QED BY <4>2, <4>4, <4>5
    <3>4. ~Unlink /\ ~Mark /\ ~Prepare /\ ~Activate /\ ~Launch /\ ~Queue /\ ~Record
      BY <2>1, UnlinkEff, MarkEff, PrepareEff, ActivateEff, LaunchEff, QueueEff, RecordEff
         DEF Ends, At, Takes, Behinds, CmdInv
    <3>5. ~Stop /\ ~Await /\ ~Finish /\ ~Delete /\ ~Abort /\ ~Deactivate /\ ~Remove
      BY <2>1, StopEff, AwaitEff, FinishEff, DeleteEff, SimpleEff DEF Ends, At, Takes
    <3>. QED BY <2>1, <3>1, <3>2, <3>3, <3>4, <3>5, CommandSteps
  <2>2. CASE Command /\ ~UNCHANGED cmd
    BY <1>3, <2>1, <2>2 DEF Parted, Listed
  <2>3. CASE UNCHANGED cmd /\ cmd.at = "unlink"
    <3>1. links' \subseteq links
      <4>1. ASSUME NEW i \in Id, Process(i) \/ Scheduler(i) \/ Time(i)
            PROVE  links' = links
        BY <2>3, <4>1, ApartEff, MovesEff DEF LockInv, SimLockFree, Handing
      <4>2. CASE Command
        <5>1. ~\E op \in Ops : Begin(op)
          BY <2>3 DEF Begin, SimLockFree
        <5>2. Abort \/ Unlink
          BY <2>3, <4>2, <5>1, CommandSteps DEF Reap, Mark, DecideSubmit, DecideRun, Prepare,
             Activate, Launch, Queue, Record, Stop, Await, Finish, Deactivate, Delete, Remove
        <5>. QED BY <5>2, SimpleEff, UnlinkEff DEF recVars
      <4>. QED BY <1>2, <4>1, <4>2 DEF Next, vars
    <3>2. ~Launch /\ ~Queue
      BY <2>3 DEF Launch, Queue
    <3>. QED BY <1>0, <2>3, <3>1, <3>2, PartedStays DEF PartedInv
  <2>4. ASSUME NEW i \in Id, Process(i) \/ Scheduler(i) \/ Time(i)
        PROVE  UNCHANGED cmd
    BY <2>4, ApartEff
  <2>. QED BY <1>2, <1>3, <2>2, <2>3, <2>4 DEF Next, vars
<1>4. ASSUME cmd'.at = "mark"
      PROVE  Parted(cmd.cur)'
  <2>1. CASE Unlink
    <3>1. PICK i \in links : Takes("mark", i) /\ cmd.at = "unlink" /\ UNCHANGED <<run, queue>>
      BY <1>4, <2>1, UnlinkEff DEF At, CmdInv, runVars, jobVars
    <3>. QED BY <3>1 DEF Takes, PartedInv, Parted, Listed
  <2>2. CASE UNCHANGED cmd
    <3>1. ~Launch /\ ~Queue /\ cmd.cur \in Id
      BY <1>4, <2>2 DEF Launch, Queue, CmdInv
    <3>. QED BY <1>4, <2>2, <3>1, PartedStays DEF PartedInv
  <2>3. CASE Command /\ ~Unlink
    <3>1. ASSUME NEW op \in Ops, Begin(op) PROVE cmd'.at # "mark"
      BY <3>1, BeginEff DEF Ops
    <3>2. ~Reap /\ ~Mark /\ ~DecideSubmit /\ ~DecideRun
      BY <1>4, ReapEff, MarkEff, DecideSubmitEff, DecideRunEff
         DEF Ends, At, Takes, Behinds, Cleans, CmdInv
    <3>3. ~Prepare /\ ~Activate /\ ~Launch /\ ~Queue /\ ~Record
      BY <1>4, PrepareEff, ActivateEff, LaunchEff, QueueEff, RecordEff DEF Ends, At, Takes, Behinds
    <3>4. ~Stop /\ ~Await /\ ~Finish /\ ~Delete /\ ~Abort /\ ~Deactivate /\ ~Remove
      BY <1>4, StopEff, AwaitEff, FinishEff, DeleteEff, SimpleEff DEF Ends, At, Takes
    <3>. QED BY <1>4, <2>3, <3>1, <3>2, <3>3, <3>4, CommandSteps
  <2>4. ASSUME NEW i \in Id, Process(i) \/ Scheduler(i) \/ Time(i)
        PROVE  UNCHANGED cmd
    BY <2>4, ApartEff
  <2>. QED BY <1>2, <2>1, <2>2, <2>3, <2>4 DEF Next, vars
<1>5. ASSUME cmd'.at = "finish"
      PROVE  (cmd.cur \in doomed \/ Parted(cmd.cur))'
  <2>1. CASE Stop
    <3>1. PICK i \in links :
                 /\ Takes("finish", i)
                 /\ \/ meta[i].foreground /\ FALSE \in HeldLive(i)
                    \/ ~meta[i].foreground /\ (meta[i].job => StopJobs({i}))
      BY <1>5, <2>1, StopEff DEF Ends, At, Takes
    <3>2. cmd.at = "stop" /\ UNCHANGED <<run, queue>>
      BY <2>1, StopEff DEF runVars
    <3>3. i \in Made /\ i \in Id /\ Launching = {}
      BY <1>0, <3>2 DEF BeatInv, OpInv
    <3>4. CASE meta[i].foreground /\ FALSE \in HeldLive(i)
      <4>1. Parted(i)
        BY <1>0, <3>3, <3>4, PartedForeground
      <4>. QED BY <3>1, <3>2, <4>1 DEF Takes, Parted, Listed
    <3>5. CASE ~meta[i].foreground /\ (meta[i].job => StopJobs({i}))
      <4>1. Listed(i) => i \in doomed'
        BY <3>2, <3>3, <3>5 DEF JobsKnown, StopJobs
      <4>2. ~Listed(i) => Parted(i)
        BY <1>0, <3>3, <3>5, PartedJob
      <4>. QED BY <3>1, <3>2, <4>1, <4>2 DEF Takes, Parted, Listed
    <3>. QED BY <3>1, <3>4, <3>5
  <2>2. CASE Await
    <3>1. /\ At("finish") /\ cmd.at = "await" /\ UNCHANGED <<run, queue>>
          /\ SchedulerJob(cmd.cur) => ~Listed(cmd.cur)
          /\ ~SchedulerJob(cmd.cur) => FALSE \in HeldLive(cmd.cur)
      BY <1>0, <1>5, <2>2, AwaitEff DEF Ends, jobVars, runVars
    <3>2. cmd.cur \in Made /\ cmd.cur \in Id /\ Launching = {}
      BY <1>0, <3>1 DEF FreshInv, BeatInv, OpInv
    <3>3. Parted(cmd.cur)
      <4>1. CASE SchedulerJob(cmd.cur)
        BY <1>0, <3>1, <3>2, <4>1, PartedJob DEF SchedulerJob
      <4>2. CASE ~SchedulerJob(cmd.cur) /\ meta[cmd.cur].foreground
        BY <1>0, <3>1, <3>2, <4>2, PartedForeground
      <4>3. CASE ~meta[cmd.cur].job /\ ~meta[cmd.cur].foreground
        <5>1. ~Listed(cmd.cur)
          BY <3>1, <3>2, <4>3 DEF JobsKnown
        <5>. QED BY <1>0, <3>2, <4>3, <5>1, PartedJob
      <4>. QED BY <4>1, <4>2, <4>3 DEF SchedulerJob
    <3>. QED BY <3>1, <3>3 DEF At, Parted, Listed
  <2>3. CASE UNCHANGED cmd
    <3>1. ~Launch /\ ~Queue /\ cmd.cur \in Id
      BY <1>5, <2>3 DEF Launch, Queue, CmdInv
    <3>2. doomed \subseteq doomed'
      <4>1. ASSUME NEW i \in Id, Process(i) \/ Scheduler(i) \/ Time(i)
            PROVE  doomed' = doomed
        BY <4>1, ApartEff
      <4>2. CASE Command
        BY <4>2, CommandSteps, DecideSubmitEff, DecideRunEff, StopEff, DeleteEff
           DEF Begin, Abort, Reap, Unlink, Mark, Prepare, Activate, Launch, Queue, Record,
               Await, Finish, Deactivate, Remove, jobVars, StopJobs
      <4>. QED BY <1>2, <4>1, <4>2 DEF Next, vars
    <3>. QED BY <1>5, <2>3, <3>1, <3>2, PartedStays DEF PartedInv
  <2>4. CASE Command /\ ~Stop /\ ~Await
    <3>1. ASSUME NEW op \in Ops, Begin(op) PROVE cmd'.at # "finish"
      BY <3>1, BeginEff DEF Ops
    <3>2. ~Reap /\ ~Unlink /\ ~Mark /\ ~DecideSubmit /\ ~DecideRun
      BY <1>5, ReapEff, UnlinkEff, MarkEff, DecideSubmitEff, DecideRunEff
         DEF Ends, At, Takes, Behinds, Cleans, CmdInv
    <3>3. ~Prepare /\ ~Activate /\ ~Launch /\ ~Queue /\ ~Record
      BY <1>5, PrepareEff, ActivateEff, LaunchEff, QueueEff, RecordEff DEF Ends, At, Takes, Behinds
    <3>4. ~Finish /\ ~Delete /\ ~Abort /\ ~Deactivate /\ ~Remove
      BY <1>5, FinishEff, DeleteEff, SimpleEff DEF Ends, At, Takes
    <3>. QED BY <1>5, <2>4, <3>1, <3>2, <3>3, <3>4, CommandSteps
  <2>5. ASSUME NEW i \in Id, Process(i) \/ Scheduler(i) \/ Time(i)
        PROVE  UNCHANGED cmd
    BY <2>5, ApartEff
  <2>. QED BY <1>2, <2>1, <2>2, <2>3, <2>4, <2>5 DEF Next, vars
<1>6. \A i \in Id : meta'[i].foreground /\ run'[i] \in Running => ~meta'[i].ended
  <2>1. CASE Command
    <3>1. CASE Launch
      <4>1. UNCHANGED meta
        BY <3>1, LaunchEff DEF recVars
      <4>. QED BY <3>1, <4>1, LaunchEff DEF PartedInv, Running
    <3>2. CASE Prepare
      <4>1. UNCHANGED run
        BY <3>2, PrepareEff DEF runVars
      <4>2. CASE UNCHANGED meta
        BY <4>1, <4>2 DEF PartedInv
      <4>3. CASE ~UNCHANGED meta
        BY <3>2, <4>1, <4>3, PrepareEff DEF PartedInv
      <4>. QED BY <4>2, <4>3
    <3>3. CASE Mark \/ Finish
      <4>1. /\ UNCHANGED run /\ cmd.cur \in Id /\ \A i \in Id \ {cmd.cur} : meta'[i] = meta[i]
            /\ SameRecord(cmd.cur)
        BY <3>3, MarkEff, FinishEff DEF runVars
      <4>2. cmd.cur \in doomed \/ Parted(cmd.cur)
        BY <3>3 DEF PartedInv, Mark, Finish
      <4>3. Parted(cmd.cur) => run[cmd.cur] \notin Running
        BY DEF Parted, Running
      <4>4. cmd.cur \in doomed => ~meta[cmd.cur].foreground
        BY <1>0, <4>1 DEF KindInv
      <4>. QED BY <4>1, <4>2, <4>3, <4>4 DEF SameRecord, PartedInv
    <3>4. CASE ~Launch /\ ~Prepare /\ ~Mark /\ ~Finish
      <4>1. UNCHANGED run
        BY <2>1, <3>4, CommandSteps DEF Begin, Abort, Reap, Unlink, DecideSubmit,
            DecideRun, Activate, Queue, Record, Stop, Await, Deactivate, Delete,
            Remove, runVars
      <4>. QED BY <2>1, <3>4, <4>1, CommandKeeps DEF PartedInv
    <3>. QED BY <3>1, <3>2, <3>3, <3>4
  <2>2. ASSUME NEW i \in Id, Process(i) \/ Scheduler(i) \/ Time(i)
        PROVE  \A j \in Id : meta'[j].foreground /\ run'[j] \in Running => ~meta'[j].ended
    <3>1. /\ Apart(i) /\ \A j \in Id : meta'[j].foreground = meta[j].foreground
          /\ ~StoreStart(i) /\ ~StoreEnd(i) => meta'[i] = meta[i]
          /\ StoreStart(i) => ~meta'[i].ended
          /\ meta[i].foreground /\ run[i] \in Running => ~meta[i].ended
      BY <1>0, <2>2, ApartEff, OthersKeep DEF PartedInv
    <3>2. meta[i].foreground /\ run'[i] \in Running => ~meta'[i].ended
      <4>1. CASE TakeRunning(i)
        <5>1. run[i] = "begin" /\ ~StoreStart(i) /\ ~StoreEnd(i)
          BY <4>1 DEF TakeRunning, StoreStart, StoreEnd
        <5>2. i \in Made
          BY <5>1 DEF MadeInv, Made
        <5>. QED BY <1>0, <3>1, <5>1, <5>2 DEF BeatInv, Launching
      <4>2. CASE StoreStart(i)
        BY <3>1, <4>2
      <4>3. CASE StoreEnd(i)
        BY <4>3, MovesEff DEF Running
      <4>4. CASE Process(i) /\ ~TakeRunning(i) /\ ~StoreStart(i) /\ ~StoreEnd(i)
        BY <3>1, <4>4, MovesEff DEF Process, Running
      <4>5. CASE Scheduler(i) /\ ~StoreStart(i) /\ ~StoreEnd(i)
        BY <3>1, <4>5, MovesEff, StaysEff DEF Scheduler, Running
      <4>6. CASE Time(i) /\ ~StoreStart(i) /\ ~StoreEnd(i)
        BY <3>1, <4>6, StaysEff
      <4>. QED BY <2>2, <4>1, <4>2, <4>3, <4>4, <4>5, <4>6
    <3>. QED BY <3>1, <3>2 DEF Apart, PartedInv
  <2>. QED BY <1>2, <2>1, <2>2 DEF Next, vars, PartedInv
<1>. QED BY <1>1, <1>3, <1>4, <1>5, <1>6 DEF PartedInv

(* No end is recorded beside a Cactus that runs on. *)
LEMMA EndIsTrueStep ==
  ASSUME TypeOK, CmdInv, MadeInv, RunsInv, Certain, PartedInv, [Next]_vars,
         NEW i \in Id, meta'[i].ended, ~meta[i].ended
  PROVE  i \in doomed \/ run'[i] # "exec"
<1>0. KindInv
  BY DEF RunsInv
<1>1. CASE UNCHANGED vars
  BY <1>1 DEF vars
<1>2. CASE Mark \/ Finish
  <2>1. i = cmd.cur /\ UNCHANGED run
    BY <1>2, MarkEff, FinishEff DEF runVars
  <2>. QED BY <1>2, <2>1 DEF Mark, Finish, PartedInv, Parted
<1>3. CASE Prepare
  BY <1>3, PrepareEff
<1>4. CASE Command /\ ~Mark /\ ~Finish /\ ~Prepare
  BY <1>4, CommandKeeps
<1>5. ASSUME NEW j \in Id, Process(j) \/ Scheduler(j) \/ Time(j)
      PROVE  run'[i] # "exec"
  <2>1. i = j /\ StoreEnd(i)
    BY <1>0, <1>5, ApartEff, OthersKeep DEF Apart
  <2>. QED BY <2>1, MovesEff
<1>. QED BY <1>1, <1>2, <1>3, <1>4, <1>5 DEF Next

-----------------------------------------------------------------------------
(* The order of the runs.                                                   *)

LEMMA AheadMade ==
  ASSUME TypeOK, MadeInv, FreshInv, NEW i \in Id, Ahead(i)
  PROVE  i \in Made /\ meta[i].made
BY DEF Ahead, Listed, MadeInv, Made, Running

LEMMA PartedNotAhead ==
  ASSUME NEW i \in Id, Parted(i)
  PROVE  ~Ahead(i)
BY DEF Parted, Ahead, Running

(* The jobs told to stop, when every query is answered. *)
LEMMA DoomedSteps ==
  ASSUME TypeOK, Fails = {}, [Next]_vars
  PROVE  /\ doomed \subseteq doomed'
         /\ ~Delete => doomed' = doomed \/ \E i \in links \cup Ended : StopJobs({i})
<1>1. CASE UNCHANGED vars
  BY <1>1 DEF vars
<1>2. CASE Stop
  BY <1>2, StopEff DEF StopJobs
<1>3. CASE Delete
  BY <1>3, DeleteEff DEF StopJobs
<1>4. CASE DecideSubmit \/ DecideRun
  BY <1>4, DecideSubmitEff, DecideRunEff
<1>5. CASE Command /\ ~Stop /\ ~Delete /\ ~DecideSubmit /\ ~DecideRun
  BY <1>5, CommandSteps
     DEF Begin, Abort, Reap, Unlink, Mark, Prepare, Activate, Launch, Queue, Record,
         Await, Finish, Deactivate, Remove, jobVars
<1>6. ASSUME NEW i \in Id, Process(i) \/ Scheduler(i) \/ Time(i)
      PROVE  doomed' = doomed
  BY <1>6, ApartEff
<1>. QED BY <1>1, <1>2, <1>3, <1>4, <1>5, <1>6 DEF Next

(* A job or a run comes to be ahead of others only when it is submitted or  *)
(* launched.                                                                *)
LEMMA AheadSteps ==
  ASSUME TypeOK, CmdInv, MadeInv, KindInv, Fails = {}, [Next]_vars,
         NEW i \in Id, Ahead(i)'
  PROVE  \/ Ahead(i)
         \/ (Launch \/ Queue) /\ i = cmd.cur
<1>0. doomed \subseteq doomed'
  BY DoomedSteps
<1>1. CASE UNCHANGED <<run, queue, meta>>
  BY <1>0, <1>1 DEF Ahead, Listed
<1>2. CASE Prepare
  <2>1. UNCHANGED <<run, queue>>
    BY <1>2, PrepareEff DEF runVars, jobVars
  <2>2. CASE UNCHANGED meta
    BY <1>1, <2>1, <2>2
  <2>3. CASE i = NextId /\ NextId \notin Made
    <3>1. run[i] = "off" /\ queue[i] = "none"
      BY <2>3 DEF MadeInv, Made
    <3>. QED BY <2>1, <3>1 DEF Ahead, Listed, Running
  <2>4. CASE meta'[i] = meta[i]
    BY <1>0, <2>1, <2>4 DEF Ahead, Listed
  <2>. QED BY <1>2, <2>2, <2>3, <2>4, PrepareEff
<1>3. CASE Launch \/ Queue
  <2>1. CASE i # cmd.cur
    <3>1. run'[i] = run[i] /\ queue'[i] = queue[i] /\ meta'[i] = meta[i]
      BY <1>3, <2>1, LaunchEff, QueueEff DEF recVars, jobVars, runVars
    <3>. QED BY <1>0, <3>1 DEF Ahead, Listed
  <2>. QED BY <1>3, <2>1
<1>4. CASE Command /\ ~Prepare /\ ~Launch /\ ~Queue
  <2>1. UNCHANGED <<run, queue>>
    BY <1>4, CommandSteps DEF Begin, Abort, Reap, Unlink, Mark, DecideSubmit,
        DecideRun, Activate, Record, Stop, Await, Finish, Deactivate,
        Delete, Remove, runVars, jobVars
  <2>2. meta'[i].foreground = meta[i].foreground
    BY <1>4, CommandKeeps
  <2>. QED BY <1>0, <2>1, <2>2 DEF Ahead, Listed
<1>5. ASSUME NEW j \in Id, Process(j) \/ Scheduler(j) \/ Time(j)
      PROVE  Ahead(i)
  <2>1. Apart(j) /\ meta'[i].foreground = meta[i].foreground
    BY <1>5, ApartEff, OthersKeep
  <2>2. CASE i # j
    BY <1>0, <2>1, <2>2 DEF Apart, Ahead, Listed
  <2>3. CASE i = j
    <3>0. /\ meta[i].foreground => queue[i] = "none" /\ run[i] \notin {"rename", "load", "wait"}
          /\ run[i] # "off" => meta[i].foreground \/ queue[i] = "running"
      BY DEF KindInv, Handing
    <3>1. CASE Process(i)
      BY <1>0, <2>1, <3>0, <3>1, MovesEff, StaysEff DEF Process, Ahead, Listed, Running
    <3>2. CASE Scheduler(i)
      BY <1>0, <2>1, <3>0, <3>2, MovesEff, StaysEff DEF Scheduler, Ahead, Listed, Running
    <3>3. CASE Time(i)
      BY <1>0, <2>1, <3>3, StaysEff DEF Ahead, Listed
    <3>. QED BY <1>5, <2>3, <3>1, <3>2, <3>3
  <2>. QED BY <2>2, <2>3
<1>. QED BY <1>1, <1>2, <1>3, <1>4, <1>5 DEF Next, vars

(* Which steps change the links, and which the ends. *)
LEMMA LinkSteps ==
  ASSUME [Next]_vars
  PROVE  \/ links' = links
         \/ Unlink \/ Activate \/ Deactivate
         \/ \E i \in Id : Handoff(i) \/ Rename(i)
<1>1. CASE UNCHANGED vars
  BY <1>1 DEF vars
<1>2. CASE Command
  BY <1>2, CommandSteps DEF Begin, Abort, Reap, Mark, DecideSubmit, DecideRun, Prepare,
      Launch, Queue, Record, Stop, Await, Finish, Delete, Remove, recVars
<1>3. ASSUME NEW i \in Id, Process(i) \/ Scheduler(i) \/ Time(i)
      PROVE  links' = links \/ Handoff(i) \/ Rename(i)
  BY <1>3 DEF Process, Scheduler, Time, GivesUp, Load, TakeRunning, StoreStart, ExecEnds,
      StoreEnd, JobStarts, Dies, JobLeaves, Requeue, BeatStales, CorpseExpires, recVars
<1>. QED BY <1>1, <1>2, <1>3 DEF Next

LEMMA EndSteps ==
  ASSUME TypeOK, CmdInv, MadeInv, KindInv, FreshInv, [Next]_vars, NEW i \in Id
  PROVE  /\ meta'[i].ended /\ ~meta[i].ended =>
              ((Mark \/ Finish) /\ i = cmd.cur) \/ StoreEnd(i)
         /\ ~meta'[i].ended /\ meta[i].ended => StoreStart(i)
<1>1. CASE UNCHANGED vars
  BY <1>1 DEF vars
<1>2. CASE Mark \/ Finish
  BY <1>2, MarkEff, FinishEff
<1>3. CASE Prepare
  <2>1. NextId \in Id \ Made => ~meta[NextId].ended
    BY DEF FreshInv
  <2>. QED BY <1>3, <2>1, PrepareEff
<1>4. CASE Command /\ ~Mark /\ ~Finish /\ ~Prepare
  BY <1>4, CommandKeeps
<1>5. ASSUME NEW j \in Id, Process(j) \/ Scheduler(j) \/ Time(j)
      PROVE  /\ meta'[i].ended /\ ~meta[i].ended => StoreEnd(i)
             /\ ~meta'[i].ended /\ meta[i].ended => StoreStart(i)
  <2>1. Apart(j)
    BY <1>5, ApartEff
  <2>. QED BY <1>5, <2>1, OthersKeep DEF Apart
<1>. QED BY <1>1, <1>2, <1>3, <1>4, <1>5 DEF Next

(* What was made keeps its place in the chain. *)
LEMMA ChainSteps ==
  ASSUME TypeOK, MadeInv, [Next]_vars, NEW i \in Id,
         chained'[i] # chained[i]
  PROVE  Prepare /\ i \notin Made
<1>1. ~UNCHANGED vars
  BY DEF vars
<1>2. CASE Prepare
  BY <1>2, PrepareEff
<1>3. CASE Command /\ ~Prepare
  BY <1>3, CommandSteps DEF Begin, Abort, Reap, Unlink, Mark, DecideSubmit,
      DecideRun, Activate, Launch, Queue, Record, Stop, Await, Finish,
      Deactivate, Delete, Remove, recVars
<1>4. ASSUME NEW j \in Id, Process(j) \/ Scheduler(j) \/ Time(j) PROVE FALSE
  BY <1>4, ApartEff
<1>. QED BY <1>1, <1>2, <1>3, <1>4 DEF Next

(* All that the proof that the order is kept may use. *)
InOrder ==
  /\ Orderly
  /\ TypeOK /\ LockInv /\ LinkInv /\ CmdInv /\ MadeInv /\ JobInv /\ RunsInv
  /\ PartedInv /\ ChainInv /\ SubmitInv /\ StopInv

LEMMA InOrderIs ==
  ASSUME InOrder
  PROVE  /\ Certain /\ Fails = {} /\ UserWaits /\ DeletesRemove /\ QuickLaunch
         /\ TypeOK /\ LockInv /\ LinkInv /\ CmdInv /\ MadeInv /\ JobInv /\ RunsInv
         /\ OpInv /\ KindInv /\ FreshInv /\ BeatInv
         /\ PartedInv /\ ChainInv /\ SubmitInv /\ StopInv
BY DEF InOrder, Orderly, Certain, RunsInv

(* Two that are ahead: one that has begun, or ended, is before the other.   *)
LEMMA AheadOrder ==
  ASSUME InOrder, NEW i \in Id, NEW j \in Id, Ahead(i), Ahead(j), i # j,
         meta[i].ended \/ HandedOver(i)
  PROVE  i < j /\ run[j] = "off" /\ ~meta[j].ended
<1>1. meta[i].made /\ meta[j].made
  BY AheadMade, InOrderIs
<1>2. ~(j < i)
  <2>1. ASSUME j < i PROVE ~meta[i].ended /\ run[i] = "off"
    BY <1>1, <2>1, InOrderIs DEF ChainInv, Behind
  <2>. QED BY <2>1 DEF HandedOver, Running
<1>3. i < j
  BY <1>2, Typed DEF Id
<1>. QED BY <1>1, <1>3, InOrderIs DEF ChainInv, Behind

(* A process at its handoff, or about to be. *)
LEMMA HandoffAhead ==
  ASSUME TypeOK, JobInv, NEW i \in Id, run[i] \in {"wait", "rename"}
  PROVE  Ahead(i)
BY DEF JobInv, Ahead, Handing

(* Nothing is ahead where a restart was made active. *)
LEMMA NoneAhead ==
  ASSUME InOrder, cmd.at \in {"activate", "launch"}
  PROVE  \A i \in Id : ~Ahead(i)
BY InOrderIs DEF SubmitInv, OpInv

(* What was ended and is ahead is no foreground run. *)
LEMMA EndedAhead ==
  ASSUME InOrder, NEW i \in Id, Ahead(i), meta[i].ended
  PROVE  Listed(i) /\ ~meta[i].foreground
<1>1. ASSUME meta[i].foreground, run[i] \in Running \cup {"begin"}
      PROVE  FALSE
  <2>1. run[i] \notin Running
    BY <1>1, InOrderIs DEF PartedInv
  <2>2. i \in Launching
    BY <1>1, <2>1, AheadMade, InOrderIs DEF Launching
  <2>. QED BY <2>2, InOrderIs DEF BeatInv
<1>. QED BY <1>1, InOrderIs DEF Ahead, KindInv, Listed

(* What is behind stays behind. *)
LEMMA BehindStays ==
  ASSUME InOrder, [Next]_vars, ~(cmd'.at = "remove"), NEW i \in Id, NEW j \in Id,
         i < j, Ahead(i), meta[j].made
  PROVE  Behind(i, j)'
<1>0. /\ Fails = {} /\ TypeOK /\ CmdInv /\ MadeInv /\ KindInv /\ FreshInv /\ OpInv
      /\ LinkInv /\ JobInv
      /\ meta[i].made /\ Behind(i, j)
      /\ i \in Made /\ j \in Made
  BY AheadMade, InOrderIs DEF ChainInv, Made
<1>1. /\ ~meta[j].ended /\ ~meta[i].foreground
      /\ j \notin links \cup doomed
      /\ run[j] = "off" /\ queue[j] \in {"none", "queued"}
      /\ queue[j] = "queued" => chained[j] # None /\ chained[j] >= i
  BY <1>0 DEF Behind
<1>2. ~meta'[j].ended
  <2>1. ~(Mark /\ j = cmd.cur)
    BY InOrderIs DEF Mark, SubmitInv
  <2>2. ~(Finish /\ j = cmd.cur)
    BY <1>1, InOrderIs DEF Finish, StopInv
  <2>3. ~StoreEnd(j)
    BY <1>1 DEF StoreEnd
  <2>. QED BY <1>0, <1>1, <2>1, <2>2, <2>3, EndSteps
<1>3. ~meta'[i].foreground
  <2>1. CASE Prepare
    BY <1>0, <1>1, <2>1, PrepareEff
  <2>2. CASE Command /\ ~Prepare
    BY <1>0, <1>1, <2>2, CommandKeeps
  <2>3. ASSUME NEW k \in Id, Process(k) \/ Scheduler(k) \/ Time(k)
        PROVE  ~meta'[i].foreground
    BY <1>0, <1>1, <2>3, OthersKeep
  <2>. QED BY <1>1, <2>1, <2>2, <2>3 DEF Next, vars
<1>4. j \notin links'
  <2>1. ~Activate
    BY NoneAhead DEF Activate
  <2>2. Unlink => links' \subseteq links
    BY <1>0, UnlinkEff
  <2>3. Deactivate => links' = {}
    BY DEF Deactivate
  <2>4. ASSUME NEW k \in Id, Handoff(k) \/ Rename(k)
        PROVE  links' \subseteq links \/ (links' \subseteq links \cup {k} /\ run[k] = "rename")
    BY <1>0, <2>4, MovesEff
  <2>. QED BY <1>1, <2>1, <2>2, <2>3, <2>4, LinkSteps
<1>5. j \notin doomed'
  <2>1. ~Delete \/ doomed' = doomed
    BY <1>0, DeleteEff DEF Delete, Over, NoCmd, Goto, TypeOK, Cmd
  <2>2. ASSUME NEW k \in links \cup Ended, StopJobs({k}) PROVE doomed' \subseteq doomed \cup {k}
    BY <2>2 DEF StopJobs
  <2>3. j \notin links \cup Ended
    BY <1>1 DEF Ended
  <2>. QED BY <1>0, <1>1, <2>1, <2>2, <2>3, DoomedSteps
<1>6. CASE UNCHANGED vars
  BY <1>2, <1>3, <1>4, <1>5, <1>1, <1>6 DEF vars, Behind
<1>7. chained'[j] = chained[j]
  BY <1>0, ChainSteps
<1>8. CASE Command
  <2>1. ~(Launch /\ cmd.cur = j)
    BY NoneAhead DEF Launch
  <2>2. CASE Queue
    <3>1. UNCHANGED run /\ \A k \in Id \ {cmd.cur} : queue'[k] = queue[k]
      BY <1>0, <2>2, QueueEff DEF runVars
    <3>2. CASE j # cmd.cur
      BY <1>1, <1>2, <1>3, <1>4, <1>5, <1>7, <3>1, <3>2 DEF Behind
    <3>3. CASE j = cmd.cur
      <4>1. chained[j] # None /\ chained[j] >= i
        <5>1. cmd.prev # None /\ i <= cmd.prev /\ chained[j] = cmd.prev
          BY <2>2, <3>3, InOrderIs DEF Queue, SubmitInv, FreshInv
        <5>. QED BY <5>1
      <4>2. queue'[j] = "queued"
        BY <1>0, <2>2, <3>3, QueueEff
      <4>. QED BY <1>1, <1>2, <1>3, <1>4, <1>5, <1>7, <3>1, <4>1, <4>2 DEF Behind
    <3>. QED BY <3>2, <3>3
  <2>3. CASE Launch
    BY <1>0, <1>1, <1>2, <1>3, <1>4, <1>5, <1>7, <2>1, <2>3, LaunchEff DEF Behind, jobVars
  <2>4. CASE ~Launch /\ ~Queue
    <3>1. UNCHANGED <<run, queue>>
      BY <1>8, <2>4, CommandSteps DEF Begin, Abort, Reap, Unlink, Mark, DecideSubmit,
          DecideRun, Prepare, Activate, Record, Stop, Await, Finish, Deactivate,
          Delete, Remove, runVars, jobVars
    <3>. QED BY <1>1, <1>2, <1>3, <1>4, <1>5, <1>7, <3>1 DEF Behind
  <2>. QED BY <2>2, <2>3, <2>4
<1>9. ASSUME NEW k \in Id, Process(k) \/ Scheduler(k) \/ Time(k)
      PROVE  Behind(i, j)'
  <2>1. Apart(k)
    BY <1>0, <1>9, ApartEff
  <2>2. CASE k # j
    BY <1>1, <1>2, <1>3, <1>4, <1>5, <1>7, <2>1, <2>2 DEF Apart, Behind
  <2>3. CASE k = j
    <3>1. ~JobStarts(j)
      <4>1. SUFFICES ASSUME JobStarts(j) PROVE FALSE
        OBVIOUS
      <4>2. /\ queue[j] = "queued" /\ chained[j] \in Id /\ chained[j] >= i
            /\ queue[chained[j]] = "over"
        BY <1>0, <1>1, <4>1, MovesEff DEF TypeOK
      <4>3. chained[j] # i
        BY <1>1, <4>2 DEF Ahead, Listed
      <4>4. meta[chained[j]].made
        BY <1>0, <4>2 DEF MadeInv
      <4>5. i < chained[j]
        BY <4>2, <4>3, Typed DEF Id
      <4>6. Behind(i, chained[j])
        BY <4>2, <4>4, <4>5, InOrderIs DEF ChainInv
      <4>. QED BY <4>2, <4>6 DEF Behind
    <3>2. ~Process(j) /\ ~Scheduler(j)
      BY <1>0, <1>1, <3>1, MovesEff DEF Process, Scheduler
    <3>. QED BY <1>0, <1>1, <1>2, <1>3, <1>4, <1>5, <1>7, <1>9, <2>3, <3>2, StaysEff DEF Behind
  <2>. QED BY <2>2, <2>3
<1>. QED BY <1>6, <1>8, <1>9 DEF Next

LEMMA BehindStep ==
  ASSUME InOrder, [Next]_vars, ~(cmd'.at = "remove"), NEW i \in Id, NEW j \in Id,
         i < j, Ahead(i)', meta'[j].made
  PROVE  Behind(i, j)'
<1>0. /\ Fails = {} /\ TypeOK /\ CmdInv /\ MadeInv /\ KindInv /\ FreshInv /\ OpInv
  BY InOrderIs
<1>1. CASE Ahead(i) /\ meta[j].made
  BY <1>1, BehindStays
<1>2. CASE Ahead(i) /\ ~meta[j].made
  <2>1. CASE Prepare
    <3>1. j = NextId /\ j \notin Made /\ ~UNCHANGED meta /\ i \in Made
      BY <1>0, <1>2, <2>1, AheadMade, PrepareEff DEF Made
    <3>2. /\ ~meta'[j].ended /\ meta'[i] = meta[i]
          /\ UNCHANGED <<links, doomed, run, queue>>
      BY <1>0, <2>1, <3>1, PrepareEff DEF jobVars, runVars
    <3>3. ~meta[i].foreground
      BY <1>2, <2>1, InOrderIs DEF Prepare, SubmitInv
    <3>4. run[j] = "off" /\ queue[j] = "none" /\ j \notin links \cup doomed
      BY <1>0, <3>1 DEF MadeInv, Made, FreshInv, KindInv
    <3>. QED BY <3>2, <3>3, <3>4 DEF Behind
  <2>2. CASE Command /\ ~Prepare
    BY <1>0, <1>2, <2>2, CommandKeeps DEF Made
  <2>3. ASSUME NEW k \in Id, Process(k) \/ Scheduler(k) \/ Time(k) PROVE FALSE
    BY <1>0, <1>2, <2>3, OthersKeep
  <2>. QED BY <1>2, <2>1, <2>2, <2>3 DEF Next, vars
<1>3. CASE (Launch \/ Queue) /\ i = cmd.cur
  <2>1. UNCHANGED meta
    BY <1>0, <1>3, LaunchEff, QueueEff DEF recVars
  <2>2. \A k \in Made : k <= i
    BY <1>0, <1>3 DEF Launch, Queue, FreshInv
  <2>3. j <= i
    BY <2>1, <2>2 DEF Made
  <2>. QED BY <2>3, Typed DEF Id
<1>. QED BY <1>0, <1>1, <1>2, <1>3, AheadSteps

(* One link: whose run has begun, or ended with its job still listed. *)
LEMMA LinkKept ==
  ASSUME InOrder, [Next]_vars, NEW i \in Id, Ahead(i)', meta'[i].ended \/ HandedOver(i)'
  PROVE  links' \subseteq {i} /\ (i \in links' \/ i \in doomed')
<1>0. /\ Fails = {} /\ TypeOK /\ CmdInv /\ LockInv /\ MadeInv /\ KindInv /\ FreshInv
      /\ OpInv /\ LinkInv /\ JobInv
      /\ doomed \subseteq doomed'
  BY InOrderIs, DoomedSteps
<1>1. CASE Launch /\ i = cmd.cur
  <2>1. links = {i} /\ links' = links
    BY <1>0, <1>1, LaunchEff DEF FreshInv, Launch, recVars
  <2>. QED BY <2>1
<1>2. CASE Queue /\ i = cmd.cur
  <2>1. ~meta[i].ended /\ run[i] = "off" /\ UNCHANGED <<meta, run>>
    BY <1>0, <1>2, QueueEff DEF FreshInv, Queue, recVars, runVars
  <2>. QED BY <2>1 DEF HandedOver, Running
<1>3. CASE Ahead(i) /\ (meta[i].ended \/ HandedOver(i))
  <2>1. links \subseteq {i} /\ (i \in links \/ i \in doomed)
    BY <1>3, InOrderIs DEF ChainInv
  <2>2. CASE links' = links
    BY <1>0, <2>1, <2>2
  <2>3. CASE Unlink
    <3>1. i \notin links
      BY <1>3, <2>3, PartedNotAhead, InOrderIs DEF Unlink, PartedInv
    <3>2. links' \subseteq links
      BY <1>0, <2>3, UnlinkEff
    <3>. QED BY <1>0, <2>1, <3>1, <3>2
  <2>4. CASE Activate
    BY <1>3, <2>4, NoneAhead DEF Activate
  <2>5. CASE Deactivate
    <3>1. links' = {} /\ (i \in links => i \in doomed)
      BY <1>3, <2>5, InOrderIs DEF Deactivate, StopInv
    <3>. QED BY <1>0, <2>1, <3>1
  <2>6. ASSUME NEW k \in Id, Handoff(k) \/ Rename(k)
        PROVE  links' \subseteq {i} /\ (i \in links' \/ i \in doomed')
    <3>1. Ahead(k) /\ run[k] # "off"
      BY <1>0, <2>6, HandoffAhead, MovesEff
    <3>2. k = i
      BY <1>3, <3>1, AheadOrder
    <3>. QED BY <1>0, <2>1, <2>6, <3>2, MovesEff
  <2>. QED BY <2>2, <2>3, <2>4, <2>5, <2>6, LinkSteps
<1>4. CASE Ahead(i) /\ ~meta[i].ended /\ ~HandedOver(i)
  <2>1. CASE meta'[i].ended
    <3>1. ~StoreEnd(i)
      BY <1>4 DEF StoreEnd, HandedOver
    <3>2. (Mark \/ Finish) /\ i = cmd.cur
      BY <1>0, <1>4, <2>1, <3>1, EndSteps
    <3>3. ~Mark
      BY <1>4, InOrderIs DEF Mark, SubmitInv
    <3>4. links = {i} /\ UNCHANGED links
      BY <3>2, <3>3, InOrderIs DEF Finish, StopInv
    <3>. QED BY <3>4
  <2>2. CASE HandedOver(i)'
    <3>1. ~(Launch /\ i = cmd.cur)
      BY <1>4, NoneAhead DEF Launch
    <3>2. run'[i] # run[i]
      BY <1>4, <2>2 DEF HandedOver
    <3>3. Process(i) \/ Scheduler(i) \/ Time(i)
      <4>1. CASE Command
        <5>1. CASE Launch
          BY <1>0, <3>1, <3>2, <5>1, LaunchEff
        <5>2. CASE ~Launch
          BY <3>2, <4>1, <5>2, CommandSteps DEF Begin, Abort, Reap, Unlink, Mark,
              DecideSubmit, DecideRun, Prepare, Activate, Queue, Record, Stop, Await,
              Finish, Deactivate, Delete, Remove, runVars
        <5>. QED BY <5>1, <5>2
      <4>2. ASSUME NEW k \in Id, Process(k) \/ Scheduler(k) \/ Time(k) PROVE k = i
        BY <1>0, <3>2, <4>2, ApartEff DEF Apart
      <4>. QED BY <3>2, <4>1, <4>2 DEF Next, vars
    <3>4. \/ Rename(i)
          \/ Handoff(i) /\ run'[i] = "load"
      BY <1>0, <1>4, <2>2, <3>2, <3>3, MovesEff, StaysEff
         DEF Process, Scheduler, HandedOver, Running
    <3>5. Rename(i) => links = {}
      BY <1>0 DEF Rename, LinkInv
    <3>. QED BY <1>0, <3>4, <3>5, MovesEff
  <2>. QED BY <2>1, <2>2
<1>5. Ahead(i) \/ ((Launch \/ Queue) /\ i = cmd.cur)
  BY <1>0, AheadSteps
<1>. QED BY <1>1, <1>2, <1>3, <1>4, <1>5

LEMMA ChainInvStep ==
  ASSUME InOrder, [Next]_vars, ~(cmd'.at = "remove")
  PROVE  ChainInv'
<1>1. ASSUME NEW i \in Id, NEW j \in Id, Ahead(i)', i < j, meta'[j].made
      PROVE  Behind(i, j)'
  BY <1>1, BehindStep
<1>2. ASSUME NEW i \in Id, Ahead(i)', meta'[i].ended \/ HandedOver(i)'
      PROVE  links' \subseteq {i} /\ (i \in links' \/ i \in doomed')
  BY <1>2, LinkKept
<1>. QED BY <1>1, <1>2 DEF ChainInv

(* No job or run is added to those ahead, but by a submission or a launch.  *)
LEMMA NoMoreAhead ==
  ASSUME InOrder, [Next]_vars, ~Launch, ~Queue, NEW i \in Id, Ahead(i)'
  PROVE  /\ Ahead(i) /\ meta[i].made
         /\ meta'[i].foreground = meta[i].foreground
<1>0. /\ Fails = {} /\ TypeOK /\ CmdInv /\ MadeInv /\ KindInv /\ FreshInv
  BY InOrderIs
<1>1. Ahead(i)
  BY <1>0, AheadSteps
<1>2. i \in Made /\ meta[i].made
  BY <1>0, <1>1, AheadMade
<1>3. CASE Prepare
  <2>1. meta'[i] = meta[i]
    BY <1>0, <1>2, <1>3, PrepareEff
  <2>. QED BY <1>1, <1>2, <2>1
<1>4. CASE Command /\ ~Prepare
  BY <1>0, <1>1, <1>2, <1>4, CommandKeeps
<1>5. ASSUME NEW k \in Id, Process(k) \/ Scheduler(k) \/ Time(k)
      PROVE  meta'[i].foreground = meta[i].foreground
  BY <1>0, <1>5, OthersKeep
<1>. QED BY <1>1, <1>2, <1>3, <1>4, <1>5 DEF Next, vars

(* A submission, from its start to its decision: what is ahead is active or *)
(* has ended.                                                               *)
LEMMA SeesStep ==
  ASSUME InOrder, [Next]_vars, cmd'.op \in {"submit", "run"},
         cmd'.at \in {"reap", "unlink", "mark", "decide"}, NEW i \in Id, Ahead(i)'
  PROVE  i \in links' \/ meta'[i].ended
<1>0. /\ Fails = {} /\ TypeOK /\ CmdInv /\ MadeInv /\ KindInv /\ FreshInv /\ OpInv
      /\ LockInv /\ UserWaits /\ ChainInv
  BY InOrderIs
<1>1. ~Launch /\ ~Queue
  BY <1>0, LaunchEff, QueueEff DEF Ends, At
<1>2. Ahead(i) /\ meta[i].made
  BY <1>1, NoMoreAhead
<1>3. ASSUME NEW op \in Ops, Begin(op)
      PROVE  i \in links' \/ meta'[i].ended
  <2>1. Waiting = {} /\ UNCHANGED <<meta, links>>
    BY <1>0, <1>3, BeginEff DEF recVars
  <2>2. Listed(i) => i \in links \/ meta[i].ended
    BY <2>1 DEF Waiting
  <2>3. ~Listed(i) => meta[i].foreground /\ HandedOver(i) /\ i \notin doomed
    BY <1>0, <1>2 DEF Ahead, HandedOver, KindInv
  <2>. QED BY <1>0, <1>2, <2>1, <2>2, <2>3 DEF ChainInv
<1>4. CASE i \in links \/ meta[i].ended
  <2>1. i \in links => i \in links'
    <3>1. Unlink => i \notin links
      BY <1>2, PartedNotAhead, InOrderIs DEF Unlink, PartedInv
    <3>2. Unlink => links' = links \/ \E k \in links : links' = links \ {k}
      BY <1>0, UnlinkEff
    <3>3. ~Activate /\ ~Deactivate
      BY <1>0, NoneAhead, <1>2, SimpleEff DEF Activate, Ends
    <3>4. ASSUME NEW k \in Id, Handoff(k) \/ Rename(k) PROVE FALSE
      <4>1. UNCHANGED cmd
        BY <3>4 DEF Handoff, Rename
      <4>. QED BY <1>0, <3>4, <4>1, MovesEff DEF LockInv, SimLockFree, Handing
    <3>. QED BY <3>1, <3>2, <3>3, <3>4, LinkSteps
  <2>2. meta[i].ended /\ ~meta'[i].ended => i \in links'
    <3>1. SUFFICES ASSUME meta[i].ended, ~meta'[i].ended PROVE i \in links'
      OBVIOUS
    <3>2. StoreStart(i)
      BY <1>0, <3>1, EndSteps
    <3>3. /\ run[i] = "store" /\ run'[i] = "exec" /\ queue'[i] = queue[i]
          /\ doomed' = doomed
      BY <1>0, <3>2, MovesEff, StaysEff, ApartEff DEF Process
    <3>4. meta'[i].foreground = meta[i].foreground
      BY <1>1, NoMoreAhead
    <3>5. i \notin doomed
      BY <1>0, <3>3, <3>4 DEF Ahead, KindInv, Running, Listed
    <3>6. i \in links
      BY <1>0, <1>2, <3>1, <3>5 DEF ChainInv
    <3>. QED BY <2>1, <3>6
  <2>. QED BY <1>4, <2>1, <2>2
<1>5. CASE ~(i \in links \/ meta[i].ended)
  <2>1. ~(cmd.op \in {"submit", "run"} /\ cmd.at \in {"reap", "unlink", "mark", "decide"})
    BY <1>2, <1>5, InOrderIs DEF SubmitInv
  <2>2. ~UNCHANGED cmd
    BY <2>1
  <2>3. ASSUME NEW k \in Id, Process(k) \/ Scheduler(k) \/ Time(k) PROVE UNCHANGED cmd
    BY <1>0, <2>3, ApartEff
  <2>4. CASE Command /\ ~\E op \in Ops : Begin(op)
    <3>1. ~Abort /\ ~Reap /\ ~Unlink /\ ~Mark
      BY <1>0, <2>1, ReapEff, UnlinkEff, MarkEff, SimpleEff DEF Ends, At, Takes, SameWork, CmdInv
    <3>2. ~DecideSubmit /\ ~DecideRun
      BY <2>1 DEF DecideSubmit, DecideRun
    <3>3. ~Prepare /\ ~Activate /\ ~Record
      BY <1>0, PrepareEff, ActivateEff, RecordEff DEF Ends, At, Takes, Behinds
    <3>4. ~Stop /\ ~Await /\ ~Finish /\ ~Delete /\ ~Deactivate /\ ~Remove
      BY <1>0, StopEff, AwaitEff, FinishEff, DeleteEff, SimpleEff DEF Ends, At, Takes
    <3>. QED BY <1>1, <2>4, <3>1, <3>2, <3>3, <3>4, CommandSteps
  <2>. QED BY <1>3, <2>2, <2>3, <2>4 DEF Next, vars
<1>. QED BY <1>4, <1>5

(* No clean is typed: what removes a link is a submission, or a run. *)
LEMMA NotClean ==
  ASSUME InOrder
  PROVE  cmd.op # "clean"
BY InOrderIs DEF Certain, OpInv

(* A command that has removed the link, or has decided to, has none ahead.  *)
LEMMA NoneStep ==
  ASSUME InOrder, [Next]_vars, NEW i \in Id,
         cmd'.at = "mark" \/ (cmd'.at = "unlink" /\ cmd'.then = "prepare")
  PROVE  ~Ahead(i)'
<1>0. /\ Fails = {} /\ TypeOK /\ CmdInv /\ MadeInv /\ KindInv /\ FreshInv /\ OpInv
      /\ JobInv /\ ChainInv /\ LinkInv /\ PartedInv
  BY InOrderIs
<1>1. ~Launch /\ ~Queue
  BY <1>0, LaunchEff, QueueEff DEF Ends, At
<1>. SUFFICES ASSUME Ahead(i) PROVE FALSE
  BY <1>1, NoMoreAhead
<1>2. CASE Unlink /\ links # {}
  <2>1. PICK k \in links : TRUE
    BY <1>2
  <2>2. k \in Id /\ links = {k} /\ cmd.at = "unlink" /\ ~Ahead(k)
    BY <1>0, <1>2, <2>1, PartedNotAhead DEF LinkInv, PartedInv, Unlink, TypeOK
  <2>3. cmd.op \in {"submit", "run"}
    BY <1>0, <2>2, NotClean DEF OpInv
  <2>4. meta[i].ended
    BY <2>2, <2>3, InOrderIs DEF SubmitInv
  <2>. QED BY <1>0, <2>2, <2>4 DEF ChainInv
<1>3. CASE DecideSubmit \/ DecideRun
  <2>1. PICK k \in links : /\ SchedulerJob(k) /\ meta[k].ended
                           /\ "listed" \notin EndedAnswers(k)
    BY <1>0, <1>3, DecideSubmitEff, DecideRunEff DEF Ends, At, Behinds
  <2>2. k \in Id /\ links = {k} /\ cmd.at = "decide" /\ cmd.op \in {"submit", "run"}
    BY <1>0, <1>3, <2>1 DEF LinkInv, TypeOK, DecideSubmit, DecideRun
  <2>3. ~Listed(k)
    BY <1>0, <2>1, <2>2, AnswersTrue DEF JobInv, PartedInv
  <2>4. ~Ahead(k)
    BY <2>1, <2>2, <2>3, EndedAhead
  <2>5. meta[i].ended
    BY <2>2, <2>4, InOrderIs DEF SubmitInv
  <2>. QED BY <1>0, <2>2, <2>4, <2>5 DEF ChainInv
<1>4. CASE cmd.at = "mark" \/ (cmd.at = "unlink" /\ cmd.then = "prepare")
  BY <1>4, InOrderIs DEF SubmitInv
<1>5. ASSUME NEW k \in Id, Process(k) \/ Scheduler(k) \/ Time(k) PROVE UNCHANGED cmd
  BY <1>0, <1>5, ApartEff
<1>6. CASE Command /\ ~DecideSubmit /\ ~DecideRun /\ ~(Unlink /\ links # {}) /\ ~UNCHANGED cmd
  <2>1. ASSUME NEW op \in Ops, Begin(op) PROVE FALSE
    BY <1>0, <2>1, BeginEff, InOrderIs DEF Certain, Ops
  <2>2. ~Reap
    BY <1>0, ReapEff DEF Ends, At, SameWork, OpInv
  <2>3. ~Unlink
    BY <1>0, <1>6, UnlinkEff DEF At, CmdInv
  <2>4. ~Mark /\ ~Abort
    BY <1>0, MarkEff, SimpleEff DEF Ends, Takes, CmdInv
  <2>5. ~Prepare /\ ~Activate /\ ~Record
    BY <1>0, PrepareEff, ActivateEff, RecordEff DEF Ends, At, Takes, Behinds
  <2>6. ~Stop /\ ~Await /\ ~Finish /\ ~Delete /\ ~Deactivate /\ ~Remove
    BY <1>0, StopEff, AwaitEff, FinishEff, DeleteEff, SimpleEff DEF Ends, At, Takes
  <2>. QED BY <1>1, <1>6, <2>1, <2>2, <2>3, <2>4, <2>5, <2>6, CommandSteps
<1>. QED BY <1>2, <1>3, <1>4, <1>5, <1>6 DEF Next, vars

(* What a new job is chained behind is the last that is ahead.              *)
LEMMA PrepareStep ==
  ASSUME InOrder, [Next]_vars, NEW i \in Id,
         cmd'.at \in {"prepare", "activate", "launch", "queue"}, Ahead(i)'
  PROVE  cmd'.prev # None /\ i <= cmd'.prev /\ ~meta'[i].foreground
<1>0. /\ Fails = {} /\ TypeOK /\ CmdInv /\ MadeInv /\ KindInv /\ FreshInv /\ OpInv
      /\ JobInv /\ ChainInv /\ LinkInv /\ PartedInv
  BY InOrderIs
<1>1. ~Launch /\ ~Queue
  BY <1>0, LaunchEff, QueueEff DEF Ends, At
<1>2. Ahead(i) /\ meta[i].made /\ meta'[i].foreground = meta[i].foreground
  BY <1>1, NoMoreAhead
<1>3. ASSUME DecideSubmit \/ DecideRun
      PROVE  cmd'.prev # None /\ i <= cmd'.prev /\ ~meta[i].foreground
  <2>1. /\ cmd.at = "decide" /\ cmd.op \in {"submit", "run"}
        /\ i \in links \/ meta[i].ended
    BY <1>2, <1>3, InOrderIs DEF DecideSubmit, DecideRun, SubmitInv
  <2>2. ASSUME NEW k \in links, SchedulerJob(k), Behinds(k)
        PROVE  cmd'.prev # None /\ i <= cmd'.prev /\ ~meta[i].foreground
    <3>1. i = k
      BY <1>0, <1>2, <2>1 DEF ChainInv, LinkInv
    <3>2. cmd'.prev = i /\ ~meta[i].foreground
      BY <2>2, <3>1 DEF Behinds, SchedulerJob
    <3>. QED BY <3>2, Typed, Constants
  <2>3. ASSUME links = {}, Ended # {}
        PROVE  /\ Listed(i) /\ ~meta[i].foreground /\ i <= NewestEnded
               /\ NewestEnded \in Id
               /\ "listed" \in EndedAnswers(NewestEnded)
    <3>1. meta[i].ended /\ Listed(i) /\ ~meta[i].foreground
      BY <1>2, <2>1, <2>3, EndedAhead
    <3>2. i \in Ended /\ NewestEnded \in Ended /\ NewestEnded \in Id
      BY <1>2, <2>3, <3>1, Newest DEF Ended, Made
    <3>3. i <= NewestEnded
      BY <3>2, Newest
    <3>4. ~(i < NewestEnded)
      <4>1. ASSUME i < NewestEnded PROVE FALSE
        <5>1. meta[NewestEnded].made /\ meta[NewestEnded].ended
          BY <3>2 DEF Ended, Made
        <5>. QED BY <1>0, <1>2, <3>2, <4>1, <5>1 DEF ChainInv, Behind
      <4>. QED BY <4>1
    <3>5. i = NewestEnded
      BY <3>2, <3>3, <3>4, Typed
    <3>6. "listed" \in EndedAnswers(i)
      BY <1>0, <2>1, <3>1, AnswersTrue DEF JobInv, PartedInv
    <3>. QED BY <3>1, <3>2, <3>3, <3>5, <3>6
  <2>4. links = {} => Ended # {}
    BY <1>2, <2>1 DEF Ended, Made
  <2>5. ~Cleans /\ ~Ends
    BY DEF Cleans, Ends
  <2>6. ASSUME links = {}, Behinds(NewestEnded)
        PROVE  cmd'.prev # None /\ i <= cmd'.prev /\ ~meta[i].foreground
    BY <2>3, <2>4, <2>6, Typed, Constants DEF Behinds
  <2>. QED BY <1>0, <1>3, <2>2, <2>3, <2>4, <2>5, <2>6, DecideSubmitEff, DecideRunEff
<1>4. CASE (Mark \/ Unlink) /\ ~UNCHANGED cmd
  <2>1. cmd.at = "mark" \/ (cmd.at = "unlink" /\ cmd.then = "prepare")
    BY <1>0, <1>4, UnlinkEff, MarkEff DEF At, Takes, CmdInv
  <2>. QED BY <1>2, <2>1, InOrderIs DEF SubmitInv
<1>5. CASE Record
  <2>1. Behinds(cmd.cur) /\ cmd.at = "record" /\ cmd.cur \in Id
    BY <1>0, <1>5, RecordEff DEF Ends
  <2>2. i <= cmd.cur
    BY <1>0, <1>2, <2>1 DEF FreshInv, Made
  <2>3. ~meta[i].foreground
    BY <1>2, <2>1, InOrderIs DEF SubmitInv
  <2>. QED BY <1>2, <2>1, <2>2, <2>3, Constants DEF Behinds
<1>6. CASE cmd.at \in {"prepare", "activate", "launch", "queue"} /\ cmd'.prev = cmd.prev
  BY <1>2, <1>6, InOrderIs DEF SubmitInv
<1>7. CASE Prepare \/ Activate
  BY <1>0, <1>6, <1>7, PrepareEff, ActivateEff DEF Ends, At, Takes, SameWork
<1>8. CASE UNCHANGED cmd
  BY <1>6, <1>8
<1>9. ASSUME NEW k \in Id, Process(k) \/ Scheduler(k) \/ Time(k) PROVE UNCHANGED cmd
  BY <1>0, <1>9, ApartEff
<1>10. CASE Command /\ ~UNCHANGED cmd
  <2>1. ASSUME NEW op \in Ops, Begin(op) PROVE FALSE
    BY <1>0, <2>1, BeginEff DEF Ops
  <2>2. ~Reap /\ ~Abort
    BY <1>0, ReapEff, SimpleEff DEF Ends, At
  <2>3. ~Stop /\ ~Await /\ ~Finish /\ ~Delete /\ ~Deactivate /\ ~Remove
    BY <1>0, StopEff, AwaitEff, FinishEff, DeleteEff, SimpleEff DEF Ends, At, Takes
  <2>. QED BY <1>1, <1>2, <1>3, <1>4, <1>5, <1>7, <1>10, <2>1, <2>2, <2>3, CommandSteps
<1>. QED BY <1>1, <1>8, <1>9, <1>10 DEF Next, vars

LEMMA RecordStep ==
  ASSUME InOrder, [Next]_vars, NEW i \in Id, cmd'.at = "record", Ahead(i)'
  PROVE  ~meta'[i].foreground
<1>0. /\ Fails = {} /\ TypeOK /\ CmdInv /\ MadeInv /\ KindInv /\ FreshInv /\ OpInv
  BY InOrderIs
<1>1. CASE Queue
  <2>1. UNCHANGED meta /\ cmd.at = "queue"
    BY <1>0, <1>1, QueueEff DEF recVars
  <2>2. CASE i = cmd.cur
    BY <1>0, <2>1, <2>2 DEF FreshInv, OpInv
  <2>3. CASE i # cmd.cur
    <3>1. Ahead(i)
      BY <1>0, <1>1, <2>3, AheadSteps
    <3>. QED BY <2>1, <3>1, InOrderIs DEF SubmitInv
  <2>. QED BY <2>2, <2>3
<1>2. CASE UNCHANGED cmd
  <2>1. ~Launch /\ ~Queue
    BY <1>2 DEF Launch, Queue
  <2>2. Ahead(i) /\ meta'[i].foreground = meta[i].foreground
    BY <2>1, NoMoreAhead
  <2>. QED BY <1>2, <2>2, InOrderIs DEF SubmitInv
<1>3. CASE Command /\ ~Queue /\ ~UNCHANGED cmd
  <2>1. ASSUME NEW op \in Ops, Begin(op) PROVE FALSE
    BY <1>0, <2>1, BeginEff DEF Ops
  <2>2. ~Reap /\ ~Unlink /\ ~Mark /\ ~DecideSubmit /\ ~DecideRun
    BY <1>0, ReapEff, UnlinkEff, MarkEff, DecideSubmitEff, DecideRunEff
       DEF Ends, At, Takes, Behinds, Cleans, CmdInv
  <2>3. ~Prepare /\ ~Activate /\ ~Launch /\ ~Record
    BY <1>0, PrepareEff, ActivateEff, LaunchEff, RecordEff DEF Ends, At, Takes, Behinds
  <2>4. ~Abort /\ ~Stop /\ ~Await /\ ~Finish /\ ~Delete /\ ~Deactivate /\ ~Remove
    BY <1>0, StopEff, AwaitEff, FinishEff, DeleteEff, SimpleEff DEF Ends, At, Takes
  <2>. QED BY <1>3, <2>1, <2>2, <2>3, <2>4, CommandSteps
<1>4. ASSUME NEW k \in Id, Process(k) \/ Scheduler(k) \/ Time(k) PROVE UNCHANGED cmd
  BY <1>0, <1>4, ApartEff
<1>. QED BY <1>1, <1>2, <1>3, <1>4 DEF Next, vars

LEMMA SubmitInvStep ==
  ASSUME InOrder, [Next]_vars
  PROVE  SubmitInv'
<1>1. ASSUME cmd'.op \in {"submit", "run"}, cmd'.at \in {"reap", "unlink", "mark", "decide"},
             NEW i \in Id, Ahead(i)'
      PROVE  i \in links' \/ meta'[i].ended
  BY <1>1, SeesStep
<1>2. ASSUME cmd'.at = "mark" \/ (cmd'.at = "unlink" /\ cmd'.then = "prepare"), NEW i \in Id
      PROVE  ~Ahead(i)'
  BY <1>2, NoneStep
<1>3. ASSUME cmd'.at \in {"prepare", "activate", "launch", "queue"}, NEW i \in Id, Ahead(i)'
      PROVE  cmd'.prev # None /\ i <= cmd'.prev /\ ~meta'[i].foreground
  BY <1>3, PrepareStep
<1>4. ASSUME cmd'.at = "record", NEW i \in Id, Ahead(i)'
      PROVE  ~meta'[i].foreground
  BY <1>4, RecordStep
<1>. QED BY <1>1, <1>2, <1>3, <1>4 DEF SubmitInv

(* A stop leaves the link to a run that was told to stop, or is over. *)
LEMMA StopInvStep ==
  ASSUME InOrder, [Next]_vars
  PROVE  StopInv'
<1>0. /\ Fails = {} /\ TypeOK /\ CmdInv /\ MadeInv /\ KindInv /\ FreshInv /\ OpInv
      /\ LockInv /\ JobInv /\ ChainInv /\ LinkInv /\ PartedInv
      /\ doomed \subseteq doomed'
  BY InOrderIs, DoomedSteps
<1>1. CASE UNCHANGED cmd /\ cmd.at \in {"await", "finish", "deactivate"}
  <2>1. ~Launch /\ ~Queue
    BY <1>1 DEF Launch, Queue
  <2>2. links' = links
    <3>1. ASSUME NEW k \in Id, Handoff(k) \/ Rename(k) PROVE FALSE
      BY <1>0, <1>1, <3>1, MovesEff DEF LockInv, SimLockFree, Handing
    <3>2. ~Unlink /\ ~Activate /\ ~Deactivate
      BY <1>0, <1>1, SimpleEff DEF Unlink, Activate, Ends
    <3>. QED BY <3>1, <3>2, LinkSteps
  <2>3. \A i \in Id : Ahead(i)' => Ahead(i)
    BY <2>1, NoMoreAhead
  <2>4. links \subseteq Id
    BY <1>0 DEF TypeOK
  <2>. QED BY <1>0, <1>1, <2>2, <2>3, <2>4, InOrderIs DEF StopInv
<1>2. CASE cmd'.at \notin {"await", "finish", "deactivate"}
  BY <1>2 DEF StopInv
<1>3. CASE Stop
  <2>0. links' = links /\ cmd.at = "stop" /\ UNCHANGED <<run, queue>> /\ ~Launch /\ ~Queue
    BY <1>0, <1>3, StopEff DEF runVars, Launch, Queue
  <2>1. ASSUME NEW k \in links, Takes("await", k) \/ Takes("finish", k)
        PROVE  StopInv'
    BY <1>0, <2>0, <2>1 DEF Takes, StopInv, LinkInv
  <2>2. ASSUME \A k \in links : meta[k].ended, At("deactivate"),
               Ended # {}, "listed" \notin EndedAnswers(NewestEnded)
        PROVE  StopInv'
    <3>1. ASSUME NEW i \in links, Ahead(i) PROVE FALSE
      <4>1. i \in Id /\ i \in Ended
        BY <1>0, <2>2, <3>1, AheadMade DEF TypeOK, Ended
      <4>2. NewestEnded \in Id /\ meta[NewestEnded].made /\ meta[NewestEnded].ended
            /\ i <= NewestEnded
        BY <2>2, <4>1, Newest DEF Ended, Made
      <4>3. ~Listed(NewestEnded)
        BY <1>0, <2>0, <2>2, <4>2, AnswersTrue DEF JobInv, PartedInv
      <4>4. Listed(i)
        BY <2>2, <3>1, <4>1, EndedAhead
      <4>5. i < NewestEnded
        BY <4>1, <4>2, <4>3, <4>4, Typed
      <4>. QED BY <1>0, <3>1, <4>1, <4>2, <4>5 DEF ChainInv, Behind
    <3>2. links \subseteq Id
      BY <1>0 DEF TypeOK
    <3>3. \A i \in Id : Ahead(i)' => Ahead(i)
      BY <2>0, NoMoreAhead
    <3>. QED BY <2>0, <2>2, <3>1, <3>2, <3>3 DEF At, StopInv
  <2>3. CASE Ends
    BY <1>2, <2>3 DEF Ends
  <2>. QED BY <1>0, <1>3, <2>1, <2>2, <2>3, StopEff
<1>4. CASE Await
  <2>1. CASE Ends
    BY <1>2, <2>1 DEF Ends
  <2>2. CASE At("finish")
    <3>1. links' = links /\ cmd.at = "await"
      BY <1>0, <1>4, AwaitEff DEF recVars
    <3>. QED BY <2>2, <3>1, InOrderIs DEF At, StopInv
  <2>. QED BY <1>0, <1>4, <2>1, <2>2, AwaitEff
<1>5. CASE Finish
  <2>1. /\ cmd.at = "finish" /\ cmd.cur \in Id /\ At("deactivate") /\ links' = links
        /\ links = {cmd.cur} /\ ~Launch /\ ~Queue
    BY <1>0, <1>5, FinishEff, InOrderIs DEF StopInv, Launch, Queue
  <2>2. cmd.cur \in doomed \/ ~Ahead(cmd.cur)
    BY <1>0, <2>1, PartedNotAhead DEF PartedInv
  <2>3. \A i \in Id : Ahead(i)' => Ahead(i)
    BY <2>1, NoMoreAhead
  <2>. QED BY <1>0, <2>1, <2>2, <2>3 DEF At, StopInv
<1>6. CASE Command /\ ~Stop /\ ~Await /\ ~Finish
  <2>1. ASSUME NEW op \in Ops, Begin(op) PROVE StopInv'
    BY <1>0, <1>2, <2>1, BeginEff DEF Ops
  <2>2. CASE Reap \/ Unlink \/ Mark \/ DecideSubmit \/ DecideRun
    BY <1>0, <1>2, <2>2, ReapEff, UnlinkEff, MarkEff, DecideSubmitEff, DecideRunEff
       DEF Ends, At, Takes, Behinds, Cleans, CmdInv
  <2>3. CASE Prepare \/ Activate \/ Launch \/ Queue \/ Record
    BY <1>0, <1>2, <2>3, PrepareEff, ActivateEff, LaunchEff, QueueEff, RecordEff
       DEF Ends, At, Takes, Behinds
  <2>4. CASE Abort \/ Delete \/ Deactivate \/ Remove
    BY <1>0, <1>2, <2>4, DeleteEff, SimpleEff DEF Ends, At
  <2>. QED BY <1>6, <2>1, <2>2, <2>3, <2>4, CommandSteps
<1>7. ASSUME NEW k \in Id, Process(k) \/ Scheduler(k) \/ Time(k) PROVE UNCHANGED cmd
  BY <1>0, <1>7, ApartEff
<1>. QED BY <1>1, <1>2, <1>3, <1>4, <1>5, <1>6, <1>7 DEF Next, vars

(* What a delete that goes on to the removal leaves running has been told   *)
(* to stop.                                                                 *)
LEMMA DeleteStep ==
  ASSUME InOrder, Delete, ~Ends, NEW i \in Id, i \notin doomed'
  PROVE  Parted(i)'
<1>0. /\ Fails = {} /\ TypeOK /\ CmdInv /\ MadeInv /\ KindInv /\ FreshInv /\ OpInv
      /\ JobInv /\ ChainInv /\ PartedInv /\ BeatInv /\ QuickLaunch
  BY InOrderIs
<1>1. /\ cmd.at = "live" /\ UNCHANGED <<run, queue>>
      /\ \A k \in Made : meta[k].foreground => FALSE \in HeldLive(k)
      /\ \A k \in AskedAbout : Listed(k) => k \in doomed'
  BY <1>0, DeleteEff DEF runVars
<1>2. doomed \subseteq doomed'
  BY <1>0, DeleteEff DEF StopJobs
<1>3. Launching = {}
  BY <1>0, <1>1 DEF BeatInv, OpInv
<1>4. CASE meta[i].foreground
  <2>1. i \in Made
    BY <1>0, <1>4 DEF FreshInv
  <2>2. Parted(i)
    BY <1>0, <1>1, <1>3, <1>4, <2>1, PartedForeground
  <2>. QED BY <1>1, <2>2 DEF Parted, Listed
<1>5. CASE ~meta[i].foreground /\ ~Listed(i)
  <2>1. Parted(i)
    BY <1>0, <1>5, PartedJob
  <2>. QED BY <1>1, <2>1 DEF Parted, Listed
<1>6. CASE ~meta[i].foreground /\ Listed(i)
  <2>1. Ahead(i) /\ meta[i].job /\ i \in Made
    BY <1>0, <1>1, <1>2, <1>6, AheadMade DEF Ahead, JobInv, JobsKnown
  <2>2. SchedulerJob(i) /\ ~meta[i].settled
    BY <1>0, <1>6, <2>1 DEF SchedulerJob, PartedInv
  <2>3. meta[i].ended => i = NewestEnded
    <3>1. SUFFICES ASSUME meta[i].ended, i # NewestEnded PROVE FALSE
      OBVIOUS
    <3>2. /\ NewestEnded \in Id /\ meta[NewestEnded].made /\ meta[NewestEnded].ended
          /\ i <= NewestEnded
      BY <2>1, <3>1, Newest DEF Ended, Made
    <3>3. i < NewestEnded
      BY <3>1, <3>2, Typed
    <3>. QED BY <1>0, <2>1, <3>2, <3>3 DEF ChainInv, Behind
  <2>4. i \in AskedAbout
    BY <2>1, <2>2, <2>3 DEF AskedAbout
  <2>. QED BY <1>1, <1>6, <2>4
<1>. QED BY <1>4, <1>5, <1>6

LEMMA OrderStep ==
  ASSUME TypeOK, LockInv, LinkInv, CmdInv, MadeInv, JobInv, RunsInv, PartedInv,
         Orderly, OrderInv, [Next]_vars
  PROVE  OrderInv'
<1>0. /\ Fails = {} /\ DeletesRemove /\ OpInv /\ KindInv
      /\ (gone => cmd.at = "idle")
  BY DEF Orderly, Certain, RunsInv
<1>1. CASE gone \/ cmd.at = "remove"
  <2>1. \A i \in Id \ doomed : Parted(i)
    BY <1>1 DEF OrderInv
  <2>2. ~Launch /\ ~Queue
    BY <1>0, <1>1 DEF Launch, Queue
  <2>3. doomed \subseteq doomed'
    BY <1>0, DoomedSteps
  <2>4. \A i \in Id \ doomed' : Parted(i)'
    BY <2>1, <2>2, <2>3, PartedStays
  <2>5. gone' \/ cmd'.at = "remove"
    <3>1. ASSUME NEW op \in Ops, Begin(op) PROVE FALSE
      BY <1>1, <3>1, BeginEff DEF SimLockFree
    <3>2. CASE Command
      BY <1>0, <1>1, <3>1, <3>2, CommandSteps, SimpleEff DEF Abort, Reap, Unlink, Mark, DecideSubmit, DecideRun,
         Prepare, Activate, Launch, Queue, Record, Stop, Await, Finish, Deactivate, Delete
    <3>3. ASSUME NEW k \in Id, Process(k) \/ Scheduler(k) \/ Time(k) PROVE UNCHANGED <<gone, cmd>>
      BY <3>3, ApartEff
    <3>. QED BY <1>1, <3>2, <3>3 DEF Next, vars
  <2>. QED BY <2>4, <2>5 DEF OrderInv
<1>2. CASE ~gone /\ cmd.at # "remove"
  <2>1. InOrder
    BY <1>2 DEF OrderInv, InOrder
  <2>2. CASE Delete /\ ~Ends
    <3>1. cmd'.at = "remove"
      BY <1>0, <2>2, DeleteEff DEF At
    <3>2. \A i \in Id \ doomed' : Parted(i)'
      BY <2>1, <2>2, DeleteStep
    <3>. QED BY <3>1, <3>2 DEF OrderInv
  <2>3. CASE ~(Delete /\ ~Ends)
    <3>a. ~Remove
      BY <1>2 DEF Remove
    <3>b. UNCHANGED gone
      <4>1. CASE Command
        BY <3>a, <4>1, CommandSteps DEF Begin, Abort, Reap, Unlink, Mark, DecideSubmit,
           DecideRun, Prepare, Activate, Launch, Queue, Record, Stop, Await, Finish,
           Deactivate, Delete
      <4>2. ASSUME NEW k \in Id, Process(k) \/ Scheduler(k) \/ Time(k) PROVE UNCHANGED gone
        BY <4>2, ApartEff
      <4>. QED BY <4>1, <4>2 DEF Next, vars
    <3>1. cmd'.at # "remove"
      <4>1. CASE UNCHANGED cmd
        BY <1>2, <4>1
      <4>2. ASSUME NEW op \in Ops, Begin(op) PROVE cmd'.at # "remove"
        BY <4>2, BeginEff DEF Ops
      <4>3. CASE Reap \/ Unlink \/ Mark \/ DecideSubmit \/ DecideRun
        BY <4>3, ReapEff, UnlinkEff, MarkEff, DecideSubmitEff, DecideRunEff
           DEF Ends, At, Takes, Behinds, Cleans, CmdInv
      <4>4. CASE Prepare \/ Activate \/ Launch \/ Queue \/ Record
        BY <4>4, PrepareEff, ActivateEff, LaunchEff, QueueEff, RecordEff
           DEF Ends, At, Takes, Behinds
      <4>5. CASE Stop \/ Await \/ Finish
        BY <4>5, StopEff, AwaitEff, FinishEff DEF Ends, At, Takes
      <4>6. CASE Abort \/ Deactivate \/ Delete
        BY <2>3, <4>6, SimpleEff DEF Ends
      <4>7. ASSUME NEW k \in Id, Process(k) \/ Scheduler(k) \/ Time(k) PROVE UNCHANGED cmd
        BY <4>7, ApartEff
      <4>8. CASE Command
        BY <3>a, <4>2, <4>3, <4>4, <4>5, <4>6, <4>8, CommandSteps
      <4>. QED BY <4>1, <4>7, <4>8 DEF Next, vars
    <3>2. ChainInv' /\ SubmitInv' /\ StopInv'
      BY <2>1, <3>1, ChainInvStep, SubmitInvStep, StopInvStep
    <3>. QED BY <1>2, <3>b, <3>1, <3>2 DEF OrderInv
  <2>. QED BY <2>2, <2>3
<1>. QED BY <1>1, <1>2

LEMMA OrderInit == Init => PartedInv /\ OrderInv
<1>. SUFFICES ASSUME Init PROVE PartedInv /\ OrderInv
  OBVIOUS
<1>1. PartedInv
  BY DEF Init, PartedInv, NoCmd, NoMeta
<1>2. \A i \in Id : ~Ahead(i)
  BY DEF Init, Ahead, Listed, Running
<1>3. SubmitInv /\ StopInv /\ ChainInv
  BY <1>2 DEF SubmitInv, StopInv, ChainInv, Init, NoCmd
<1>. QED BY <1>1, <1>3 DEF OrderInv, Init, NoCmd

(* The runs in Cactus, but for those told to stop. *)
LEMMA RunsInOrder ==
  ASSUME TypeOK, KindInv, OrderInv, NEW i \in Id \ doomed, run[i] = "exec"
  PROVE  links = {i}
<1>1. Ahead(i) /\ HandedOver(i) /\ ~Parted(i)
  BY DEF KindInv, Ahead, HandedOver, Parted, Listed, Running
<1>. QED BY <1>1 DEF OrderInv, ChainInv

-----------------------------------------------------------------------------
(* Only a delete removes the directory, and only with its answers in hand. *)
LEMMA GoneSteps ==
  ASSUME TypeOK, [Next]_vars, gone' # gone
  PROVE  cmd.at = "remove"
<1>1. CASE UNCHANGED vars
  BY <1>1 DEF vars
<1>2. ASSUME NEW i \in Id, Process(i) \/ Scheduler(i) \/ Time(i) PROVE gone' = gone
  BY <1>2, ApartEff
<1>3. CASE Command
  <2>1. CASE Remove
    BY <2>1, SimpleEff
  <2>2. ASSUME NEW op \in Ops, Begin(op) PROVE gone' = gone
    BY <2>2 DEF Begin
  <2>3. Abort \/ Reap \/ Unlink \/ Mark \/ DecideSubmit \/ DecideRun => gone' = gone
    BY DEF Abort, Reap, Unlink, Mark, DecideSubmit, DecideRun
  <2>4. Prepare \/ Activate \/ Launch \/ Queue \/ Record => gone' = gone
    BY DEF Prepare, Activate, Launch, Queue, Record
  <2>5. Stop \/ Await \/ Finish \/ Deactivate \/ Delete => gone' = gone
    BY DEF Stop, Await, Finish, Deactivate, Delete
  <2>. QED BY <1>3, <2>1, <2>2, <2>3, <2>4, <2>5, CommandSteps
<1>. QED BY <1>1, <1>2, <1>3 DEF Next

(* The invariant holds at first, and every step keeps it. *)
LEMMA SimInvInit ==
  ASSUME Init
  PROVE  SimInv
<1>. USE Typed DEF Init
<1>1. TypeOK
  <2>1. /\ meta \in [Id -> Meta] /\ mine \in [Id -> Meta]
        /\ queue \in [Id -> QueueStates] /\ run \in [Id -> RunSteps]
        /\ beat \in [Id -> Beats] /\ chained \in [Id -> Id \cup {None}]
    BY DEF QueueStates, RunSteps, Beats
  <2>2. requeues \in 0 .. MaxRequeues /\ fails \in 0 .. MaxFails
    OBVIOUS
  <2>. QED BY <2>1, <2>2 DEF TypeOK
<1>2. LockInv /\ LinkInv
  BY DEF LockInv, LinkInv, Handing
<1>3. CmdInv
  BY DEF CmdInv, NoCmd
<1>4. MadeInv
  <2>1. Made = {} /\ 0 .. 0 - 1 = {} /\ 0 \in 0 .. MaxRestarts
    BY DEF Made, NoMeta
  <2>. QED BY <2>1 DEF MadeInv, NoCmd, Running
<1>5. JobInv
  BY DEF JobInv, JobsKnown, Listed, NoCmd, Handing, Running
<1>6. RunsInv /\ PartedInv /\ OrderInv
  BY RunsInit, OrderInit
<1>. QED BY <1>1, <1>2, <1>3, <1>4, <1>5, <1>6 DEF SimInv

LEMMA SimInvStep ==
  ASSUME SimInv, [Next]_vars
  PROVE  SimInv'
<1>1. TypeOK' /\ CmdInv'
  <2>1. CASE UNCHANGED vars
    BY <2>1 DEF vars, SimInv, TypeOK, CmdInv
  <2>. QED BY <2>1, CommandTyped, ProcessTyped DEF SimInv, Next
<1>2. LockInv' /\ LinkInv' /\ MadeInv'
  BY <1>1, LockStep, LinkStep, MadeStep DEF SimInv
<1>3. JobsRecorded => JobInv'
  BY <1>1, JobStep DEF SimInv
<1>4. RunsInv'
  BY <1>1, RunsStep DEF SimInv
<1>5. Certain => PartedInv'
  BY <1>4, PartedStep DEF SimInv, Certain, JobInv
<1>6. Orderly => OrderInv'
  BY OrderStep DEF SimInv, Orderly, Certain
<1>. QED BY <1>1, <1>2, <1>3, <1>4, <1>5, <1>6 DEF SimInv

-----------------------------------------------------------------------------
(* SimInv, the inductive invariant, holds of every reachable state: besides *)
(* the types it says who holds sim.lock, which link there is, that restarts *)
(* are made in the order of their ids, which jobs are on record, and which  *)
(* restart may have a run; where verdicts are certain, that they are true;  *)
(* and where the chain is kept, that its jobs take turns.                   *)
THEOREM Invariance == Spec => []SimInv
BY SimInvInit, SimInvStep, PTL DEF Spec

(* Every variable keeps its type: no command addresses a restart that does  *)
(* not exist, no id passes the last one, and the bounds hold.               *)
THEOREM SimTypes == Spec => []TypeOK
<1>1. SimInv => TypeOK
  BY DEF SimInv
<1>. QED BY <1>1, Invariance, PTL

(* There is never more than one -active link, however many commands and     *)
(* jobs meet, and wherever a command, a job or a handoff dies: no directory *)
(* ever comes to need the repair by hand that sim::scan asks for.           *)
THEOREM OneLink == Spec => []OneActive
<1>1. SimInv => OneActive
  <2>. SUFFICES ASSUME \A i, j \in links : i = j PROVE Cardinality(links) <= 1
    BY DEF SimInv, LinkInv, OneActive
  <2>1. CASE links = {}
    BY <2>1, FS_EmptySet
  <2>2. CASE links # {}
    <3>1. PICK i \in links : TRUE
      BY <2>2
    <3>2. links = {i}
      BY <3>1
    <3>. QED BY <3>2, FS_Singleton
  <2>. QED BY <2>1, <2>2
<1>. QED BY <1>1, Invariance, PTL

(* Where a submission that queued a job lives to record its id, every job   *)
(* the scheduler lists is on record in its restart: stop and delete always  *)
(* find it, whatever fails around them.                                     *)
THEOREM JobsOnRecord ==
  ASSUME JobsRecorded
  PROVE  Spec => []JobsKnown
<1>1. SimInv => JobsKnown
  BY DEF SimInv, JobInv
<1>. QED BY <1>1, Invariance, PTL


(* Whatever fails, and whatever the scheduler answers, the reaper's verdict *)
(* spares the active restart's run once it has begun: a job's run holds its *)
(* running.lock, a foreground run has its heartbeat before it has the lock, *)
(* and a run that has yet to record its end is still covered by either.     *)
THEOREM RunsAreSpared ==
  ASSUME QuickLaunch
  PROVE  Spec => ReaperSparesRuns
<1>1. ASSUME SimInv, [Next]_vars, cmd.at = "reap", cmd'.at = "unlink"
      PROVE  \A i \in links : ~HasBegun(i)
  BY <1>1, ReapVerdict DEF SimInv, vars
<1>2. SimInv /\ [Next]_vars =>
        [cmd.at = "reap" /\ cmd'.at = "unlink" => \A i \in links : ~HasBegun(i)]_vars
  BY <1>1
<1>. QED BY <1>2, Invariance, PTL DEF Spec, ReaperSparesRuns

(* Where every query is answered, submissions and launches do not die half  *)
(* done and nobody cleans, an end is recorded of no restart whose Cactus    *)
(* runs on, unless its job was told to stop: neither by the reaper, nor by  *)
(* a stop that has waited for the run to leave, nor by the run itself.      *)
THEOREM EndsAreTrue ==
  ASSUME Certain
  PROVE  Spec => EndIsTrue
<1>1. ASSUME SimInv, [Next]_vars, NEW i \in Id, meta'[i].ended, ~meta[i].ended
      PROVE  i \in doomed \/ run'[i] # "exec"
  BY <1>1, EndIsTrueStep DEF SimInv
<1>2. SimInv /\ [Next]_vars =>
        [\A i \in Id : meta'[i].ended /\ ~meta[i].ended =>
           i \in doomed \/ run'[i] # "exec"]_vars
  BY <1>1
<1>. QED BY <1>2, Invariance, PTL DEF Spec, EndIsTrue

(* Under the same assumptions the reaper takes the link only of a restart   *)
(* whose job is gone from the queue and whose process has at most its end   *)
(* to record: from its verdict to the unlink nothing comes to life.         *)
THEOREM TheDeadAreReaped ==
  ASSUME Certain
  PROVE  Spec => ReapsTheDead
<1>1. ASSUME SimInv, [Next]_vars, cmd.at = "unlink", NEW i \in links
      PROVE  ~Listed(i) /\ run[i] \in {"off", "end"}
  BY <1>1 DEF SimInv, PartedInv, Parted
<1>2. SimInv /\ [Next]_vars =>
        [\A i \in links \ links' :
           cmd.op \in {"submit", "run"} /\ cmd.at = "unlink" =>
             i \in doomed \/ (~Listed(i) /\ run[i] \in {"off", "end"})]_vars
  BY <1>1
<1>. QED BY <1>2, Invariance, PTL DEF Spec, ReapsTheDead

(* Where, besides, nobody submits behind a chained job that waits, and a    *)
(* delete that has stopped the jobs removes the directory, Cactus never     *)
(* runs twice at once, however long the chains, however often a job is      *)
(* requeued, and however submissions, stops, deletes and handoffs meet.     *)
THEOREM RunsAlone ==
  ASSUME Orderly
  PROVE  Spec => []OneRun
<1>1. ASSUME SimInv, NEW i \in Id \ doomed, NEW j \in Id \ doomed,
             run[i] = "exec", run[j] = "exec"
      PROVE  i = j
  <2>1. links = {i} /\ links = {j}
    BY <1>1, RunsInOrder DEF SimInv, RunsInv
  <2>. QED BY <2>1
<1>2. SimInv => OneRun
  BY <1>1 DEF OneRun
<1>. QED BY <1>2, Invariance, PTL

(* The restart whose Cactus runs is the active one, so that a stop or a     *)
(* delete finds the run there is.                                           *)
THEOREM TheRunIsActive ==
  ASSUME Orderly
  PROVE  Spec => []RunIsActive
<1>1. ASSUME SimInv, NEW i \in Id \ doomed, run[i] = "exec"
      PROVE  i \in links
  BY <1>1, RunsInOrder DEF SimInv, RunsInv
<1>2. SimInv => RunIsActive
  BY <1>1 DEF RunIsActive
<1>. QED BY <1>2, Invariance, PTL

(* A delete removes the directory only when no job of the simulation is     *)
(* listed that has not been told to stop: what it learned about each job    *)
(* before it asked the user is still so when it removes.                    *)
THEOREM JobsAreSpared ==
  ASSUME Orderly
  PROVE  Spec => DeleteSparesJobs
<1>1. ASSUME SimInv, [Next]_vars, gone' # gone, NEW i \in Id, Listed(i)
      PROVE  i \in doomed
  <2>1. cmd.at = "remove"
    BY <1>1, GoneSteps DEF SimInv
  <2>. QED BY <1>1, <2>1 DEF SimInv, OrderInv, Parted
<1>2. SimInv /\ [Next]_vars =>
        [gone' # gone => \A i \in Id : Listed(i) => i \in doomed]_vars
  BY <1>1
<1>. QED BY <1>2, Invariance, PTL DEF Spec, DeleteSparesJobs

(* Nor is there a foreground run that holds its running.lock: such a run    *)
(* has no job to stop, and the delete that met it would have refused.       *)
THEOREM ForegroundIsSpared ==
  ASSUME Orderly
  PROVE  Spec => DeleteSparesRuns
<1>1. ASSUME SimInv, [Next]_vars, gone' # gone, NEW i \in Id, meta[i].foreground
      PROVE  run[i] \notin Running
  <2>1. cmd.at = "remove"
    BY <1>1, GoneSteps DEF SimInv
  <2>2. i \notin doomed
    BY <1>1 DEF SimInv, RunsInv, KindInv
  <2>. QED BY <1>1, <2>1, <2>2 DEF SimInv, OrderInv, Parted, Running
<1>2. SimInv /\ [Next]_vars =>
        [gone' # gone =>
           \A i \in Id : meta[i].foreground => run[i] \notin Running]_vars
  BY <1>1
<1>. QED BY <1>2, Invariance, PTL DEF Spec, DeleteSparesRuns
=============================================================================
