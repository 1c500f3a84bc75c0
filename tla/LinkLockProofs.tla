-------------------------- MODULE LinkLockProofs --------------------------
(***************************************************************************)
(* LinkLock proved for any number of processes and hosts, any thresholds    *)
(* and any bounds: types always; mutual exclusion, the side-lock, and the   *)
(* refinement of LockService in a timely world.                             *)
(***************************************************************************)
EXTENDS LinkLock, TLAPS

(* What the helpers do to the state of a process, as far as the proofs      *)
(* below look at it: pc moves at p only, and the rest keeps its type.       *)
LEMMA ConstantsTyped ==
  /\ Attempts \in Nat \ {0} /\ LockStale \in Nat \ {0} /\ BreakerStale \in Nat \ {0}
  /\ HandoffWait \in Nat /\ MaxClock \in Nat /\ MaxErrors \in Nat
  /\ 0 \in Time /\ 0 \in 0 .. Attempts - 1
BY Constants DEF Time

LEMMA FinishTyped ==
  ASSUME TypeOK, NEW p \in Proc, NEW c \in Calls, Finish(p, c)
  PROVE  /\ pc' = [pc EXCEPT ![p] = c]
         /\ pc' \in [Proc -> Calls]
         /\ fs' \in [Proc -> Time] /\ fs' = [fs EXCEPT ![p] = 0]
         /\ seen' \in [Proc -> Time] /\ began' \in [Proc -> Time]
         /\ began' = [began EXCEPT ![p] = 0]
         /\ tries' \in [Proc -> 0 .. Attempts - 1]
         /\ since' \in [Proc -> Time \cup {NoWait}]
BY ConstantsTyped DEF TypeOK, Finish, Goto

LEMMA ContinueTyped ==
  ASSUME TypeOK, NEW p \in Proc, NEW c \in Calls, Continue(p, c)
  PROVE  /\ pc' = [pc EXCEPT ![p] = c]
         /\ pc' \in [Proc -> Calls]
         /\ fs' \in [Proc -> Time] /\ fs' = fs
         /\ seen' \in [Proc -> Time] /\ began' \in [Proc -> Time]
         /\ began' = began
         /\ tries' \in [Proc -> 0 .. Attempts - 1]
         /\ since' \in [Proc -> Time \cup {NoWait}]
BY DEF TypeOK, Continue, Goto

LEMMA NextAttemptTyped ==
  ASSUME TypeOK, NEW p \in Proc, NextAttempt(p)
  PROVE  \E c \in {"temp", "idle"} :
         /\ pc' = [pc EXCEPT ![p] = c]
         /\ pc' \in [Proc -> Calls]
         /\ fs' \in [Proc -> Time] /\ fs' = [fs EXCEPT ![p] = 0]
         /\ seen' \in [Proc -> Time] /\ began' \in [Proc -> Time]
         /\ began' = [began EXCEPT ![p] = 0]
         /\ tries' \in [Proc -> 0 .. Attempts - 1]
         /\ since' \in [Proc -> Time \cup {NoWait}]
<1>1. CASE Finish(p, "idle")
  <2>1. "idle" \in Calls
    BY DEF Calls
  <2>. QED BY <1>1, <2>1, FinishTyped
<1>2. CASE tries[p] + 1 < Attempts /\ ~Finish(p, "idle")
  BY <1>2, ConstantsTyped DEF TypeOK, NextAttempt, Goto, Calls, AcquireCalls
<1>. QED BY <1>1, <1>2, ConstantsTyped DEF NextAttempt, TypeOK

LEMMA BusyTyped ==
  ASSUME TypeOK, NEW p \in Proc, Busy(p)
  PROVE  \E c \in {"temp", "idle"} :
         /\ pc' = [pc EXCEPT ![p] = c]
         /\ pc' \in [Proc -> Calls]
         /\ fs' \in [Proc -> Time] /\ fs' = [fs EXCEPT ![p] = 0]
         /\ seen' \in [Proc -> Time] /\ began' \in [Proc -> Time]
         /\ began' = [began EXCEPT ![p] = 0] \/ began' = began
         /\ tries' \in [Proc -> 0 .. Attempts - 1]
         /\ since' \in [Proc -> Time \cup {NoWait}]
<1>1. CASE Finish(p, "idle")
  <2>1. "idle" \in Calls
    BY DEF Calls
  <2>. QED BY <1>1, <2>1, FinishTyped
<1>2. CASE ~Finish(p, "idle")
  BY <1>2, ConstantsTyped DEF TypeOK, Busy, Goto, Calls, AcquireCalls
<1>. QED BY <1>1, <1>2

-----------------------------------------------------------------------------
LEMMA StepTyped == TypeOK /\ [Next]_vars => TypeOK'
<1>. SUFFICES ASSUME TypeOK, [Next]_vars PROVE TypeOK'
  OBVIOUS
<1>. USE ConstantsTyped
<1>1. ASSUME NEW p \in Proc, Begin(p) PROVE TypeOK'
  <2>1. CASE Acquire(p)
    <3>1. "temp" \in Calls
      BY DEF Calls, AcquireCalls
    <3>. QED BY <2>1, <3>1, ContinueTyped DEF Acquire, TypeOK
  <2>2. CASE AcquireWait(p)
    BY <2>2 DEF AcquireWait, Goto, TypeOK, Calls, AcquireCalls
  <2>. QED BY <1>1, <2>1, <2>2 DEF Begin
<1>2. ASSUME NEW p \in Proc, Attempt(p) PROVE TypeOK'
  <2>1. CASE Temp(p)
    BY <2>1 DEF Temp, Goto, TypeOK, Calls, AcquireCalls
  <2>2. CASE LinkOk(p)
    <3>1. "held" \in Calls
      BY DEF Calls, HolderCalls
    <3>2. lock' \in LockFile
      BY <2>2 DEF LinkOk, TypeOK, LockFile
    <3>. QED BY <2>2, <3>1, <3>2, FinishTyped DEF LinkOk, TypeOK
  <2>3. CASE LinkExists(p)
    <3>1. "stat" \in Calls
      BY DEF Calls, AcquireCalls
    <3>. QED BY <2>3, <3>1, ContinueTyped DEF LinkExists, TypeOK
  <2>4. CASE Stat(p)
    <3>1. CASE NextAttempt(p)
      BY <2>4, <3>1, NextAttemptTyped DEF Stat, TypeOK
    <3>2. CASE ~NextAttempt(p)
      BY <2>4, <3>2 DEF Stat, Goto, TypeOK, Calls, AcquireCalls, LockFile
    <3>. QED BY <3>1, <3>2
  <2>5. CASE Read(p)
    <3>1. CASE NextAttempt(p)
      BY <2>5, <3>1, NextAttemptTyped DEF Read, TypeOK
    <3>2. CASE Continue(p, "sideTemp")
      <4>1. "sideTemp" \in Calls
        BY DEF Calls, ContendCalls
      <4>. QED BY <2>5, <3>2, <4>1, ContinueTyped DEF Read, TypeOK
    <3>3. CASE Busy(p)
      BY <2>5, <3>3, BusyTyped DEF Read, TypeOK
    <3>. QED BY <2>5, <3>1, <3>2, <3>3 DEF Read
  <2>6. CASE SideTemp(p)
    BY <2>6 DEF SideTemp, Goto, TypeOK, Calls, ContendCalls
  <2>7. CASE SideLink(p)
    <3>1. "restat" \in Calls /\ "sideStat" \in Calls
      BY DEF Calls, ContendCalls, BreakCalls
    <3>2. side' \in SideFile \cup {None}
      BY <2>7 DEF SideLink, TypeOK, SideFile
    <3>. QED BY <2>7, <3>1, <3>2, ContinueTyped DEF SideLink, TypeOK
  <2>8. CASE SideStat(p)
    <3>1. "sweep" \in Calls
      BY DEF Calls, ContendCalls
    <3>. QED BY <2>8, <3>1, ContinueTyped, NextAttemptTyped DEF SideStat, TypeOK
  <2>9. CASE Sweep(p)
    BY <2>9, NextAttemptTyped DEF Sweep, TypeOK
  <2>10. CASE Restat(p)
    <3>1. CASE lock = None
      <4>1. "unside" \in Calls
        BY DEF Calls, BreakCalls
      <4>. QED BY <2>10, <3>1, <4>1, ContinueTyped DEF Restat, TypeOK
    <3>2. CASE lock # None
      BY <2>10, <3>2 DEF Restat, Goto, TypeOK, Calls, BreakCalls, LockFile
    <3>. QED BY <3>1, <3>2
  <2>11. CASE Reread(p)
    <3>1. "rename" \in Calls /\ "unside" \in Calls
      BY DEF Calls, BreakCalls
    <3>. QED BY <2>11, <3>1, ContinueTyped DEF Reread, TypeOK
  <2>12. CASE Rename(p)
    <3>1. "unside" \in Calls
      BY DEF Calls, BreakCalls
    <3>. QED BY <2>12, <3>1, ContinueTyped DEF Rename, TypeOK
  <2>13. CASE Unside(p)
    <3>1. "idle" \in Calls
      BY DEF Calls
    <3>. QED BY <2>13, <3>1, FinishTyped, NextAttemptTyped DEF Unside, TypeOK
  <2>. QED BY <1>2, <2>1, <2>2, <2>3, <2>4, <2>5, <2>6, <2>7, <2>8, <2>9,
              <2>10, <2>11, <2>12, <2>13 DEF Attempt
<1>3. ASSUME NEW p \in Proc, Hold(p) PROVE TypeOK'
  <2>1. "restamp" \in Calls /\ "held" \in Calls /\ "unlink" \in Calls /\ "idle" \in Calls
    BY DEF Calls, HolderCalls
  <2>2. \A b \in BOOLEAN : [by |-> p, blank |-> b, mtime |-> clock] \in LockFile
    BY DEF TypeOK, LockFile
  <2>. QED BY <1>3, <2>1, <2>2, ContinueTyped
           DEF Hold, RestampTruncate, RestampWrite, ReleaseRead, ReleaseUnlink, TypeOK
<1>4. ASSUME NEW p \in Proc, Crash(p) PROVE TypeOK'
  <2>1. "dead" \in Calls
    BY DEF Calls
  <2>. QED BY <1>4, <2>1, FinishTyped DEF Crash, TypeOK
<1>5. ASSUME NEW p \in Proc, IoError(p) PROVE TypeOK'
  <2>1. "idle" \in Calls /\ "unsideErr" \in Calls
    BY DEF Calls, BreakCalls
  <2>2. errors' \in 0 .. MaxErrors /\ UNCHANGED <<clock, lock, side>>
    BY <1>5 DEF IoError, TypeOK, AcquireFails, SweepFails, BreakFails, UnsideFails, ReleaseFails
  <2>. QED BY <1>5, <2>1, <2>2, FinishTyped, ContinueTyped, NextAttemptTyped
           DEF IoError, AcquireFails, SweepFails, BreakFails, UnsideFails, ReleaseFails, TypeOK
<1>6. ASSUME Tick PROVE TypeOK'
  BY <1>6 DEF Tick, TypeOK, Time
<1>7. CASE UNCHANGED vars
  BY <1>7 DEF vars, TypeOK
<1>. QED BY <1>1, <1>2, <1>3, <1>4, <1>5, <1>6, <1>7 DEF Next

(* The types of LinkLock hold in every world. *)
THEOREM TypesHold == Spec => []TypeOK
<1>1. Init => TypeOK
  BY ConstantsTyped DEF Init, TypeOK, Calls, Time
<1>. QED BY <1>1, StepTyped, PTL DEF Spec

-----------------------------------------------------------------------------
(* The timely world.                                                        *)

(* The calls after which some part of the invariant has something to say. *)
Watched == HolderCalls \cup BreakCalls \cup {"link", "sideLink", "sweep"}

(* A step that changes no file, that leaves a call outside break_stale, and *)
(* that goes to a call nobody watches disturbs nothing.                     *)
LEMMA QuietStep ==
  ASSUME TypeOK, TimelyInv, NEW p \in Proc, NEW c \in Calls \ Watched,
         pc[p] \notin BreakCalls,
         pc' = [pc EXCEPT ![p] = c],
         UNCHANGED <<clock, lock, side>>,
         fs' = fs \/ fs' = [fs EXCEPT ![p] = 0],
         \A q \in Proc \ {p} : seen'[q] = seen[q] /\ began'[q] = began[q]
  PROVE  TimelyInv'
<1>1. HolderHasFile'
  BY ConstantsTyped DEF TypeOK, TimelyInv, HolderHasFile, Owns, HasLock, Watched, Time
<1>2. BreakerHasSide'
  BY DEF TypeOK, TimelyInv, BreakerHasSide, Breaking, Watched, SideFile
<1>3. JudgedRightly'
  BY DEF TypeOK, TimelyInv, JudgedRightly, Abandoned, Owns, Watched, BreakCalls, LockFile
<1>. QED BY <1>1, <1>2, <1>3 DEF TimelyInv

(* Everything a process does before it has the side-lock, except for the    *)
(* calls that start a temp file or take a link, is quiet.                   *)
LEMMA AttemptKeepsInv ==
  ASSUME Timely, TypeOK, TimelyInv, NEW p \in Proc, Attempt(p)
  PROVE  TimelyInv'
<1>. USE ConstantsTyped
<1>. DEFINE Quiet == {"idle", "temp", "stat", "read", "sideTemp", "sideStat"}
<1>0. Quiet \subseteq Calls \ Watched
  BY DEF Calls, Watched, AcquireCalls, ContendCalls, HolderCalls, BreakCalls
<1>1. CASE Temp(p)
  <2>1. HolderHasFile'
    BY <1>1 DEF Temp, Goto, TypeOK, TimelyInv, HolderHasFile, Owns, HasLock, HolderCalls, Time
  <2>2. BreakerHasSide'
    BY <1>1 DEF Temp, Goto, TypeOK, TimelyInv, BreakerHasSide, Breaking, BreakCalls, SideFile
  <2>3. JudgedRightly'
    BY <1>1 DEF Temp, Goto, TypeOK, TimelyInv, JudgedRightly, Abandoned, Owns, HolderCalls, LockFile
  <2>. QED BY <2>1, <2>2, <2>3 DEF TimelyInv
<1>2. CASE LinkOk(p)
  <2>1. pc' = [pc EXCEPT ![p] = "held"] /\ fs' = [fs EXCEPT ![p] = 0]
                                        /\ began' = [began EXCEPT ![p] = 0]
    BY <1>2 DEF LinkOk, Finish, Goto
  <2>2. lock = None /\ lock' = [by |-> p, blank |-> FALSE, mtime |-> fs[p]]
    BY <1>2 DEF LinkOk
  <2>3. lock' # None /\ lock'.by = p /\ lock'.mtime = fs[p]
    <3>1. lock' \in LockFile
      BY <2>2 DEF TypeOK, LockFile
    <3>. QED BY <2>2, <3>1, Constants
  <2>4. \A q \in Proc : ~Owns(q)
    BY <2>2 DEF TimelyInv, HolderHasFile, HasLock
  <2>5. HolderHasFile'
    BY <1>2, <2>1, <2>3, <2>4
       DEF LinkOk, TypeOK, TimelyInv, HolderHasFile, Owns, HasLock, Time
  <2>6. BreakerHasSide'
    BY <1>2, <2>1 DEF LinkOk, TypeOK, TimelyInv, BreakerHasSide, Breaking, BreakCalls, SideFile
  <2>7. JudgedRightly'
    <3>1. \A q \in Proc : pc[q] # "rename"
      BY <2>2 DEF TimelyInv, JudgedRightly, Abandoned
    <3>2. \A q \in Proc \ {p} : seen'[q] = seen[q]
      BY <1>2 DEF LinkOk, Finish, TypeOK
    <3>3. \A q \in Proc : pc[q] = "reread" => fs[q] - seen[q] < LockStale
      BY <2>2 DEF TimelyInv, JudgedRightly, Abandoned
    <3>. QED BY <2>1, <3>1, <3>2, <3>3 DEF TypeOK, JudgedRightly
  <2>. QED BY <2>5, <2>6, <2>7 DEF TimelyInv
<1>3. CASE LinkExists(p)
  BY <1>3, <1>0, QuietStep DEF LinkExists, Continue, Goto, BreakCalls
<1>4. CASE Stat(p)
  <2>1. CASE NextAttempt(p)
    BY <1>4, <2>1, <1>0, QuietStep, NextAttemptTyped DEF Stat, NextAttempt, Finish, TypeOK, BreakCalls
  <2>2. CASE ~NextAttempt(p)
    BY <1>4, <2>2, <1>0, QuietStep DEF Stat, Goto, TypeOK, BreakCalls
  <2>. QED BY <2>1, <2>2
<1>5. CASE Read(p)
  <2>1. CASE NextAttempt(p)
    BY <1>5, <2>1, <1>0, QuietStep, NextAttemptTyped DEF Read, NextAttempt, Finish, TypeOK, BreakCalls
  <2>2. CASE Continue(p, "sideTemp")
    BY <1>5, <2>2, <1>0, QuietStep DEF Read, Continue, Goto, BreakCalls
  <2>3. CASE Busy(p)
    BY <1>5, <2>3, <1>0, QuietStep, BusyTyped DEF Read, Busy, Finish, TypeOK, BreakCalls
  <2>. QED BY <1>5, <2>1, <2>2, <2>3 DEF Read
<1>6. CASE SideTemp(p)
  <2>1. HolderHasFile'
    BY <1>6 DEF SideTemp, Goto, TypeOK, TimelyInv, HolderHasFile, Owns, HasLock, HolderCalls
  <2>2. BreakerHasSide'
    BY <1>6 DEF SideTemp, Goto, TypeOK, TimelyInv, BreakerHasSide, Breaking, BreakCalls, SideFile, Time
  <2>3. JudgedRightly'
    BY <1>6 DEF SideTemp, Goto, TypeOK, TimelyInv, JudgedRightly, Abandoned, Owns, HolderCalls, LockFile
  <2>. QED BY <2>1, <2>2, <2>3 DEF TimelyInv
<1>7. CASE SideLink(p)
  <2>1. CASE side = None
    <3>1. pc' = [pc EXCEPT ![p] = "restat"] /\ UNCHANGED <<clock, lock, fs, seen, began>>
      BY <1>7, <2>1 DEF SideLink, Continue, Goto
    <3>2. side' # None /\ side'.by = p /\ side'.mtime = began[p]
      BY <1>7, <2>1, Constants DEF SideLink, SideFile, TypeOK
    <3>3. HolderHasFile'
      BY <1>7, <3>1 DEF SideLink, TypeOK, TimelyInv, HolderHasFile, Owns, HasLock, HolderCalls
    <3>4. BreakerHasSide'
      BY <1>7, <2>1, <3>1, <3>2
         DEF SideLink, TypeOK, TimelyInv, BreakerHasSide, Breaking, BreakCalls
    <3>5. JudgedRightly'
      BY <1>7, <3>1 DEF SideLink, TypeOK, TimelyInv, JudgedRightly, Abandoned, Owns, HolderCalls, LockFile
    <3>. QED BY <3>3, <3>4, <3>5 DEF TimelyInv
  <2>2. CASE side # None
    BY <1>7, <2>2, <1>0, QuietStep DEF SideLink, Continue, Goto, BreakCalls
  <2>. QED BY <2>1, <2>2
<1>8. CASE SideStat(p)
  <2>1. side # None => ~(fs[p] - side.mtime >= BreakerStale)
    BY DEF TypeOK, TimelyInv, HolderHasFile, BreakerHasSide, SideFile, Time
  <2>2. NextAttempt(p)
    BY <1>8, <2>1 DEF SideStat
  <2>. QED BY <1>8, <2>2, <1>0, QuietStep, NextAttemptTyped
           DEF SideStat, NextAttempt, Finish, TypeOK, BreakCalls
<1>9. CASE Sweep(p)
  BY <1>9 DEF Sweep, TimelyInv, BreakerHasSide
<1>10. CASE Restat(p)
  <2>1. HolderHasFile'
    BY <1>10 DEF Restat, Continue, Goto, TypeOK, TimelyInv, HolderHasFile, Owns, HasLock, HolderCalls
  <2>2. BreakerHasSide'
    BY <1>10 DEF Restat, Continue, Goto, TypeOK, TimelyInv, BreakerHasSide, Breaking, BreakCalls, SideFile
  <2>3. JudgedRightly'
    <3>1. CASE lock = None
      BY <1>10, <3>1 DEF Restat, Continue, Goto, TypeOK, TimelyInv, JudgedRightly, Abandoned
    <3>2. CASE lock # None
      <4>1. Abandoned \/ fs[p] - lock.mtime < LockStale
        BY <3>2 DEF TypeOK, TimelyInv, HolderHasFile, Abandoned, LockFile, Time
      <4>2. pc' = [pc EXCEPT ![p] = "reread"] /\ seen' = [seen EXCEPT ![p] = lock.mtime]
                                              /\ UNCHANGED <<lock, fs>>
        BY <1>10, <3>2 DEF Restat, Goto
      <4>3. Abandoned => Abandoned'
        BY <1>10, <4>2, <3>2 DEF Restat, Abandoned, Owns, TypeOK, LockFile, HolderCalls
      <4>. QED BY <1>10, <4>1, <4>2, <4>3 DEF Restat, TypeOK, TimelyInv, JudgedRightly
    <3>. QED BY <3>1, <3>2
  <2>. QED BY <2>1, <2>2, <2>3 DEF TimelyInv
<1>11. CASE Reread(p)
  <2>1. HolderHasFile'
    BY <1>11 DEF Reread, Continue, Goto, TypeOK, TimelyInv, HolderHasFile, Owns, HasLock, HolderCalls
  <2>2. BreakerHasSide'
    BY <1>11 DEF Reread, Continue, Goto, TypeOK, TimelyInv, BreakerHasSide, Breaking, BreakCalls, SideFile
  <2>3. JudgedRightly'
    <3>1. lock # None /\ JudgedStale(p) => Abandoned
      BY <1>11 DEF Reread, JudgedStale, Dead, TypeOK, TimelyInv, JudgedRightly, Abandoned, Owns,
                   HolderCalls, LockFile, Time
    <3>2. Abandoned => Abandoned'
      BY <1>11 DEF Reread, Continue, Goto, Abandoned, Owns, TypeOK, LockFile, HolderCalls
    <3>. QED BY <1>11, <3>1, <3>2 DEF Reread, Continue, Goto, TypeOK, TimelyInv, JudgedRightly
  <2>. QED BY <2>1, <2>2, <2>3 DEF TimelyInv
<1>12. CASE Rename(p)
  <2>1. \A q \in Proc : ~Owns(q)
    BY <1>12 DEF Rename, TimelyInv, JudgedRightly, HolderHasFile, Abandoned, HasLock
  <2>2. \A q \in Proc \ {p} : ~Breaking(q)
    BY <1>12 DEF Rename, TimelyInv, BreakerHasSide, Breaking, BreakCalls
  <2>3. pc' = [pc EXCEPT ![p] = "unside"] /\ UNCHANGED <<clock, side, fs, seen, began>>
    BY <1>12 DEF Rename, Continue, Goto
  <2>4. HolderHasFile'
    BY <2>1, <2>3 DEF TypeOK, TimelyInv, HolderHasFile, Owns, HolderCalls
  <2>5. BreakerHasSide'
    BY <1>12, <2>3 DEF Rename, TypeOK, TimelyInv, BreakerHasSide, Breaking, BreakCalls, SideFile
  <2>6. JudgedRightly'
    BY <2>2, <2>3 DEF TypeOK, JudgedRightly, Breaking, BreakCalls
  <2>. QED BY <2>4, <2>5, <2>6 DEF TimelyInv
<1>13. CASE Unside(p)
  <2>1. PICK c \in {"temp", "idle"} : pc' = [pc EXCEPT ![p] = c]
                                    /\ fs' = [fs EXCEPT ![p] = 0]
                                    /\ began' = [began EXCEPT ![p] = 0]
    <3>1. CASE NextAttempt(p)
      BY <3>1, NextAttemptTyped
    <3>2. CASE Finish(p, "idle")
      BY <3>2 DEF Finish, Goto
    <3>. QED BY <1>13, <3>1, <3>2 DEF Unside
  <2>2. pc[p] \in BreakCalls /\ UNCHANGED <<clock, lock>> /\ side' = None
    BY <1>13 DEF Unside, BreakCalls
  <2>3. \A q \in Proc \ {p} : ~Breaking(q)
    BY <2>2 DEF TimelyInv, BreakerHasSide, Breaking
  <2>4. HolderHasFile'
    BY <2>1, <2>2 DEF TypeOK, TimelyInv, HolderHasFile, Owns, HasLock, HolderCalls, Time
  <2>5. BreakerHasSide'
    BY <2>1, <2>2, <2>3 DEF TypeOK, TimelyInv, BreakerHasSide, Breaking, BreakCalls
  <2>6. JudgedRightly'
    BY <2>1, <2>3 DEF TypeOK, JudgedRightly, Breaking, BreakCalls
  <2>. QED BY <2>4, <2>5, <2>6 DEF TimelyInv
<1>. QED BY <1>1, <1>2, <1>3, <1>4, <1>5, <1>6, <1>7, <1>8, <1>9,
            <1>10, <1>11, <1>12, <1>13 DEF Attempt

(* A holder that restamps, or that looks at its file before the unlink,     *)
(* keeps it at the path.                                                    *)
LEMMA HolderKeepsFile ==
  ASSUME TypeOK, NEW p \in Proc, HasLock(p),
         RestampTruncate(p) \/ RestampWrite(p) \/ ReleaseRead(p)
  PROVE  HasLock(p)' /\ (lock' = lock \/ lock'.mtime = clock)
<1>1. CASE lock' = lock
  BY <1>1 DEF HasLock
<1>2. ASSUME NEW b \in BOOLEAN, lock' = [by |-> p, blank |-> b, mtime |-> clock]
      PROVE  HasLock(p)' /\ lock'.mtime = clock
  <2>1. lock' \in LockFile
    BY <1>2 DEF TypeOK, LockFile
  <2>2. lock' # None
    BY <2>1, Constants
  <2>. QED BY <1>2, <2>2 DEF HasLock
<1>. QED BY <1>1, <1>2 DEF RestampTruncate, RestampWrite, ReleaseRead

(* The holder of a lock keeps its file young or takes it away itself. *)
LEMMA HoldKeepsInv ==
  ASSUME TypeOK, TimelyInv, NEW p \in Proc, Hold(p)
  PROVE  TimelyInv'
<1>. USE ConstantsTyped
<1>1. Owns(p) /\ HasLock(p) /\ clock < lock.mtime + LockStale
  BY DEF Hold, RestampTruncate, RestampWrite, ReleaseRead, ReleaseUnlink,
         Owns, HolderCalls, TimelyInv, HolderHasFile
<1>2. \A q \in Proc \ {p} : ~Owns(q)
  BY <1>1 DEF TimelyInv, HolderHasFile, HasLock
<1>3. ~Abandoned
  BY <1>1 DEF Abandoned, HasLock
<1>4. PICK c \in {"held", "restamp", "unlink", "idle"} :
        pc' = [pc EXCEPT ![p] = c] /\ UNCHANGED <<clock, side, fs, seen, began>>
  BY DEF Hold, RestampTruncate, RestampWrite, ReleaseRead, ReleaseUnlink, Continue, Goto
<1>5. BreakerHasSide'
  BY <1>1, <1>4 DEF TypeOK, TimelyInv, BreakerHasSide, Breaking, BreakCalls, Owns, HolderCalls, SideFile
<1>6. JudgedRightly'
  BY <1>3, <1>4 DEF TypeOK, TimelyInv, JudgedRightly
<1>7. HolderHasFile'
  <2>1. CASE ReleaseRead(p)
    BY <2>1, <1>1, <1>2, <1>4 DEF ReleaseRead, TypeOK, TimelyInv, HolderHasFile, Owns, HasLock, HolderCalls
  <2>2. CASE ReleaseUnlink(p)
    BY <2>2, <1>2 DEF ReleaseUnlink, Continue, Goto, TypeOK, TimelyInv, HolderHasFile, Owns, HolderCalls
  <2>3. CASE RestampTruncate(p) \/ RestampWrite(p)
    <3>2. HasLock(p)' /\ clock < lock'.mtime + LockStale
      BY <2>3, <1>1, HolderKeepsFile DEF TypeOK, Time
    <3>. QED BY <3>2, <1>2, <1>4 DEF TypeOK, TimelyInv, HolderHasFile, Owns, HasLock, HolderCalls
  <2>. QED BY <2>1, <2>2, <2>3 DEF Hold
<1>. QED BY <1>5, <1>6, <1>7 DEF TimelyInv

(* The inductive step of the timely world. *)
LEMMA TimelyStep == Timely /\ TypeOK /\ TimelyInv /\ [Next]_vars => TimelyInv'
<1>. SUFFICES ASSUME Timely, TypeOK, TimelyInv, [Next]_vars PROVE TimelyInv'
  OBVIOUS
<1>. USE ConstantsTyped
<1>. DEFINE Quiet == {"idle", "temp", "dead"}
<1>0. Quiet \subseteq Calls \ Watched
  BY DEF Calls, Watched, AcquireCalls, ContendCalls, HolderCalls, BreakCalls
<1>1. ASSUME NEW p \in Proc, Begin(p) PROVE TimelyInv'
  BY <1>1, <1>0, QuietStep DEF Begin, Acquire, AcquireWait, Continue, Goto, BreakCalls
<1>2. ASSUME NEW p \in Proc, Attempt(p) PROVE TimelyInv'
  BY <1>2, AttemptKeepsInv
<1>3. ASSUME NEW p \in Proc, Hold(p) PROVE TimelyInv'
  BY <1>3, HoldKeepsInv
<1>4. ASSUME NEW p \in Proc, Crash(p) PROVE TimelyInv'
  BY <1>4, <1>0, QuietStep DEF Crash, Timely, Breaking, Finish, Goto, TypeOK
<1>5. ASSUME NEW p \in Proc, IoError(p) PROVE TimelyInv'
  <2>1. CASE AcquireFails(p)
    BY <1>5, <2>1, <1>0, QuietStep DEF IoError, AcquireFails, Finish, Goto, TypeOK, AcquireCalls, BreakCalls
  <2>2. CASE SweepFails(p)
    BY <1>5, <2>2, <1>0, QuietStep, NextAttemptTyped
       DEF IoError, SweepFails, NextAttempt, Finish, TypeOK, BreakCalls
  <2>3. CASE BreakFails(p)
    <3>1. pc' = [pc EXCEPT ![p] = "unsideErr"] /\ UNCHANGED <<clock, lock, side, fs, seen, began>>
      BY <1>5, <2>3 DEF IoError, BreakFails, Continue, Goto
    <3>2. HolderHasFile'
      BY <2>3, <3>1 DEF BreakFails, TypeOK, TimelyInv, HolderHasFile, Owns, HasLock, HolderCalls
    <3>3. BreakerHasSide'
      BY <2>3, <3>1 DEF BreakFails, TypeOK, TimelyInv, BreakerHasSide, Breaking, BreakCalls, SideFile
    <3>4. JudgedRightly'
      BY <2>3, <3>1 DEF BreakFails, TypeOK, TimelyInv, JudgedRightly, Abandoned, Owns, HolderCalls, LockFile
    <3>. QED BY <3>2, <3>3, <3>4 DEF TimelyInv
  <2>4. CASE UnsideFails(p)
    BY <2>4 DEF UnsideFails, Timely
  <2>5. CASE ReleaseFails(p)
    BY <1>5, <2>5, <1>0, QuietStep DEF IoError, ReleaseFails, Continue, Goto, BreakCalls
  <2>. QED BY <1>5, <2>1, <2>2, <2>3, <2>4, <2>5 DEF IoError
<1>6. ASSUME Tick PROVE TimelyInv'
  <2>1. HolderHasFile'
    BY <1>6 DEF Tick, Timely, TypeOK, TimelyInv, HolderHasFile, Owns, HasLock, Time
  <2>2. BreakerHasSide'
    BY <1>6 DEF Tick, Timely, TypeOK, TimelyInv, BreakerHasSide, Breaking, Time
  <2>3. JudgedRightly'
    BY <1>6 DEF Tick, TimelyInv, JudgedRightly, Abandoned, Owns
  <2>. QED BY <2>1, <2>2, <2>3 DEF TimelyInv
<1>7. CASE UNCHANGED vars
  BY <1>7 DEF vars, TimelyInv, HolderHasFile, BreakerHasSide, JudgedRightly,
              Abandoned, Owns, HasLock, Breaking
<1>. QED BY <1>1, <1>2, <1>3, <1>4, <1>5, <1>6, <1>7 DEF Next

LEMMA TimelyHolds == ASSUME Timely PROVE Spec => [](TypeOK /\ TimelyInv)
<1>1. Init => TypeOK /\ TimelyInv
  BY ConstantsTyped DEF Init, TypeOK, TimelyInv, HolderHasFile, BreakerHasSide, JudgedRightly,
     Owns, Breaking, HolderCalls, BreakCalls, Calls, Time
<1>2. TypeOK /\ TimelyInv /\ [Next]_vars => (TypeOK /\ TimelyInv)'
  BY StepTyped, TimelyStep
<1>. QED BY <1>1, <1>2, PTL DEF Spec

(* In a timely world no two processes hold the lock at once.                *)
THEOREM Exclusion == ASSUME Timely PROVE Spec => []MutualExclusion
<1>1. TypeOK /\ TimelyInv => MutualExclusion
  BY DEF TimelyInv, HolderHasFile, MutualExclusion, Owns, HasLock, HolderCalls
<1>. QED BY <1>1, TimelyHolds, PTL

(* In a timely world no two breakers are between the second judgement and   *)
(* the end, so a verdict reached under the side-lock is still true when it  *)
(* is carried out.                                                          *)
THEOREM OneBreaks == ASSUME Timely PROVE Spec => []OneBreaker
<1>1. TypeOK /\ TimelyInv => OneBreaker
  BY DEF TimelyInv, BreakerHasSide, OneBreaker
<1>. QED BY <1>1, TimelyHolds, PTL

(* In a timely world the file of a holder leaves the path only by the       *)
(* holder's own unlink (the promise of lock.rs:14-16).                      *)
THEOREM NoTheft == ASSUME Timely PROVE Spec => NeverStolen
<1>1. ASSUME TypeOK, TimelyInv, TypeOK', TimelyInv', [Next]_vars PROVE [LeavesByRelease]_vars
  <2>. SUFFICES ASSUME NEW p \in Proc, Owns(p), HasLock(p), ~HasLock(p)'
                PROVE  pc[p] = "unlink" /\ ~Owns(p)'
    BY DEF LeavesByRelease
  <2>1. ~Owns(p)'
    BY <1>1 DEF TimelyInv, HolderHasFile
  <2>2. pc[p] = "unlink"
    <3>1. ~Abandoned
      BY DEF Abandoned, HasLock
    <3>2. lock' # lock
      BY DEF HasLock
    <3>3. PICK q \in Proc : LinkOk(q) \/ Rename(q) \/ Hold(q)
      BY <1>1, <3>2 DEF Next, vars, Begin, Acquire, AcquireWait, Attempt, Temp, LinkExists,
         Stat, Read, SideTemp, SideLink, SideStat, Sweep, Restat, Reread, Unside,
         Crash, IoError, AcquireFails, SweepFails, BreakFails, UnsideFails, ReleaseFails, Tick
    <3>4. ~LinkOk(q)
      BY DEF LinkOk, HasLock
    <3>5. ~Rename(q)
      BY <1>1, <3>1 DEF Rename, TimelyInv, JudgedRightly
    <3>6. q = p
      BY <1>1, <3>3, <3>4, <3>5 DEF Hold, RestampTruncate, RestampWrite, ReleaseRead,
         ReleaseUnlink, TimelyInv, HolderHasFile, Owns, HolderCalls, HasLock
    <3>7. CASE RestampTruncate(p) \/ RestampWrite(p) \/ ReleaseRead(p)
      BY <1>1, <3>7, HolderKeepsFile
    <3>. QED BY <3>3, <3>4, <3>5, <3>6, <3>7 DEF Hold, ReleaseUnlink
  <2>. QED BY <2>1, <2>2
<1>. QED BY <1>1, TimelyHolds, PTL DEF Spec, NeverStolen

(* In a timely world the files implement the lock the callers are promised. *)
THEOREM Implementation == ASSUME Timely PROVE Spec => ImplementsService
<1>. DEFINE Owner == IF lock = None THEN None ELSE lock.by
            InUse == lock # None /\ Owns(lock.by)
<1>1. Init => Service!Init
  BY DEF Init, Service!Init
<1>2. ASSUME TypeOK, TimelyInv, TypeOK', [Next]_vars
      PROVE  [Service!Next]_Service!vars
  <2>. SUFFICES ASSUME ~(UNCHANGED <<Owner, InUse>>)
                PROVE  Service!Next
    BY DEF Service!vars
  <2>. USE DEF Service!Next, Service!Acquire, Service!Release, Service!Abandon, Service!Reclaim
  <2>0. lock # None => lock.by \in Proc
    BY <1>2 DEF TypeOK, LockFile
  <2>1. ASSUME NEW p \in Proc, LinkOk(p) PROVE Service!Next
    <3>1. lock' # None /\ lock'.by = p
      <4>1. [by |-> p, blank |-> FALSE, mtime |-> fs[p]] \in LockFile
        BY <1>2 DEF TypeOK, LockFile
      <4>. QED BY <2>1, <4>1, Constants DEF LinkOk
    <3>2. Owns(p)'
      BY <1>2, <2>1 DEF LinkOk, Finish, Goto, TypeOK, Owns, HolderCalls
    <3>. QED BY <2>1, <3>1, <3>2 DEF LinkOk
  <2>2. ASSUME NEW p \in Proc, Hold(p) PROVE Service!Next
    <3>1. Owns(p) /\ HasLock(p)
      BY <1>2, <2>2 DEF Hold, RestampTruncate, RestampWrite, ReleaseRead, ReleaseUnlink,
         Owns, HolderCalls, TimelyInv, HolderHasFile
    <3>2. CASE ReleaseUnlink(p)
      BY <3>1, <3>2, <2>0 DEF ReleaseUnlink, HasLock
    <3>3. CASE RestampTruncate(p) \/ RestampWrite(p) \/ ReleaseRead(p)
      <4>1. HasLock(p)'
        BY <1>2, <3>1, <3>3, HolderKeepsFile
      <4>2. Owns(p)' \/ ReleaseRead(p)
        BY <1>2, <3>3 DEF RestampTruncate, RestampWrite, Continue, Goto, TypeOK, Owns, HolderCalls
      <4>3. CASE ReleaseRead(p)
        BY <1>2, <3>1, <4>1, <4>3, <2>0 DEF ReleaseRead, HasLock
      <4>. QED BY <3>1, <4>1, <4>2, <4>3, <2>0 DEF HasLock
    <3>. QED BY <2>2, <3>2, <3>3 DEF Hold
  <2>3. ASSUME NEW p \in Proc, Rename(p) PROVE Service!Next
    BY <1>2, <2>0, <2>3 DEF Rename, TimelyInv, JudgedRightly, Abandoned
  <2>4. ASSUME lock' = lock, \A q \in Proc : Owns(q)' => Owns(q) PROVE Service!Next
    BY <2>0, <2>4
  <2>5. ASSUME NEW p \in Proc, Begin(p) PROVE \A q \in Proc : Owns(q)' => Owns(q)
    BY <1>2, <2>5 DEF Begin, Acquire, AcquireWait, Continue, Goto, TypeOK, Owns, HolderCalls
  <2>6. ASSUME NEW p \in Proc, Attempt(p), ~LinkOk(p) PROVE \A q \in Proc : Owns(q)' => Owns(q)
    BY <1>2, <2>6 DEF Attempt, Temp, LinkExists, Stat, Read, SideTemp, SideLink, SideStat,
       Sweep, Restat, Reread, Rename, Unside, NextAttempt, Busy, Finish, Continue, Goto,
       TypeOK, Owns, HolderCalls
  <2>7. ASSUME NEW p \in Proc, Crash(p) \/ IoError(p) PROVE \A q \in Proc : Owns(q)' => Owns(q)
    BY <1>2, <2>7 DEF Crash, IoError, AcquireFails, SweepFails, BreakFails, UnsideFails,
       ReleaseFails, NextAttempt, Finish, Continue, Goto, TypeOK, Owns, HolderCalls
  <2>8. ASSUME Tick \/ UNCHANGED vars PROVE Service!Next
    BY <2>8 DEF Tick, vars, Owns
  <2>9. ASSUME NEW p \in Proc, Begin(p) \/ Crash(p) \/ IoError(p) PROVE lock' = lock
    BY <2>9 DEF Begin, Acquire, AcquireWait, Crash, IoError, AcquireFails, SweepFails,
       BreakFails, UnsideFails, ReleaseFails
  <2>10. ASSUME NEW p \in Proc, Attempt(p), ~LinkOk(p), ~Rename(p) PROVE lock' = lock
    BY <2>10 DEF Attempt, Temp, LinkExists, Stat, Read, SideTemp, SideLink, SideStat,
       Sweep, Restat, Reread, Unside
  <2>. QED BY <1>2, <2>1, <2>2, <2>3, <2>4, <2>5, <2>6, <2>7, <2>8, <2>9, <2>10 DEF Next
<1>. QED BY <1>1, <1>2, TimelyHolds, PTL DEF Spec, ImplementsService, Service!Spec
=============================================================================
