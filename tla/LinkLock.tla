----------------------------- MODULE LinkLock -----------------------------
(***************************************************************************)
(* cactup's NFS-safe lock (src/lock.rs): a temp file that records its       *)
(* writer is hard-linked to the lock's path, the link is the acquire, an    *)
(* unlink is the release.  Whoever finds the path taken judges the holder:  *)
(* a holder on the same host by /proc, any other by the age of the lock     *)
(* file.  A stale lock is broken under a side-lock, <path>.breaker, after a *)
(* second judgement.                                                        *)
(*                                                                          *)
(* One lock path is modelled.  A process is one incarnation of a pid: a     *)
(* process that died stays dead, and the start time in a stamp keeps a      *)
(* recycled pid from being taken for it.  Every file-system call is a step  *)
(* of its own, so any two calls of one process may be interleaved with the  *)
(* calls of all others.  Times are stamps of the file server's clock.       *)
(*                                                                          *)
(* The three Boolean constants name what the protocol takes for granted     *)
(* about time and crashes; the invariants of the timely world are proved    *)
(* in LinkLockProofs, and the runs show what breaks when one is dropped.    *)
(***************************************************************************)
EXTENDS Integers, FiniteSets

CONSTANTS
  Proc,            \* the processes that use the lock
  Host,            \* the hosts they run on
  hostOf,          \* the host of each process
  Beats,           \* processes that hold the lock as a HeartbeatLock
  None,            \* no file
  Attempts,        \* ACQUIRE_ATTEMPTS
  LockStale,       \* LOCK_STALE_SECS, in ticks
  BreakerStale,    \* BREAKER_STALE_SECS, in ticks
  HandoffWait,     \* HANDOFF_WAIT_SECS, in ticks
  MaxClock,        \* bound: the clock's last tick
  MaxCrashes,      \* bound: how many processes may die
  MaxErrors,       \* bound: how many file-system calls fail
  TimelyHolders,   \* a holder restamps or releases before LockStale
  TimelyBreakers,  \* a breaker is done before BreakerStale
  BreakersFinish   \* a breaker always gets to remove its side-lock

VARIABLES
  clock,   \* the file server's clock
  lock,    \* the file at the lock's path, or None
  side,    \* the file at <path>.breaker, or None
  pc,      \* the next call of each process
  fs,      \* fs_now: the mtime of the temp file of this attempt
  seen,    \* the mtime the last stat of the lock file returned
  tries,   \* attempts of this acquire that are over
  since,   \* when acquire_wait began; NoWait for acquire and try_acquire
  began,   \* the mtime of the temp file of the side-lock
  errors   \* failed file-system calls so far

vars == <<clock, lock, side, pc, fs, seen, tries, since, began, errors>>

-----------------------------------------------------------------------------
(* The calls of a process: in acquire_inner and assess_holder, in           *)
(* break_stale before and under the side-lock, and as a holder.             *)

AcquireCalls == {"temp", "link", "stat", "read"}
ContendCalls == {"sideTemp", "sideLink", "sideStat", "sweep"}
BreakCalls   == {"restat", "reread", "rename", "unside", "unsideErr"}
HolderCalls  == {"held", "restamp", "unlink"}
Calls == {"idle", "dead"} \cup AcquireCalls \cup ContendCalls
                          \cup BreakCalls \cup HolderCalls

Time   == 0 .. MaxClock
NoWait == -1

(* A lock file and who wrote it; it is blank between the truncation and the *)
(* write of a restamp.                                                      *)
LockFile == [by : Proc, blank : BOOLEAN, mtime : Time]
SideFile == [by : Proc, mtime : Time]

ASSUME Constants ==
  /\ hostOf \in [Proc -> Host]
  /\ Beats \subseteq Proc
  /\ None \notin Proc \cup LockFile \cup SideFile
  /\ Attempts \in Nat \ {0}
  /\ LockStale \in Nat \ {0}
  /\ BreakerStale \in Nat \ {0}
  /\ HandoffWait \in Nat
  /\ MaxClock \in Nat
  /\ MaxCrashes \in Nat
  /\ MaxErrors \in Nat
  /\ {TimelyHolders, TimelyBreakers, BreakersFinish} \subseteq BOOLEAN

Owns(p)     == pc[p] \in HolderCalls
Breaking(p) == pc[p] \in BreakCalls
Trying(p)   == pc[p] \in AcquireCalls \cup ContendCalls \cup BreakCalls
Dead(p)     == pc[p] = "dead"

HasLock(p) == lock # None /\ lock.by = p

TypeOK ==
  /\ clock \in Time
  /\ lock \in LockFile \cup {None}
  /\ side \in SideFile \cup {None}
  /\ pc \in [Proc -> Calls]
  /\ fs \in [Proc -> Time]
  /\ seen \in [Proc -> Time]
  /\ tries \in [Proc -> 0 .. Attempts - 1]
  /\ since \in [Proc -> Time \cup {NoWait}]
  /\ began \in [Proc -> Time]
  /\ errors \in 0 .. MaxErrors

Init ==
  /\ clock = 0
  /\ lock = None
  /\ side = None
  /\ pc = [p \in Proc |-> "idle"]
  /\ fs = [p \in Proc |-> 0]
  /\ seen = [p \in Proc |-> 0]
  /\ tries = [p \in Proc |-> 0]
  /\ since = [p \in Proc |-> NoWait]
  /\ began = [p \in Proc |-> 0]
  /\ errors = 0

-----------------------------------------------------------------------------
(* How a process goes on.                                                   *)

Goto(p, call) == pc' = [pc EXCEPT ![p] = call]

(* The call at hand is over and the process makes the next one. *)
Continue(p, call) == Goto(p, call) /\ UNCHANGED <<fs, seen, tries, since, began>>

(* The acquire is over: nothing of it is remembered. *)
Finish(p, call) ==
  /\ Goto(p, call)
  /\ fs' = [fs EXCEPT ![p] = 0]
  /\ seen' = [seen EXCEPT ![p] = 0]
  /\ tries' = [tries EXCEPT ![p] = 0]
  /\ since' = [since EXCEPT ![p] = NoWait]
  /\ began' = [began EXCEPT ![p] = 0]

(* The attempt is over: the next one, or "Gave up acquiring lock". *)
NextAttempt(p) ==
  \/ /\ tries[p] + 1 < Attempts
     /\ Goto(p, "temp")
     /\ tries' = [tries EXCEPT ![p] = tries[p] + 1]
     /\ fs' = [fs EXCEPT ![p] = 0]
     /\ seen' = [seen EXCEPT ![p] = 0]
     /\ began' = [began EXCEPT ![p] = 0]
     /\ UNCHANGED since
  \/ /\ tries[p] + 1 >= Attempts
     /\ Finish(p, "idle")

(* Mutant: acquire_wait never looks at its deadline. *)
Busy_NoDeadline(p) ==
  \/ Finish(p, "idle")
  \/ /\ since[p] # NoWait
     /\ Goto(p, "temp")
     /\ tries' = [tries EXCEPT ![p] = 0]
     /\ fs' = [fs EXCEPT ![p] = 0]
     /\ seen' = [seen EXCEPT ![p] = 0]
     /\ UNCHANGED <<since, began>>

(* A live holder: acquire and try_acquire return it, acquire_wait polls     *)
(* again unless it is interrupted or its time is up.                        *)
Busy(p) ==
  \/ Finish(p, "idle")
  \/ /\ since[p] # NoWait
     /\ clock - since[p] < HandoffWait
     /\ Goto(p, "temp")
     /\ tries' = [tries EXCEPT ![p] = 0]
     /\ fs' = [fs EXCEPT ![p] = 0]
     /\ seen' = [seen EXCEPT ![p] = 0]
     /\ UNCHANGED <<since, began>>

(* Mutant: the age is measured by a clock that runs a tick ahead. *)
JudgedStale_SkewedClock(p) ==
  IF ~lock.blank /\ hostOf[lock.by] = hostOf[p]
  THEN Dead(lock.by)
  ELSE fs[p] + 1 - seen[p] >= LockStale

(* The verdict of assess_holder on the lock file p reads now, whose mtime   *)
(* it took from the stat before: /proc decides for a holder on p's host,    *)
(* the age of the file for any other and for one that cannot be read.       *)
JudgedStale(p) ==
  IF ~lock.blank /\ hostOf[lock.by] = hostOf[p]
  THEN Dead(lock.by)
  ELSE fs[p] - seen[p] >= LockStale

-----------------------------------------------------------------------------
(* acquire_inner.                                                           *)

Acquire(p) ==
  /\ pc[p] = "idle"
  /\ Continue(p, "temp")
  /\ UNCHANGED <<clock, lock, side, errors>>

AcquireWait(p) ==
  /\ pc[p] = "idle"
  /\ clock + HandoffWait <= MaxClock    \* bound: the wait ends in time
  /\ Goto(p, "temp")
  /\ since' = [since EXCEPT ![p] = clock]
  /\ UNCHANGED <<clock, lock, side, fs, seen, tries, began, errors>>

(* The temp file with our stamp is written: its mtime is fs_now. *)
Temp(p) ==
  /\ pc[p] = "temp"
  /\ Goto(p, "link")
  /\ fs' = [fs EXCEPT ![p] = clock]
  /\ UNCHANGED <<clock, lock, side, seen, tries, since, began, errors>>

(* Mutant: the temp file is renamed over the lock's path. *)
LinkOk_Overwrites(p) ==
  /\ pc[p] = "link"
  /\ lock' = [by |-> p, blank |-> FALSE, mtime |-> fs[p]]
  /\ Finish(p, "held")
  /\ UNCHANGED <<clock, side, errors>>

(* The link succeeds (or its reply is lost and the link count shows it):    *)
(* the temp file is now the lock file.                                      *)
LinkOk(p) ==
  /\ pc[p] = "link"
  /\ lock = None
  /\ lock' = [by |-> p, blank |-> FALSE, mtime |-> fs[p]]
  /\ Finish(p, "held")
  /\ UNCHANGED <<clock, side, errors>>

LinkExists(p) ==
  /\ pc[p] = "link"
  /\ lock # None
  /\ Continue(p, "stat")
  /\ UNCHANGED <<clock, lock, side, errors>>

Stat(p) ==
  /\ pc[p] = "stat"
  /\ \/ /\ lock = None
        /\ NextAttempt(p)
     \/ /\ lock # None
        /\ Goto(p, "read")
        /\ seen' = [seen EXCEPT ![p] = lock.mtime]
        /\ UNCHANGED <<fs, tries, since, began>>
  /\ UNCHANGED <<clock, lock, side, errors>>

Read(p) ==
  /\ pc[p] = "read"
  /\ \/ /\ lock = None
        /\ NextAttempt(p)
     \/ /\ lock # None
        /\ JudgedStale(p)
        /\ Continue(p, "sideTemp")
     \/ /\ lock # None
        /\ ~JudgedStale(p)
        /\ Busy(p)
  /\ UNCHANGED <<clock, lock, side, errors>>

-----------------------------------------------------------------------------
(* break_stale.                                                             *)

SideTemp(p) ==
  /\ pc[p] = "sideTemp"
  /\ Goto(p, "sideLink")
  /\ began' = [began EXCEPT ![p] = clock]
  /\ UNCHANGED <<clock, lock, side, fs, seen, tries, since, errors>>

SideLink(p) ==
  /\ pc[p] = "sideLink"
  /\ \/ /\ side = None
        /\ side' = [by |-> p, mtime |-> began[p]]
        /\ Continue(p, "restat")
     \/ /\ side # None
        /\ Continue(p, "sideStat")
        /\ UNCHANGED side
  /\ UNCHANGED <<clock, lock, errors>>

(* Mutant: a side-lock is never swept. *)
SideStat_Never(p) ==
  /\ pc[p] = "sideStat"
  /\ NextAttempt(p)
  /\ UNCHANGED <<clock, lock, side, errors>>

(* Another breaker has the side-lock.  If that is old by the clock of this  *)
(* attempt it is a corpse and is swept aside; either way the attempt ends.  *)
SideStat(p) ==
  /\ pc[p] = "sideStat"
  /\ IF side # None /\ fs[p] - side.mtime >= BreakerStale
     THEN Continue(p, "sweep")
     ELSE NextAttempt(p)
  /\ UNCHANGED <<clock, lock, side, errors>>

Sweep(p) ==
  /\ pc[p] = "sweep"
  /\ side' = None
  /\ NextAttempt(p)
  /\ UNCHANGED <<clock, lock, errors>>

(* Under the side-lock the holder is judged again, by the same fs_now. *)
Restat(p) ==
  /\ pc[p] = "restat"
  /\ \/ /\ lock = None
        /\ Continue(p, "unside")
     \/ /\ lock # None
        /\ Goto(p, "reread")
        /\ seen' = [seen EXCEPT ![p] = lock.mtime]
        /\ UNCHANGED <<fs, tries, since, began>>
  /\ UNCHANGED <<clock, lock, side, errors>>

(* Mutant: the side-lock is taken and the first verdict is trusted. *)
Reread_FirstVerdict(p) ==
  /\ pc[p] = "reread"
  /\ Continue(p, "rename")
  /\ UNCHANGED <<clock, lock, side, errors>>

Reread(p) ==
  /\ pc[p] = "reread"
  /\ IF lock # None /\ JudgedStale(p)
     THEN Continue(p, "rename")
     ELSE Continue(p, "unside")
  /\ UNCHANGED <<clock, lock, side, errors>>

(* The lock file, whoever it belongs to by now, is renamed to a private     *)
(* name and unlinked there; no file at the path is no error.                *)
Rename(p) ==
  /\ pc[p] = "rename"
  /\ lock' = None
  /\ Continue(p, "unside")
  /\ UNCHANGED <<clock, side, errors>>

(* The side-lock, whoever it belongs to by now, is removed. *)
Unside(p) ==
  /\ side' = None
  /\ \/ /\ pc[p] = "unside"
        /\ NextAttempt(p)
     \/ /\ pc[p] = "unsideErr"
        /\ Finish(p, "idle")
  /\ UNCHANGED <<clock, lock, errors>>

-----------------------------------------------------------------------------
(* The holder: the heartbeat thread's restamp, and the release on drop,     *)
(* which comes after that thread was joined.                                *)

(* fs::write truncates the file at the path, or creates it. *)
RestampTruncate(p) ==
  /\ pc[p] = "held"
  /\ p \in Beats
  /\ lock' = [by |-> p, blank |-> TRUE, mtime |-> clock]
  /\ Continue(p, "restamp")
  /\ UNCHANGED <<clock, side, errors>>

(* The stamp goes to the file that was opened, whether or not that is still *)
(* the one at the path.                                                     *)
RestampWrite(p) ==
  /\ pc[p] = "restamp"
  /\ lock' = IF HasLock(p) /\ lock.blank
             THEN [by |-> p, blank |-> FALSE, mtime |-> clock]
             ELSE lock
  /\ Continue(p, "held")
  /\ UNCHANGED <<clock, side, errors>>

(* Drop reads the lock file and unlinks it only if it carries our stamp. *)
ReleaseRead(p) ==
  /\ pc[p] = "held"
  /\ IF HasLock(p) /\ ~lock.blank
     THEN Continue(p, "unlink")
     ELSE Continue(p, "idle")
  /\ UNCHANGED <<clock, lock, side, errors>>

ReleaseUnlink(p) ==
  /\ pc[p] = "unlink"
  /\ lock' = None
  /\ Continue(p, "idle")
  /\ UNCHANGED <<clock, side, errors>>

-----------------------------------------------------------------------------
(* What goes wrong.                                                         *)

(* A process dies between any two calls. *)
Crash(p) ==
  /\ ~Dead(p)
  /\ BreakersFinish => ~Breaking(p)
  /\ Cardinality({q \in Proc : Dead(q)}) < MaxCrashes
  /\ clock + LockStale <= MaxClock      \* bound: its files grow old in time
  /\ Finish(p, "dead")
  /\ UNCHANGED <<clock, lock, side, errors>>

(* A call of acquire_inner, or of break_stale before it has the side-lock,  *)
(* fails: the acquire returns the error.                                    *)
AcquireFails(p) ==
  /\ pc[p] \in AcquireCalls \cup {"sideTemp", "sideLink"}
  /\ Finish(p, "idle")
  /\ UNCHANGED <<lock, side>>

(* The stat or the removal of another's side-lock fails: it stays, and the  *)
(* attempt ends as if it had been young.                                    *)
SweepFails(p) ==
  /\ pc[p] \in {"sideStat", "sweep"}
  /\ NextAttempt(p)
  /\ UNCHANGED <<lock, side>>

(* A call under the side-lock fails: the side-lock is removed, then the     *)
(* acquire returns the error.                                               *)
BreakFails(p) ==
  /\ pc[p] \in {"restat", "reread", "rename"}
  /\ Continue(p, "unsideErr")
  /\ UNCHANGED <<lock, side>>

(* The side-lock cannot be removed: the error is ignored. *)
UnsideFails(p) ==
  /\ ~BreakersFinish
  /\ \/ pc[p] = "unside" /\ NextAttempt(p)
     \/ pc[p] = "unsideErr" /\ Finish(p, "idle")
  /\ UNCHANGED <<lock, side>>

(* Drop cannot read or unlink the lock file: it stays behind. *)
ReleaseFails(p) ==
  /\ pc[p] \in {"held", "unlink"}
  /\ Continue(p, "idle")
  /\ UNCHANGED <<lock, side>>

(* The file system fails one call. *)
IoError(p) ==
  /\ errors < MaxErrors
  /\ errors' = errors + 1
  /\ clock + LockStale <= MaxClock      \* bound: what is left grows old in time
  /\ \/ AcquireFails(p) \/ SweepFails(p) \/ BreakFails(p)
     \/ UnsideFails(p) \/ ReleaseFails(p)
  /\ UNCHANGED clock

(* Time passes.  In a timely world it does not pass over a holder that has  *)
(* to restamp or release first, nor over a breaker that has to finish.      *)
Tick ==
  /\ clock < MaxClock
  /\ TimelyHolders =>
       \A p \in Proc :
         /\ Owns(p) /\ HasLock(p) => clock + 1 < lock.mtime + LockStale
         /\ pc[p] = "link" => clock + 1 < fs[p] + LockStale
  /\ TimelyBreakers =>
       \A p \in Proc :
         Breaking(p) \/ pc[p] = "sideLink" => clock + 1 < began[p] + BreakerStale
  /\ clock' = clock + 1
  /\ UNCHANGED <<lock, side, pc, fs, seen, tries, since, began, errors>>

-----------------------------------------------------------------------------
Begin(p) == Acquire(p) \/ AcquireWait(p)

Attempt(p) == \/ Temp(p) \/ LinkOk(p) \/ LinkExists(p) \/ Stat(p) \/ Read(p)
              \/ SideTemp(p) \/ SideLink(p) \/ SideStat(p) \/ Sweep(p)
              \/ Restat(p) \/ Reread(p) \/ Rename(p) \/ Unside(p)

Hold(p) == \/ RestampTruncate(p) \/ RestampWrite(p)
           \/ ReleaseRead(p) \/ ReleaseUnlink(p)

Next ==
  \/ \E p \in Proc : Begin(p) \/ Attempt(p) \/ Hold(p) \/ Crash(p) \/ IoError(p)
  \/ Tick

Spec == Init /\ [][Next]_vars

(* A process that is in an acquire goes on; a holder restamps or releases;  *)
(* time passes whatever the processes do.  Nobody has to begin an acquire.  *)
Fairness ==
  /\ \A p \in Proc : WF_vars(Attempt(p)) /\ WF_vars(Hold(p))
  /\ SF_vars(Tick)

FairSpec == Spec /\ Fairness

-----------------------------------------------------------------------------
(* The lock's point (lock.rs, try_acquire): no two processes hold it at     *)
(* once, from the return of the acquire to the start of the drop.           *)
MutualExclusion ==
  \A p, q \in Proc :
    pc[p] \in {"held", "restamp"} /\ pc[q] \in {"held", "restamp"} => p = q

(* The side-lock of break_stale serialises the breakers: what happens       *)
(* between the second judgement and the removal is done by one at a time.   *)
OneBreaker == \A p, q \in Proc : Breaking(p) /\ Breaking(q) => p = q

(* The module's promise (lock.rs:14-16): no breaker renames away the lock   *)
(* of a process that holds it; the file of a holder leaves the path only    *)
(* when the holder itself unlinks it.                                       *)
LeavesByRelease ==
  \A p \in Proc : Owns(p) /\ HasLock(p) /\ ~HasLock(p)' => pc[p] = "unlink" /\ ~Owns(p)'

NeverStolen == [][LeavesByRelease]_vars

(* Why the timely world is safe, as an inductive invariant.  A holder's     *)
(* file is at the path and too young to be judged stale from afar; whoever  *)
(* breaks has the side-lock, which is too young to be swept; and what a     *)
(* breaker has judged stale under it is nobody's any more and stays so.     *)
Timely == TimelyHolders /\ TimelyBreakers /\ BreakersFinish

Abandoned == lock # None /\ ~Owns(lock.by)

HolderHasFile ==
  \A p \in Proc :
    /\ fs[p] <= clock
    /\ Owns(p) => HasLock(p) /\ clock < lock.mtime + LockStale
    /\ pc[p] = "link" => clock < fs[p] + LockStale

BreakerHasSide ==
  /\ \A p \in Proc :
       /\ Breaking(p) => side # None /\ side.by = p
       /\ Breaking(p) \/ pc[p] = "sideLink" => clock < began[p] + BreakerStale
       /\ pc[p] # "sweep"
  /\ side # None => Breaking(side.by) /\ side.mtime = began[side.by]

JudgedRightly ==
  \A p \in Proc :
    /\ pc[p] = "reread" => Abandoned \/ fs[p] - seen[p] < LockStale
    /\ pc[p] = "rename" => Abandoned

TimelyInv == HolderHasFile /\ BreakerHasSide /\ JudgedRightly

(* Every acquire comes to an end: acquire_inner after Attempts, acquire_wait *)
(* when its time is up.                                                     *)
AcquireEnds == \A p \in Proc : Trying(p) ~> ~Trying(p)

(* A lock whose holder died does not outlive the processes that try to get  *)
(* it, even if a breaker died on it too and left its side-lock.             *)
Corpse == lock # None /\ Dead(lock.by)

CorpseGoes == (\E p \in Proc : []<>Trying(p)) => []<>~Corpse

(* The files implement the lock the callers are promised. *)
Service == INSTANCE LockService
             WITH owner <- IF lock = None THEN None ELSE lock.by,
                  inUse <- lock # None /\ Owns(lock.by)

ImplementsService == Service!Spec
=============================================================================
