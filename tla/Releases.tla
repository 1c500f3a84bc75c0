------------------------------ MODULE Releases ------------------------------
(***************************************************************************)
(* The builds of cactup in ~/.cactup/bin: self-update and the pruning of   *)
(* retired builds (src/src/update.rs), the versioned path a job's script   *)
(* runs cactup by (src/src/freeze.rs), and the installer                   *)
(* (src/cactup-init.sh).                                                   *)
(*                                                                         *)
(* bin/cactup is a link to the current build's cactup-<build> (a plain     *)
(* file where an older installer made it).  An update swaps the link and   *)
(* stamps the build it replaced as retired, in steps, under                *)
(* bin/.update.lock; a prune removes the builds whose stamp is Keep old.   *)
(* Jobs name the build that submitted them and may start much later, and a *)
(* chain of them goes on submitting under that build.                      *)
(***************************************************************************)
EXTENDS Naturals

CONSTANTS
  Cmd,        \* processes running cactup, or the installer
  MaxBuild,   \* builds are 1..MaxBuild, ordered by their dates
  Keep,       \* RETIRED_KEEP, in ticks of the fileserver's clock
  MaxDeaths,  \* bound: processes that die inside an update, prune or install
  Upsets,     \* {"reinstall"}: the installer may bring back a build that has
              \* a stamp, replace one that has, or run beside an update or a
              \* prune
  None

Build == 1..MaxBuild

ReleasesAssumption ==
  Keep \in Nat \ {0} /\ MaxDeaths \in Nat /\ MaxBuild \in Nat \ {0} /\ None \notin Nat

VARIABLES
  link,    \* what bin/cactup is: [build, plain]
  files,   \* the builds whose cactup-<build> is there
  stamp,   \* per build the age of cactup-<build>.retired, or None
  left,    \* per build the time since the link left it, or None: it is the
           \* current one, or never was
  jobs,    \* the builds that submitted jobs name
  cmd,     \* per process: [at, me, plain, frozen, new, prev, todo]
  deaths

vars == <<link, files, stamp, left, jobs, cmd, deaths>>

Ages == 0..Keep \cup {None}
Idle == [at |-> "idle", me |-> None, plain |-> FALSE, frozen |-> FALSE,
         new |-> None, prev |-> None, todo |-> {}]

TypeOK ==
  /\ link \in [build : Build, plain : BOOLEAN]
  /\ files \subseteq Build
  /\ stamp \in [Build -> Ages] /\ left \in [Build -> Ages]
  /\ jobs \subseteq Build
  /\ cmd \in [Cmd -> [at : {"idle", "run", "persist", "swap", "unstamp", "stamp",
                            "prune", "drop", "ln"},
                      me : Build \cup {None}, plain : BOOLEAN, frozen : BOOLEAN,
                      new : Build \cup {None}, prev : Build \cup {None},
                      todo : SUBSET Build]]
  /\ deaths \in 0..MaxDeaths

Init ==
  /\ link \in [build : {1}, plain : BOOLEAN]
  /\ files = IF link.plain THEN {} ELSE {1}
  /\ stamp = [b \in Build |-> None] /\ left = [b \in Build |-> None] /\ jobs = {}
  /\ cmd = [c \in Cmd |-> Idle]
  /\ deaths = 0

Updating(c) == cmd[c].at \in {"persist", "swap", "unstamp", "stamp"}
Pruning(c) == cmd[c].at \in {"prune", "drop"}
Locked == \E c \in Cmd : Updating(c) \/ Pruning(c)

(* The installer takes no lock; by assumption nothing runs beside it       *)
(* unless Upsets has it so.                                                *)
Installing == "reinstall" \notin Upsets /\ \E c \in Cmd : cmd[c].at = "ln"

-----------------------------------------------------------------------------
(* The user runs what the link leads to; a job starts, if the file that    *)
(* its script names is there.                                              *)
Run(c) ==
  /\ cmd[c].at = "idle"
  /\ \/ cmd' = [cmd EXCEPT ![c] = [Idle EXCEPT !.at = "run", !.me = link.build,
                                               !.plain = link.plain]]
     \/ \E b \in jobs \cap files :
          cmd' = [cmd EXCEPT ![c] = [Idle EXCEPT !.at = "run", !.me = b]]
  /\ UNCHANGED <<link, files, stamp, left, jobs, deaths>>

(* What a submission names is cactup-<me>, found out once per process.  A  *)
(* plain executable is copied there from this process's inode, if need be. *)
(* A versioned one names itself, its file there or not; but where it was   *)
(* removed on this host, the kernel's name for it ends in " (deleted)",    *)
(* and so it is copied like a plain one.                                   *)
Frozen(c) ==
  CASE cmd[c].frozen -> {files}
    [] ~cmd[c].frozen /\ cmd[c].plain -> {files \cup {cmd[c].me}}
    [] ~cmd[c].frozen /\ ~cmd[c].plain -> {files, files \cup {cmd[c].me}}

Submit(c) ==
  /\ cmd[c].at = "run"
  /\ files' \in Frozen(c)
  /\ jobs' = jobs \cup {cmd[c].me}
  /\ cmd' = [cmd EXCEPT ![c].frozen = TRUE]
  /\ UNCHANGED <<link, stamp, left, deaths>>

Exit(c) ==
  /\ cmd[c].at = "run"
  /\ cmd' = [cmd EXCEPT ![c] = Idle]
  /\ UNCHANGED <<link, files, stamp, left, jobs, deaths>>

-----------------------------------------------------------------------------
(* apply: a published build newer than the running one is installed, or    *)
(* another process did so first.  Either way this one goes on in it.       *)

Current(b) == link = [build |-> b, plain |-> FALSE] /\ b \in files
GoOn(c, b) == [Idle EXCEPT !.at = "run", !.me = b]

(* Which build this update retires: the link's, or, for a plain file, the  *)
(* one that runs.                                                          *)
Previous(c) == IF link.plain THEN cmd[c].me ELSE link.build

Apply(c, b) ==
  /\ cmd[c].at = "run" /\ b > cmd[c].me
  /\ ~Locked /\ ~Installing
  /\ cmd' = [cmd EXCEPT ![c] = IF Current(b) THEN GoOn(c, b)
                               ELSE [@ EXCEPT !.at = "persist", !.new = b,
                                              !.prev = Previous(c)]]
  /\ UNCHANGED <<link, files, stamp, left, jobs, deaths>>

(* The download, verified, becomes cactup-<new>.                           *)
Persist(c) ==
  /\ cmd[c].at = "persist"
  /\ files' = files \cup {cmd[c].new}
  /\ cmd' = [cmd EXCEPT ![c].at = "swap"]
  /\ UNCHANGED <<link, stamp, left, jobs, deaths>>

Moved(b) == [left EXCEPT ![link.build] = 0, ![b] = None]

Swap(c) ==
  /\ cmd[c].at = "swap"
  /\ link' = [build |-> cmd[c].new, plain |-> FALSE]
  /\ left' = Moved(cmd[c].new)
  /\ cmd' = [cmd EXCEPT ![c].at = "unstamp"]
  /\ UNCHANGED <<files, stamp, jobs, deaths>>

(* Best effort, like the next: a removal that fails is a death between.    *)
Unstamp(c) ==
  /\ cmd[c].at = "unstamp"
  /\ stamp' = [stamp EXCEPT ![cmd[c].new] = None]
  /\ cmd' = [cmd EXCEPT ![c].at = "stamp"]
  /\ UNCHANGED <<link, files, left, jobs, deaths>>

(* Mutant: a stamp that is there is left alone.                            *)
StampPrevious_Once(c) ==
  /\ cmd[c].at = "stamp"
  /\ stamp' = IF cmd[c].prev = cmd[c].new \/ stamp[cmd[c].prev] # None THEN stamp
              ELSE [stamp EXCEPT ![cmd[c].prev] = 0]
  /\ cmd' = [cmd EXCEPT ![c] = GoOn(c, cmd[c].new)]
  /\ UNCHANGED <<link, files, left, jobs, deaths>>

StampPrevious(c) ==
  /\ cmd[c].at = "stamp"
  /\ stamp' = IF cmd[c].prev = cmd[c].new THEN stamp
              ELSE [stamp EXCEPT ![cmd[c].prev] = 0]
  /\ cmd' = [cmd EXCEPT ![c] = GoOn(c, cmd[c].new)]
  /\ UNCHANGED <<link, files, left, jobs, deaths>>

-----------------------------------------------------------------------------
(* prune_binaries: the link is read once, then stamp by stamp.             *)
Prune(c) ==
  /\ cmd[c].at = "run"
  /\ ~Locked /\ ~Installing
  /\ cmd' = [cmd EXCEPT ![c].at = "prune",
                        ![c].prev = IF link.plain THEN None ELSE link.build,
                        ![c].todo = {b \in Build : stamp[b] # None}]
  /\ UNCHANGED <<link, files, stamp, left, jobs, deaths>>

Spared(c, b) ==
  \/ b = cmd[c].prev
  \/ b = cmd[c].me /\ ~cmd[c].plain
  \/ stamp[b] = None \/ stamp[b] < Keep

PruneOne(c) ==
  /\ cmd[c].at = "prune"
  /\ \E b \in cmd[c].todo :
       IF Spared(c, b)
       THEN /\ cmd' = [cmd EXCEPT ![c].todo = @ \ {b}]
            /\ UNCHANGED files
       ELSE /\ files' = files \ {b}
            /\ cmd' = [cmd EXCEPT ![c].at = "drop", ![c].new = b, ![c].todo = @ \ {b}]
  /\ UNCHANGED <<link, stamp, left, jobs, deaths>>

DropStamp(c) ==
  /\ cmd[c].at = "drop"
  /\ stamp' = [stamp EXCEPT ![cmd[c].new] = None]
  /\ cmd' = [cmd EXCEPT ![c].at = "prune", ![c].new = None]
  /\ UNCHANGED <<link, files, left, jobs, deaths>>

Pruned(c) ==
  /\ cmd[c].at = "prune" /\ cmd[c].todo = {}
  /\ cmd' = [cmd EXCEPT ![c] = Idle]
  /\ UNCHANGED <<link, files, stamp, left, jobs, deaths>>

-----------------------------------------------------------------------------
(* cactup-init.sh: the build's file, then the link; no lock and no stamps. *)
Reinstall(c, b) ==
  /\ cmd[c].at = "idle"
  /\ \/ "reinstall" \in Upsets
     \/ stamp[b] = None /\ stamp[link.build] = None /\ ~Locked /\ ~Installing
  /\ files' = files \cup {b}
  /\ cmd' = [cmd EXCEPT ![c] = [Idle EXCEPT !.at = "ln", !.new = b]]
  /\ UNCHANGED <<link, stamp, left, jobs, deaths>>

Relink(c) ==
  /\ cmd[c].at = "ln"
  /\ link' = [build |-> cmd[c].new, plain |-> FALSE]
  /\ left' = Moved(cmd[c].new)
  /\ cmd' = [cmd EXCEPT ![c] = Idle]
  /\ UNCHANGED <<files, stamp, jobs, deaths>>

(* A process dies between two steps.                                       *)
Die(c) ==
  /\ cmd[c].at \notin {"idle", "run"} /\ deaths < MaxDeaths
  /\ deaths' = deaths + 1
  /\ cmd' = [cmd EXCEPT ![c] = Idle]
  /\ UNCHANGED <<link, files, stamp, left, jobs>>

Older(age) == IF age = None THEN None ELSE IF age < Keep THEN age + 1 ELSE Keep
Tick ==
  /\ stamp' = [b \in Build |-> Older(stamp[b])]
  /\ left' = [b \in Build |-> Older(left[b])]
  /\ UNCHANGED <<link, files, jobs, cmd, deaths>>

Next ==
  \/ \E c \in Cmd :
       \/ Run(c) \/ Submit(c) \/ Exit(c)
       \/ \E b \in Build : Apply(c, b) \/ Reinstall(c, b)
       \/ Persist(c) \/ Swap(c) \/ Unstamp(c) \/ StampPrevious(c)
       \/ Prune(c) \/ PruneOne(c) \/ DropStamp(c) \/ Pruned(c)
       \/ Relink(c) \/ Die(c)
  \/ Tick

Spec == Init /\ [][Next]_vars

-----------------------------------------------------------------------------
(* bin/cactup always runs: the build it links to is there, through every   *)
(* update, prune, installation and death.                                  *)
LinkRuns == link.plain \/ link.build \in files

(* Every build that a job names, whoever submitted it and however long ago *)
(* (a chain submits for months under the build it began with), is there    *)
(* while it is current and for RETIRED_KEEP after it ceased to be, through *)
(* every update, prune and installation (updating.md: "a job always runs   *)
(* the exact build it was submitted with", and only builds "retired more   *)
(* than 30 days ago" are removed; the job of a build that was pruned then  *)
(* cannot start).                                                          *)
JobsStart ==
  \A b \in jobs : left[b] = None \/ left[b] < Keep => b \in files

(* Both: whatever is to be run next from bin/ is there.                    *)
BuildsThere == LinkRuns /\ JobsStart
=============================================================================
