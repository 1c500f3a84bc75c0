------------------------------ MODULE ExeCache ------------------------------
(***************************************************************************)
(* The executable cache of simulations (src/src/sim/cache.rs) and the      *)
(* `sim create` that freezes a configuration's executable through it       *)
(* (src/src/sim/mod.rs:266-432).                                           *)
(*                                                                         *)
(* A build leaves an executable in the tree and, a moment later, its       *)
(* build-id in the configuration's record.  `sim create` reads the record, *)
(* looks whether a build is in flight, waits for the installation's lock,  *)
(* collects orphans of the cache, makes sure that the cache has an entry   *)
(* for the build-id and links the entry into the simulation.  The cache    *)
(* holds no hash: an entry is trusted by its name.  All of these names are *)
(* hard links where the file system allows it, so the model follows        *)
(* inodes.  Collections (of `build`, `build list`, `sim delete`,           *)
(* `config delete`) take no lock at all.                                   *)
(***************************************************************************)
EXTENDS Integers, FiniteSets

CONSTANTS
  Cmd,      \* commands of the user, each a process of its own
  Sim,      \* names of simulations
  Ino,      \* inodes, numbers
  MaxId,    \* builds are 1..MaxId: each mints a build-id of its own
  Upsets,   \* what users and builds may do besides: a subset of UpsetKinds
  None

Id == 1..MaxId
Half == 0   \* the content of a file that is still being written
UpsetKinds ==
  { "overlap"     \* creates and builds of the configuration overlap
  , "failures"    \* a build fails or dies after its executable is linked
  , "virtual" }   \* a prebuilt executable is copied over an earlier one

ExeCacheAssumption ==
  MaxId \in Nat /\ Ino \subseteq Nat /\ None \notin Ino \cup Id

VARIABLES
  file,    \* per inode: the build whose executable it holds, or Half
  exe,     \* the inode <Cactus root>/exe/cactus_<config> names, or None
  built,   \* the build-id on the configuration's record, or None
  build,   \* the build that runs
  cache,   \* CACHE/exe: per build-id the inode of its entry, or None
  sim,     \* per name: [st, id, ino]
  cmd      \* per command: where it is and what it holds

vars == <<file, exe, built, build, cache, sim, cmd>>

NoBuild == [at |-> "idle", id |-> 0]
NoSim == [st |-> "none", id |-> None, ino |-> None]
Idle == [at |-> "idle", sim |-> None, id |-> None, todo |-> {}, reap |-> None]

(* An inode's names.  A trashed simulation keeps its link (its directory   *)
(* is renamed); a directory whose create failed keeps what it has.         *)
LinkCount(i) ==
  Cardinality({k \in Id : cache[k] = i}) + Cardinality({s \in Sim : sim[s].ino = i})
    + IF exe = i THEN 1 ELSE 0
(* The next new inode.  Which of the free ones it is makes no difference.  *)
Unnamed(i) ==
  exe # i /\ (\A k \in Id : cache[k] # i) /\ (\A s \in Sim : sim[s].ino # i)
Free ==
  LET free == {i \in Ino : Unnamed(i)} IN {i \in free : \A k \in free : i <= k}

TypeOK ==
  /\ file \in [Ino -> Id \cup {Half}]
  /\ exe \in Ino \cup {None}
  /\ built \in Id \cup {None}
  /\ build \in [at : {"idle", "make", "link", "copy", "utils", "made"},
                id : 0..MaxId]
  /\ cache \in [Id -> Ino \cup {None}]
  /\ sim \in [Sim -> [st : {"none", "bare", "live", "trash"},
                      id : Id \cup {None}, ino : Ino \cup {None}]]
  /\ cmd \in [Cmd -> [at : {"idle", "lock", "gc", "ensure", "link", "store",
                            "tidy"},
                      sim : Sim \cup {None}, id : Id \cup {None},
                      todo : SUBSET Id, reap : Id \cup {None}]]

Init ==
  /\ file = [i \in Ino |-> Half]
  /\ exe = None /\ built = None
  /\ build = NoBuild
  /\ cache = [k \in Id |-> None]
  /\ sim = [s \in Sim |-> NoSim]
  /\ cmd = [c \in Cmd |-> Idle]

Locked == \E c \in Cmd : cmd[c].at \in {"gc", "ensure", "link", "store"}
Creating == \E c \in Cmd : cmd[c].at \in {"lock", "gc", "ensure", "link", "store"}

-----------------------------------------------------------------------------
(* The build (src/src/build/mod.rs:2622-2786).                             *)

BuildStarts ==
  /\ build.at = "idle" /\ build.id < MaxId
  /\ "overlap" \in Upsets \/ ~Creating
  /\ \/ build' = [at |-> "make", id |-> build.id + 1]
     \/ /\ exe = None \/ "virtual" \in Upsets
        /\ build' = [at |-> "copy", id |-> build.id + 1]
  /\ UNCHANGED <<file, exe, built, cache, sim, cmd>>

(* Mutant: the linker writes over its last output.                         *)
LinkBegins_InPlace ==
  /\ build.at = "make"
  /\ \E i \in IF exe = None THEN Free ELSE {exe} :
       exe' = i /\ file' = [file EXCEPT ![i] = Half]
  /\ build' = [build EXCEPT !.at = "link"]
  /\ UNCHANGED <<built, cache, sim, cmd>>

(* The linker unlinks its output before it writes: a new inode.            *)
LinkBegins ==
  /\ build.at = "make"
  /\ \E i \in Free : exe' = i /\ file' = [file EXCEPT ![i] = Half]
  /\ build' = [build EXCEPT !.at = "link"]
  /\ UNCHANGED <<built, cache, sim, cmd>>

LinkEnds ==
  /\ build.at = "link"
  /\ file' = [file EXCEPT ![exe] = build.id]
  /\ build' = [build EXCEPT !.at = "utils"]
  /\ UNCHANGED <<exe, built, cache, sim, cmd>>

(* --virtual-executable: fs::copy opens the destination and truncates it,  *)
(* the inode stays.                                                        *)
CopyInto == IF exe = None THEN Free ELSE {exe}
CopyBuild ==
  /\ build.at = "copy"
  /\ \E i \in CopyInto : exe' = i /\ file' = [file EXCEPT ![i] = build.id]
  /\ build' = [build EXCEPT !.at = "made"]
  /\ UNCHANGED <<built, cache, sim, cmd>>

(* `make <config>-utils` ends, the attempt's running.lock goes.            *)
MakeEnds ==
  /\ build.at = "utils"
  /\ build' = [build EXCEPT !.at = "made"]
  /\ UNCHANGED <<file, exe, built, cache, sim, cmd>>

Record ==
  /\ build.at = "made"
  /\ built' = build.id
  /\ build' = [build EXCEPT !.at = "idle"]
  /\ UNCHANGED <<file, exe, cache, sim, cmd>>

(* The build fails or dies.  Nothing is undone: whatever the tree names    *)
(* stays, and the record keeps the build before.                           *)
FailsAt ==
  IF "failures" \in Upsets THEN {"make", "link", "copy", "utils", "made"} ELSE {"make"}
BuildFails ==
  /\ build.at \in FailsAt
  /\ build' = [build EXCEPT !.at = "idle"]
  /\ UNCHANGED <<file, exe, built, cache, sim, cmd>>

-----------------------------------------------------------------------------
(* `sim create`.                                                           *)

(* A foreground build is in flight while its running.lock is held          *)
(* (commands/build.rs:834-851): until make's end, not until its record.    *)
(* With -f a create goes on beside it (an "overlap").                      *)
InFlight == build.at \in {"make", "link", "copy", "utils"}

Look(c, s) ==
  /\ cmd[c].at = "idle"
  /\ built # None /\ exe # None
  /\ "overlap" \in Upsets \/ ~InFlight
  /\ "overlap" \in Upsets \/ build.at = "idle"
  /\ cmd' = [cmd EXCEPT ![c] = [Idle EXCEPT !.at = "lock", !.sim = s, !.id = built]]
  /\ UNCHANGED <<file, exe, built, build, cache, sim>>

(* Under the installation's lock: refused where the name or its directory  *)
(* is there, unless -f, which removes it.                                  *)
TakeLock(c) ==
  /\ cmd[c].at = "lock" /\ ~Locked
  /\ \/ /\ sim[cmd[c].sim].st \in {"none", "trash"}
        /\ sim' = [sim EXCEPT ![cmd[c].sim].st = "bare", ![cmd[c].sim].id = None,
                              ![cmd[c].sim].ino = None]
        /\ cmd' = [cmd EXCEPT ![c].at = "gc", ![c].todo = {k \in Id : cache[k] # None}]
     \/ /\ sim[cmd[c].sim].st \in {"live", "bare"}    \* -f
        /\ sim' = [sim EXCEPT ![cmd[c].sim] = [NoSim EXCEPT !.st = "bare"]]
        /\ cmd' = [cmd EXCEPT ![c].at = "gc", ![c].todo = {k \in Id : cache[k] # None}]
     \/ /\ sim[cmd[c].sim].st \in {"live", "bare"}    \* refused
        /\ cmd' = [cmd EXCEPT ![c] = Idle]
        /\ UNCHANGED sim
  /\ UNCHANGED <<file, exe, built, build, cache>>

(* ensure_cached: the entry, if there is one; else a link to the tree's    *)
(* executable, or, across disks, a copy of it renamed into place.          *)
Ensure(c) ==
  /\ cmd[c].at = "ensure"
  /\ LET k == cmd[c].id IN
     \/ /\ cache[k] # None
        /\ UNCHANGED <<cache, file>>
     \/ /\ cache[k] = None
        /\ cache' = [cache EXCEPT ![k] = exe]
        /\ UNCHANGED file
     \/ /\ cache[k] = None
        /\ \E i \in Free : /\ cache' = [cache EXCEPT ![k] = i]
                           /\ file' = [file EXCEPT ![i] = file[exe]]
  /\ cmd' = [cmd EXCEPT ![c].at = "link"]
  /\ UNCHANGED <<exe, built, build, sim>>

(* link_into: a link to the entry, or a copy where the simulation's        *)
(* directory (--sim-dir) is on another disk.  An entry that was collected  *)
(* meanwhile fails the command, which leaves the bare directory behind.    *)
LinkInto(c) ==
  /\ cmd[c].at = "link"
  /\ LET e == cache[cmd[c].id]  s == cmd[c].sim IN
     \/ /\ e # None
        /\ sim' = [sim EXCEPT ![s].ino = e]
        /\ cmd' = [cmd EXCEPT ![c].at = "store"]
        /\ UNCHANGED file
     \/ /\ e # None
        /\ \E i \in Free : /\ sim' = [sim EXCEPT ![s].ino = i]
                           /\ file' = [file EXCEPT ![i] = file[e]]
        /\ cmd' = [cmd EXCEPT ![c].at = "store"]
     \/ /\ e = None
        /\ cmd' = [cmd EXCEPT ![c] = Idle]
        /\ UNCHANGED <<file, sim>>
  /\ UNCHANGED <<exe, built, build, cache>>

(* The simulation's metadata, then its line in the registry.               *)
Register(c) ==
  /\ cmd[c].at = "store"
  /\ sim' = [sim EXCEPT ![cmd[c].sim].st = "live", ![cmd[c].sim].id = cmd[c].id]
  /\ cmd' = [cmd EXCEPT ![c] = Idle]
  /\ UNCHANGED <<file, exe, built, build, cache>>

(* A create dies at any point; the lock goes with it.                      *)
Die(c) ==
  /\ cmd[c].at \notin {"idle", "lock"}
  /\ cmd' = [cmd EXCEPT ![c] = Idle]
  /\ UNCHANGED <<file, exe, built, build, cache, sim>>

-----------------------------------------------------------------------------
(* Collection of the cache (cache.rs:70-92): of a create, under its lock   *)
(* and sparing its own build-id, or of any other command, with no lock.    *)

Tidy(c) ==
  /\ cmd[c].at = "idle"
  /\ \E k \in Id : cache[k] # None
  /\ cmd' = [cmd EXCEPT ![c] = [Idle EXCEPT !.at = "tidy",
                                !.todo = {k \in Id : cache[k] # None}]]
  /\ UNCHANGED <<file, exe, built, build, cache, sim>>

Kept(c) == IF cmd[c].at = "gc" THEN {cmd[c].id} ELSE {}
Orphan(k) == LinkCount(cache[k]) = 1

(* One entry's metadata: an entry of one link is next to go, one that is   *)
(* gone already fails the command.                                         *)
Stat(c) ==
  /\ cmd[c].at \in {"gc", "tidy"} /\ cmd[c].reap = None
  /\ \E k \in cmd[c].todo :
       cmd' = [cmd EXCEPT ![c] =
                 IF k \in Kept(c) THEN [cmd[c] EXCEPT !.todo = @ \ {k}]
                 ELSE IF cache[k] = None THEN Idle
                 ELSE [cmd[c] EXCEPT !.todo = @ \ {k},
                                     !.reap = IF Orphan(k) THEN k ELSE None]]
  /\ UNCHANGED <<file, exe, built, build, cache, sim>>

(* Its removal: by name, whatever the name means by now.                   *)
Reap(c) ==
  /\ cmd[c].at \in {"gc", "tidy"} /\ cmd[c].reap # None
  /\ cache' = [cache EXCEPT ![cmd[c].reap] = None]
  /\ cmd' = [cmd EXCEPT ![c] = IF cache[cmd[c].reap] = None
                               THEN Idle ELSE [@ EXCEPT !.reap = None]]
  /\ UNCHANGED <<file, exe, built, build, sim>>

Collected(c) ==
  /\ cmd[c].at \in {"gc", "tidy"} /\ cmd[c].todo = {} /\ cmd[c].reap = None
  /\ cmd' = [cmd EXCEPT ![c] = IF @.at = "gc" THEN [@ EXCEPT !.at = "ensure"] ELSE Idle]
  /\ UNCHANGED <<file, exe, built, build, cache, sim>>

-----------------------------------------------------------------------------
(* `sim delete` moves the directory to TRASH, or purges it; the user       *)
(* empties the trash.  Its collection is a Tidy.                           *)
Delete(s) ==
  /\ sim[s].st = "live"
  /\ \E end \in {[sim[s] EXCEPT !.st = "trash"], NoSim} : sim' = [sim EXCEPT ![s] = end]
  /\ UNCHANGED <<file, exe, built, build, cache, cmd>>

EmptyTrash(s) ==
  /\ sim[s].st = "trash"
  /\ sim' = [sim EXCEPT ![s] = NoSim]
  /\ UNCHANGED <<file, exe, built, build, cache, cmd>>

Build == \/ BuildStarts \/ LinkBegins \/ LinkEnds \/ CopyBuild
         \/ MakeEnds \/ Record \/ BuildFails

Next ==
  \/ Build
  \/ \E c \in Cmd : \/ \E s \in Sim : Look(c, s)
                    \/ TakeLock(c) \/ Ensure(c) \/ LinkInto(c) \/ Register(c)
                    \/ Die(c) \/ Tidy(c) \/ Stat(c) \/ Reap(c) \/ Collected(c)
  \/ \E s \in Sim : Delete(s) \/ EmptyTrash(s)

Spec == Init /\ [][Next]_vars

-----------------------------------------------------------------------------
(* What a simulation runs is the build its metadata name: the build-id and *)
(* the thornlist copied beside it answer "which build produced this run"   *)
(* only then, and the cache's entries are trusted by name alone.           *)
FrozenIsBuilt ==
  \A s \in Sim : sim[s].st \in {"live", "trash"} => file[sim[s].ino] = sim[s].id
=============================================================================
