------------------------------ MODULE MdbSync ------------------------------
(***************************************************************************)
(* The published machine database under ~/.cactup/mdb                      *)
(* (src/src/mdb/sync.rs): a tree per commit, a link gen-<N> per generation *)
(* of binaries, and the syncs that move the links.                         *)
(*                                                                         *)
(* Every command resolves its generation's link once and then reads that   *)
(* tree for as long as it runs, with no lock.  A sync, under .lock,        *)
(* exports the newest commit of its generation beside the others, swaps    *)
(* the link, stamps the tree it left and then removes what was stamped     *)
(* longer than Grace ago, of every generation.                             *)
(***************************************************************************)
EXTENDS Naturals

CONSTANTS
  Cmd,        \* commands
  Gen,        \* generations of the database
  Commit,     \* commits of its branch
  genOf,      \* the generation of each commit
  Grace,      \* RETIRED_GRACE, in ticks of the fileserver's clock
  MaxDeaths,  \* bound: commands that die in a sync
  Upsets,     \* {"revive"}: the branch may be back, or go back, at a commit
              \* whose tree's removal was cut short
  None

MdbAssumption ==
  /\ genOf \in [Commit -> Gen] /\ Grace \in Nat \ {0} /\ MaxDeaths \in Nat
  /\ None \notin Gen /\ None \notin Commit /\ None \notin Nat

VARIABLES
  tip,     \* upstream: per generation its newest commit, or None
  tree,    \* per commit: "none", "half" (its removal was cut short), "whole"
  link,    \* per generation the commit gen-<N> names, or None
  stamp,   \* per commit the age of <sha>.retired, or None
  cmd,     \* per command: [at, gen, sha, old, refs, todo, age]
  deaths

vars == <<tip, tree, link, stamp, cmd, deaths>>

(* A command at a place, with what it knows.                               *)
At(place, g, s) == [at |-> place, gen |-> g, sha |-> s, old |-> None,
                    refs |-> {}, todo |-> {}, age |-> 0]
Idle == At("idle", None, None)

TypeOK ==
  /\ tip \in [Gen -> Commit \cup {None}]
  /\ tree \in [Commit -> {"none", "half", "whole"}]
  /\ link \in [Gen -> Commit \cup {None}]
  /\ stamp \in [Commit -> 0..Grace + 1 \cup {None}]
  /\ cmd \in [Cmd -> [at : {"idle", "fetch", "export", "swap", "unstamp", "stamp", "list",
                            "prune", "remove", "drop", "read"},
                      gen : Gen \cup {None}, sha : Commit \cup {None},
                      old : Commit \cup {None}, refs : SUBSET Commit,
                      todo : SUBSET Commit, age : 0..Grace]]
  /\ deaths \in 0..MaxDeaths

Init ==
  /\ tip = [g \in Gen |-> None]
  /\ tree = [s \in Commit |-> "none"]
  /\ link = [g \in Gen |-> None]
  /\ stamp = [s \in Commit |-> None]
  /\ cmd = [c \in Cmd |-> Idle]
  /\ deaths = 0

Locked == \E c \in Cmd : cmd[c].at \notin {"idle", "read"}

(* resolve_link: the link's tree, if it is a directory.                    *)
Resolves(g) == link[g] # None /\ tree[link[g]] # "none"
Reads(g, s) == At("read", g, s)

-----------------------------------------------------------------------------
(* Upstream: the branch moves on, or back.                                 *)
Publish(s) ==
  /\ tip[genOf[s]] # s
  /\ tree[s] # "half" \/ "revive" \in Upsets
  /\ tip' = [tip EXCEPT ![genOf[s]] = s]
  /\ UNCHANGED <<tree, link, stamp, cmd, deaths>>

(* A command reads the tree in place: the throttle spares it the sync, or  *)
(* another command is syncing.                                             *)
Resolve(c, g) ==
  /\ cmd[c].at = "idle" /\ Resolves(g)
  /\ cmd' = [cmd EXCEPT ![c] = Reads(g, link[g])]
  /\ UNCHANGED <<tip, tree, link, stamp, deaths>>

Exit(c) ==
  /\ cmd[c].at = "read"
  /\ cmd' = [cmd EXCEPT ![c] = Idle]
  /\ UNCHANGED <<tip, tree, link, stamp, deaths>>

-----------------------------------------------------------------------------
(* sync_locked.                                                            *)
Lock(c, g) ==
  /\ cmd[c].at = "idle" /\ ~Locked
  /\ cmd' = [cmd EXCEPT ![c] = At("fetch", g, None)]
  /\ UNCHANGED <<tip, tree, link, stamp, deaths>>

(* The fetch: the newest commit of the generation; or the host cannot be   *)
(* reached, or has none, and the copy in place must do.                    *)
Fetch(c) ==
  /\ cmd[c].at = "fetch"
  /\ LET g == cmd[c].gen IN
     \/ /\ tip[g] # None
        /\ cmd' = [cmd EXCEPT ![c] =
                     [@ EXCEPT !.sha = tip[g],
                               !.at = IF tree[tip[g]] = "none" THEN "export" ELSE "swap"]]
     \/ cmd' = [cmd EXCEPT ![c] =
                  [@ EXCEPT !.sha = IF Resolves(g) THEN link[g] ELSE None, !.at = "list"]]
  /\ UNCHANGED <<tip, tree, link, stamp, deaths>>

(* Into a temp directory, renamed once it is whole.                        *)
Export(c) ==
  /\ cmd[c].at = "export"
  /\ tree' = [tree EXCEPT ![cmd[c].sha] = "whole"]
  /\ cmd' = [cmd EXCEPT ![c].at = "swap"]
  /\ UNCHANGED <<tip, link, stamp, deaths>>

Swap(c) ==
  /\ cmd[c].at = "swap"
  /\ LET g == cmd[c].gen IN
     /\ link' = [link EXCEPT ![g] = cmd[c].sha]
     /\ cmd' = [cmd EXCEPT ![c] =
                  [@ EXCEPT !.at = IF link[g] = cmd[c].sha THEN "list" ELSE "unstamp",
                            !.old = link[g]]]
  /\ UNCHANGED <<tip, tree, stamp, deaths>>

Unstamp(c) ==
  /\ cmd[c].at = "unstamp"
  /\ stamp' = [stamp EXCEPT ![cmd[c].sha] = None]
  /\ cmd' = [cmd EXCEPT ![c].at = "stamp"]
  /\ UNCHANGED <<tip, tree, link, deaths>>

(* Mutant: a stamp that is there is left alone.                            *)
StampOld_Once(c) ==
  /\ cmd[c].at = "stamp"
  /\ stamp' = IF cmd[c].old = None \/ stamp[cmd[c].old] # None THEN stamp
              ELSE [stamp EXCEPT ![cmd[c].old] = 0]
  /\ cmd' = [cmd EXCEPT ![c].at = "list"]
  /\ UNCHANGED <<tip, tree, link, deaths>>

StampOld(c) ==
  /\ cmd[c].at = "stamp"
  /\ stamp' = IF cmd[c].old = None THEN stamp ELSE [stamp EXCEPT ![cmd[c].old] = 0]
  /\ cmd' = [cmd EXCEPT ![c].at = "list"]
  /\ UNCHANGED <<tip, tree, link, deaths>>

-----------------------------------------------------------------------------
(* prune, whatever became of the sync: one listing of the root, then       *)
(* stamp by stamp.                                                         *)
Linked == {link[g] : g \in Gen} \ {None}
List(c) ==
  /\ cmd[c].at = "list"
  /\ cmd' = [cmd EXCEPT ![c] = [@ EXCEPT !.at = "prune", !.refs = Linked,
                                         !.todo = {s \in Commit : stamp[s] # None}]]
  /\ UNCHANGED <<tip, tree, link, stamp, deaths>>

(* A linked tree's stamp goes; a tree long retired goes, then its stamp.   *)
PruneOne(c) ==
  /\ cmd[c].at = "prune"
  /\ \E s \in cmd[c].todo :
       cmd' = [cmd EXCEPT ![c] =
                 [@ EXCEPT !.todo = cmd[c].todo \ {s}, !.old = s,
                           !.at = IF s \in cmd[c].refs THEN "drop"
                                  ELSE IF stamp[s] > Grace THEN "remove" ELSE "prune"]]
  /\ UNCHANGED <<tip, tree, link, stamp, deaths>>

Remove(c) ==
  /\ cmd[c].at = "remove"
  /\ tree' = [tree EXCEPT ![cmd[c].old] = "none"]
  /\ cmd' = [cmd EXCEPT ![c].at = "drop"]
  /\ UNCHANGED <<tip, link, stamp, deaths>>

DropStamp(c) ==
  /\ cmd[c].at = "drop"
  /\ stamp' = [stamp EXCEPT ![cmd[c].old] = None]
  /\ cmd' = [cmd EXCEPT ![c].at = "prune"]
  /\ UNCHANGED <<tip, tree, link, deaths>>

(* The sync returns the tree to read; with none it is an error.            *)
Synced(c) ==
  /\ cmd[c].at = "prune" /\ cmd[c].todo = {}
  /\ cmd' = [cmd EXCEPT ![c] = IF @.sha = None THEN Idle ELSE Reads(@.gen, @.sha)]
  /\ UNCHANGED <<tip, tree, link, stamp, deaths>>

(* A sync dies.  A removal that was under way leaves part of the tree.     *)
Die(c) ==
  /\ cmd[c].at \notin {"idle", "read"} /\ deaths < MaxDeaths
  /\ deaths' = deaths + 1
  /\ cmd' = [cmd EXCEPT ![c] = Idle]
  /\ \/ UNCHANGED tree
     \/ /\ cmd[c].at = "remove" /\ tree[cmd[c].old] = "whole"
        /\ tip[genOf[cmd[c].old]] # cmd[c].old \/ "revive" \in Upsets
        /\ tree' = [tree EXCEPT ![cmd[c].old] = "half"]
  /\ UNCHANGED <<tip, link, stamp>>

Tick ==
  /\ stamp' = [s \in Commit |-> IF stamp[s] \in 0..Grace THEN stamp[s] + 1 ELSE stamp[s]]
  /\ cmd' = [c \in Cmd |-> IF cmd[c].at = "read" /\ cmd[c].age < Grace
                           THEN [cmd[c] EXCEPT !.age = @ + 1] ELSE cmd[c]]
  /\ UNCHANGED <<tip, tree, link, deaths>>

Next ==
  \/ \E s \in Commit : Publish(s)
  \/ \E c \in Cmd :
       \/ \E g \in Gen : Resolve(c, g) \/ Lock(c, g)
       \/ Exit(c) \/ Fetch(c) \/ Export(c) \/ Swap(c) \/ Unstamp(c) \/ StampOld(c)
       \/ List(c) \/ PruneOne(c) \/ Remove(c) \/ DropStamp(c) \/ Synced(c) \/ Die(c)
  \/ Tick

Spec == Init /\ [][Next]_vars

-----------------------------------------------------------------------------
(* What a generation's link names is a whole tree of that generation: no   *)
(* reader is ever sent to half an export or to a pruned commit.            *)
LinksWhole ==
  \A g \in Gen : link[g] # None => tree[link[g]] = "whole" /\ genOf[link[g]] = g

(* The tree a command resolved stays whole for RETIRED_GRACE after that,   *)
(* whatever syncs of its own or another generation do meanwhile.           *)
ReadersKeep ==
  \A c \in Cmd : cmd[c].at = "read" /\ cmd[c].age < Grace => tree[cmd[c].sha] = "whole"

(* Both: what a link names and what a reader works on is there.            *)
TreesThere == LinksWhole /\ ReadersKeep
=============================================================================
