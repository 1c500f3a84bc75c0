------------------------------ MODULE Registry ------------------------------
(***************************************************************************)
(* The global database (src/src/database.rs:405-534) and the commands that *)
(* register installations and their trees: install, uninstall, use, knob   *)
(* set and installation refetch.                                           *)
(*                                                                         *)
(* The database is one file.  Readers take no lock: the file is only ever  *)
(* replaced by a rename, so a read is a snapshot.  A command works on its  *)
(* snapshot for seconds (a prompt) or minutes (a fetch) and then updates:  *)
(* under the lock it reads the file again, changes what it owns and        *)
(* replaces the file.  Nothing else ties the trees on disk to the          *)
(* database, so a command that dies, or meets another on its way, may      *)
(* leave the two apart.                                                    *)
(***************************************************************************)
EXTENDS Naturals

CONSTANTS
  Cmd,        \* commands
  Alias,      \* names of installations, each with its directory
  Root,       \* thornlists, by the root directory (!DEFINE ROOT) they name
  Shared,     \* the aliases that are installed or removed by two at once
  Upsets,     \* a subset of UpsetKinds
  MaxStarts,  \* bound: commands started
  None

UpsetKinds ==
  { "look"      \* the look whether the file is there may fail (database.rs:393)
  , "relist" }  \* an interrupted install is run again with another thornlist

VARIABLES
  disk,    \* database.json: [inst, active, user]
  tree,    \* per alias, its directory: [part, whole, meta, torn]
  cmd,     \* per command: [op, alias, root, at, db]
  starts

vars == <<disk, tree, cmd, starts>>

Empty == [inst |-> [a \in Alias |-> None], active |-> None, user |-> "unset"]
NoTree == [part |-> {}, whole |-> {}, meta |-> None, torn |-> FALSE]
Idle == [op |-> "none", alias |-> None, root |-> None, at |-> "idle", db |-> None]

Entry == [root : Root, unfetched : BOOLEAN]
Database == [inst : [Alias -> Entry \cup {None}], active : Alias \cup {None},
             user : {"unset", "derived", "set", "answered"}]

RegistryAssumption ==
  /\ Shared \subseteq Alias /\ Upsets \subseteq UpsetKinds
  /\ MaxStarts \in Nat
  /\ None \notin Alias \cup Root /\ None \notin Entry /\ None \notin Database

(* The updates an install makes on its way, of the knob `user`.            *)
KnobOps == {"seed", "answer", "noanswer"}
Installing == {"install"} \cup KnobOps
Ops == {"none", "use", "knob", "uninstall", "refetch"} \cup Installing
Places == {"idle", "update", "write", "confirm", "remove",
           "seed", "ask", "fetch", "meta", "work"}

TypeOK ==
  /\ disk \in Database
  /\ tree \in [Alias -> [part : SUBSET Root, whole : SUBSET Root,
                         meta : Root \cup {None}, torn : BOOLEAN]]
  /\ \A a \in Alias : tree[a].whole \subseteq tree[a].part
  /\ cmd \in [Cmd -> [op : Ops, alias : Alias \cup {None}, root : Root \cup {None},
                      at : Places, db : Database \cup {None}]]
  /\ \A c \in Cmd : cmd[c].at = "write" <=> cmd[c].db # None
  /\ starts \in 0..MaxStarts

Init ==
  /\ disk = Empty
  /\ tree = [a \in Alias |-> NoTree]
  /\ cmd = [c \in Cmd |-> Idle]
  /\ starts = 0

-----------------------------------------------------------------------------
(* Db::update.                                                             *)

(* What a command's closure makes of the database it is given.             *)
Used(db, a) == IF db.inst[a] = None THEN db ELSE [db EXCEPT !.active = a]
Unregister(db, a) ==
  [db EXCEPT !.inst[a] = None, !.active = IF @ = a THEN None ELSE @]
Register(db, a, r) ==
  [db EXCEPT !.inst[a] = [root |-> r, unfetched |-> FALSE],
             !.active = IF @ = None THEN a ELSE @]

(* The closures that fail leave the file alone; `use` of a name that is    *)
(* gone writes the file back as it is.                                     *)
Refuses(c, db) ==
  \/ cmd[c].op = "install" /\ db.inst[cmd[c].alias] # None
  \/ cmd[c].op = "refetch" /\ db.inst[cmd[c].alias] = None

Results(c, db) ==
  LET a == cmd[c].alias IN
  CASE cmd[c].op = "use" -> {Used(db, a)}
    [] cmd[c].op = "knob" -> {[db EXCEPT !.user = "set"]}
    [] cmd[c].op = "seed" -> {[db EXCEPT !.user = IF @ = "unset" THEN "derived" ELSE @]}
    [] cmd[c].op = "answer" -> {[db EXCEPT !.user = "answered"]}
    [] cmd[c].op = "noanswer" -> {db}
    [] cmd[c].op = "uninstall" -> {Unregister(db, a)}
    [] cmd[c].op = "install" -> {Register(db, a, cmd[c].root)}
    [] cmd[c].op = "refetch" -> {[db EXCEPT !.inst[a].unfetched = u] : u \in BOOLEAN}

Locked == \E c \in Cmd : cmd[c].at = "write"

(* Under the lock the file is read again.  Its path's exists() is false    *)
(* for every error, and then the database is taken for empty.              *)
Readings == {disk} \cup IF "look" \in Upsets THEN {Empty} ELSE {}

(* Mutant: the lock is not waited for.                                     *)
TakeLock_Unlocked(c) ==
  /\ cmd[c].at = "update"
  /\ \E db \in Readings :
       cmd' = [cmd EXCEPT ![c] = IF Refuses(c, db) THEN Idle
                                 ELSE [@ EXCEPT !.at = "write", !.db = db]]
  /\ UNCHANGED <<disk, tree, starts>>

TakeLock(c) ==
  /\ cmd[c].at = "update" /\ ~Locked
  /\ \E db \in Readings :
       cmd' = [cmd EXCEPT ![c] = IF Refuses(c, db) THEN Idle
                                 ELSE [@ EXCEPT !.at = "write", !.db = db]]
  /\ UNCHANGED <<disk, tree, starts>>

(* Where an install goes on once a knob is written: after the seed it asks *)
(* for the others, unless --silent.                                        *)
GoesOnAt(op) == IF op = "seed" THEN {"ask", "fetch"} ELSE {"fetch"}

(* persist: a temp file renamed over the file, and the lock's release.     *)
Write(c) ==
  /\ cmd[c].at = "write"
  /\ disk' \in Results(c, cmd[c].db)
  /\ \E p \in GoesOnAt(cmd[c].op) :
       cmd' = [cmd EXCEPT ![c] =
                 IF @.op \in KnobOps THEN [@ EXCEPT !.op = "install", !.at = p, !.db = None]
                 ELSE Idle]
  /\ UNCHANGED <<tree, starts>>

-----------------------------------------------------------------------------
(* The commands.                                                           *)

Apart(a) ==
  \/ a \in Shared
  \/ \A c \in Cmd : cmd[c].alias = a => cmd[c].op \notin Installing \cup {"uninstall"}

Start(c, op, a, r, at) ==
  /\ cmd[c].at = "idle" /\ starts < MaxStarts
  /\ starts' = starts + 1
  /\ cmd' = [cmd EXCEPT ![c] = [op |-> op, alias |-> a, root |-> r, at |-> at, db |-> None]]
  /\ UNCHANGED <<disk, tree>>

Use(c, a) == Start(c, "use", a, None, "update")
KnobSet(c) == Start(c, "knob", None, None, "update")

(* install: refused where the snapshot has the alias.                      *)
Install(c, a, r) ==
  /\ disk.inst[a] = None /\ Apart(a)
  /\ "relist" \in Upsets \/ tree[a].part \subseteq {r}
  /\ Start(c, "install", a, r, "seed")

(* The knob `user` gets its derived value where another snapshot has none  *)
(* and there is one to derive ($USER).                                     *)
SeedKnob(c) ==
  /\ cmd[c].at = "seed"
  /\ \/ /\ disk.user = "unset"
        /\ cmd' = [cmd EXCEPT ![c].op = "seed", ![c].at = "update"]
     \/ \E p \in {"ask", "fetch"} : cmd' = [cmd EXCEPT ![c].at = p]
  /\ UNCHANGED <<disk, tree, starts>>

(* Without --silent, a prompt where a third snapshot still has none; the   *)
(* answer, if it is not empty, is what the update writes when it gets the  *)
(* lock, whatever the file has by then.                                    *)
Ask(c) ==
  /\ cmd[c].at = "ask"
  /\ \E op \in {"noanswer"} \cup IF disk.user = "unset" THEN {"answer"} ELSE {} :
       cmd' = [cmd EXCEPT ![c].op = op, ![c].at = "update"]
  /\ UNCHANGED <<disk, tree, starts>>

(* Mutant: the metadata before the fetch is over.                          *)
FetchBegins_NoWait(c) ==
  /\ cmd[c].at = "fetch"
  /\ tree' = [tree EXCEPT ![cmd[c].alias].part = @ \cup {cmd[c].root}]
  /\ cmd' = [cmd EXCEPT ![c].at = "meta"]
  /\ UNCHANGED <<disk, starts>>

(* The fetch starts, unless the directory holds repositories that an       *)
(* earlier command left incomplete, which it names and stops.              *)
FetchBegins(c) ==
  /\ cmd[c].at = "fetch"
  /\ LET a == cmd[c].alias  r == cmd[c].root IN
     \/ /\ tree' = [tree EXCEPT ![a].part = @ \cup {r}]
        /\ cmd' = [cmd EXCEPT ![c].at = "work"]
     \/ /\ tree[a].part # tree[a].whole
        /\ cmd' = [cmd EXCEPT ![c] = Idle]
        /\ UNCHANGED tree
  /\ UNCHANGED <<disk, starts>>

(* Mutant: whatever became of the directory, the fetch is over.            *)
FetchEnds_NoLook(c) ==
  /\ cmd[c].at = "work" /\ cmd[c].op = "install"
  /\ tree' = [tree EXCEPT ![cmd[c].alias].whole = @ \cup {cmd[c].root}]
  /\ cmd' = [cmd EXCEPT ![c].at = "meta"]
  /\ UNCHANGED <<disk, starts>>

(* It ends: every repository is there, or the directory was taken away     *)
(* meanwhile and the fetch fails.                                          *)
FetchEnds(c) ==
  /\ cmd[c].at = "work" /\ cmd[c].op = "install"
  /\ LET a == cmd[c].alias  r == cmd[c].root IN
     IF r \in tree[a].part
     THEN /\ tree' = [tree EXCEPT ![a].whole = @ \cup {r}]
          /\ cmd' = [cmd EXCEPT ![c].at = "meta"]
     ELSE /\ cmd' = [cmd EXCEPT ![c] = Idle]
          /\ UNCHANGED tree
  /\ UNCHANGED <<disk, starts>>

(* ensure_meta: under the installation's lock, a root-dir that is recorded *)
(* stays.                                                                  *)
EnsureMeta(c) ==
  /\ cmd[c].at = "meta"
  /\ tree' = [tree EXCEPT ![cmd[c].alias].meta = IF @ = None THEN cmd[c].root ELSE @]
  /\ cmd' = [cmd EXCEPT ![c].at = "update"]
  /\ UNCHANGED <<disk, starts>>

(* uninstall: the snapshot has the alias; a prompt; the directory goes,    *)
(* file by file; the update.                                               *)
Uninstall(c, a) ==
  /\ disk.inst[a] # None /\ Apart(a)
  /\ Start(c, "uninstall", a, None, "confirm")

Confirm(c) ==
  /\ cmd[c].at = "confirm"
  /\ LET a == cmd[c].alias IN
     tree' = [tree EXCEPT ![a] = IF @ = NoTree THEN @
                                 ELSE [@ EXCEPT !.torn = TRUE, !.whole = {}]]
  /\ cmd' = [cmd EXCEPT ![c].at = "remove"]
  /\ UNCHANGED <<disk, starts>>

RemoveTree(c) ==
  /\ cmd[c].at = "remove"
  /\ tree' = [tree EXCEPT ![cmd[c].alias] = NoTree]
  /\ cmd' = [cmd EXCEPT ![c].at = "update"]
  /\ UNCHANGED <<disk, starts>>

(* installation refetch: minutes on a snapshot, then the entry's provenance *)
(* and the repositories left unfetched.                                    *)
Refetch(c, a) ==
  /\ disk.inst[a] # None
  /\ Start(c, "refetch", a, None, "work")

RefetchEnds(c) ==
  /\ cmd[c].at = "work" /\ cmd[c].op = "refetch"
  /\ cmd' = [cmd EXCEPT ![c].at = "update"]
  /\ UNCHANGED <<disk, tree, starts>>

(* A command dies, or is told to stop at its prompt; its lock goes.        *)
Die(c) ==
  /\ cmd[c].at # "idle"
  /\ cmd' = [cmd EXCEPT ![c] = Idle]
  /\ UNCHANGED <<disk, tree, starts>>

Next ==
  \E c \in Cmd :
    \/ KnobSet(c)
    \/ \E a \in Alias : \/ Use(c, a) \/ Uninstall(c, a) \/ Refetch(c, a)
                        \/ \E r \in Root : Install(c, a, r)
    \/ SeedKnob(c) \/ Ask(c) \/ FetchBegins(c) \/ FetchEnds(c) \/ EnsureMeta(c)
    \/ Confirm(c) \/ RemoveTree(c) \/ RefetchEnds(c)
    \/ TakeLock(c) \/ Write(c) \/ Die(c)

Spec == Init /\ [][Next]_vars

-----------------------------------------------------------------------------
(* The active installation is registered: commands resolve it without      *)
(* asking again, and uninstall must not leave the pointer behind.          *)
ActiveRegistered ==
  disk.active # None => disk.inst[disk.active] # None

(* No update loses another's: against the file as it was when it was       *)
(* replaced, whatever happened since the command's snapshot, a command     *)
(* changes only what it owns (database.rs:514-517), and a derived default  *)
(* never replaces what the user set.  One update is not held to that: what *)
(* an install was answered at its prompt.                                  *)
Owned(c, a, x, y) ==
  CASE cmd[c].op = "uninstall" -> y.inst[a] = None
    [] cmd[c].op = "install" -> x.inst[a] = None
    [] cmd[c].op = "refetch" ->
         /\ x.inst[a] # None /\ y.inst[a] # None
         /\ x.inst[a].root = y.inst[a].root
    [] OTHER -> x.inst[a] = y.inst[a]
UpdatesKeep ==
  [][\A c \in Cmd : cmd[c].at = "write" /\ disk' # disk =>
       /\ \A a \in Alias : IF a = cmd[c].alias THEN Owned(c, a, disk, disk')
                           ELSE disk'.inst[a] = disk.inst[a]
       /\ disk'.active # disk.active =>
            \/ cmd[c].op = "use" /\ disk'.active = cmd[c].alias
            \/ cmd[c].op = "uninstall" /\ disk.active = cmd[c].alias
            \/ cmd[c].op = "install" /\ disk.active = None
       /\ disk'.user # disk.user =>
            \/ cmd[c].op \in {"knob", "answer"}
            \/ cmd[c].op = "seed" /\ disk.user = "unset"]_vars

(* What is registered under an alias is a tree some install finished, with *)
(* the root directory of its own thornlist on record: never half a fetch,  *)
(* and never the root of an earlier attempt.  All that may be missing is   *)
(* what an uninstall, dead or alive, has removed.                          *)
RegisteredWhole ==
  \A a \in Alias \ Shared :
    disk.inst[a] # None =>
      \/ tree[a].torn \/ tree[a] = NoTree
      \/ tree[a].meta = disk.inst[a].root /\ tree[a].meta \in tree[a].whole

(* Both: what the database names is there, and whole.                      *)
DatabaseTrue == ActiveRegistered /\ RegisteredWhole
=============================================================================
