---------------------------- MODULE ObjectCache ----------------------------
(***************************************************************************)
(* cactup's cache of compiled objects, as the compiler wrapper uses it      *)
(* (src/objcache/wrapper.rs, store.rs, key.rs).  A compile is keyed by its  *)
(* preprocessed text and the files behind it; an entry under the key is     *)
(* restored, or the compiler runs, the inputs are looked at once more, and  *)
(* the object is published under its key.                                   *)
(*                                                                          *)
(* Wrappers of many builds, on many nodes, share the files and the store    *)
(* and know nothing of each other.  Each file that is read, each look at a  *)
(* name and each link or unlink is a step of its own.                       *)
(*                                                                          *)
(* What a file holds is abstracted to a member of Content.  Two contents    *)
(* with the same codeOf differ only in macro definitions the key leaves     *)
(* out; a compiler's result is the code it read and, where its messages     *)
(* speak of definitions, the contents whole.  An edit gives a file a new    *)
(* stamp (device, inode, times), which nothing can set back.                *)
(***************************************************************************)
EXTENDS Integers, FiniteSets

CONSTANTS
  Proc,            \* the compiles that may be under way at once
  File,            \* the files a unit may read
  Content,         \* what a file can hold; Absent: there is no such file
  Absent,
  codeOf,          \* the part of a content that the key has
  Bare,            \* the contents with no definition to leave out
  Speaking,        \* codes whose compile prints messages of definitions
  Ino,             \* the store's inodes
  None,            \* no inode, no content, no key
  Faults,          \* the faults that may happen
  MaxEdits,        \* bound: how often a file changes
  MaxFaults        \* bound: how many faults happen

ASSUME ContentAssumption ==
  /\ Absent \in Bare /\ Bare \subseteq Content /\ None \notin Content
  /\ \A c \in Bare, d \in Bare : codeOf[c] = codeOf[d] => c = d
  /\ \A c \in Content : codeOf[c] = codeOf[Absent] => c = Absent

ASSUME InoAssumption == None \notin Ino

ASSUME BoundAssumption == MaxEdits \in Nat /\ MaxFaults \in Nat

VARIABLES
  src,             \* what each file holds
  stamp,           \* and what it looks like: its edits so far
  pc,              \* the next step of each wrapper
  todo,            \* the files its present pass has still to read
  text,            \* the text of the key's preprocessor run
  files,           \* the files behind that text, as read for the key
  seen,            \* their stamps, each taken before the bytes
  made,            \* what the compiler read
  which,           \* the name it looks under: "plain" or "whole"
  ino,             \* the inode it has open, or that its name last led to
  reply,           \* what hard_link said
  obj,             \* the result at the compile's output
  verdict,         \* how the compile ended for the cache
  disk,            \* the inodes of the store: an entry, or None
  linked,          \* those that have a key's name
  had,             \* history: what each file has been since the compile began
  faults           \* the faults so far

fileVars == <<src, stamp>>
keyVars == <<text, files, seen>>
outVars == <<obj, verdict, had>>
storeVars == <<disk, linked>>
vars == <<src, stamp, pc, todo, text, files, seen, made, which, ino, reply,
          obj, verdict, disk, linked, had, faults>>

-----------------------------------------------------------------------------
Tree == [File -> Content]
Unread == [f \in File |-> None]
NoResult == [code |-> Unread, said |-> Unread]

CodesOf(t) == [f \in File |-> codeOf[t[f]]]
Speaks(codes) == \E f \in File : codes[f] \in Speaking

(* What the compiler makes of the contents it reads. *)
Result(t) == [code |-> CodesOf(t), said |-> IF Speaks(CodesOf(t)) THEN t ELSE Unread]

(* The files a run of the preprocessor or the compiler entered. *)
Entered(t) == {f \in File : t[f] # Absent}

(* A key, and the key with its files whole (decision 30). *)
Plain(t, fs) == [text |-> CodesOf(t), files |-> CodesOf(fs), whole |-> Unread]
Whole(t, fs) == [text |-> CodesOf(t), files |-> CodesOf(fs), whole |-> fs]
Narrowed(fs) == \E f \in File : fs[f] \notin Bare

(* The key p looks for an entry under. *)
Key(p) == IF which[p] = "whole" THEN Whole(text[p], files[p]) ELSE Plain(text[p], files[p])

(* Mutant: messages or not, always the plain key. *)
PublishKey_Plain(t, fs, o) == Plain(t, fs)

(* The key the result o of those files goes under: with the files whole if  *)
(* its messages speak of definitions.                                       *)
PublishKey(t, fs, o) ==
  IF Speaks(o.code) /\ Narrowed(fs) THEN Whole(t, fs) ELSE Plain(t, fs)
NewKey(p) == PublishKey(text[p], files[p], obj[p])

(* The inode a key's name leads to, as a set of at most one. *)
At(k) == {i \in linked : disk[i].key = k}

(* An entry that reads back as it was written. *)
Good(e) == e.state \in {"written", "synced"}

(* Where a wrapper has the inode open. *)
Opened == {"read", "sync", "link", "verdict"}
Free == {i \in Ino : i \notin linked /\ \A p \in Proc : pc[p] \in Opened => ino[p] # i}

Asked(p) == pc[p] \notin {"idle", "done"}

Fault(kind) ==
  /\ kind \in Faults /\ faults < MaxFaults
  /\ faults' = faults + 1

-----------------------------------------------------------------------------
Init ==
  /\ src \in Tree
  /\ stamp = [f \in File |-> 0]
  /\ pc = [p \in Proc |-> "idle"]
  /\ todo = [p \in Proc |-> {}]
  /\ text = [p \in Proc |-> Unread]
  /\ files = [p \in Proc |-> Unread]
  /\ seen = [p \in Proc |-> Unread]
  /\ made = [p \in Proc |-> Unread]
  /\ which = [p \in Proc |-> "plain"]
  /\ ino = [p \in Proc |-> None]
  /\ reply = [p \in Proc |-> "none"]
  /\ obj = [p \in Proc |-> NoResult]
  /\ verdict = [p \in Proc |-> "none"]
  /\ disk = [i \in Ino |-> None]
  /\ linked = {}
  /\ had = [p \in Proc |-> [f \in File |-> {}]]
  /\ faults = 0

(* A wrapper goes on to its next step, which is a pass over some files. *)
Goto(p, step, pass) ==
  /\ pc' = [pc EXCEPT ![p] = step]
  /\ todo' = [todo EXCEPT ![p] = pass]

(* The wrappers P end: what they knew is gone. *)
Forget(P, step) ==
  /\ pc' = [p \in Proc |-> IF p \in P THEN step ELSE pc[p]]
  /\ todo' = [p \in Proc |-> IF p \in P THEN {} ELSE todo[p]]
  /\ text' = [p \in Proc |-> IF p \in P THEN Unread ELSE text[p]]
  /\ files' = [p \in Proc |-> IF p \in P THEN Unread ELSE files[p]]
  /\ seen' = [p \in Proc |-> IF p \in P THEN Unread ELSE seen[p]]
  /\ made' = [p \in Proc |-> IF p \in P THEN Unread ELSE made[p]]
  /\ which' = [p \in Proc |-> IF p \in P THEN "plain" ELSE which[p]]
  /\ ino' = [p \in Proc |-> IF p \in P THEN None ELSE ino[p]]
  /\ reply' = [p \in Proc |-> IF p \in P THEN "none" ELSE reply[p]]
  /\ had' = [p \in Proc |-> IF p \in P THEN [f \in File |-> {}] ELSE had[p]]

(* The compile of p ends with the result o at its output. *)
Finish(p, o, v) ==
  /\ Forget({p}, "done")
  /\ obj' = [obj EXCEPT ![p] = o]
  /\ verdict' = [verdict EXCEPT ![p] = v]

-----------------------------------------------------------------------------
(* Keying: the preprocessor runs, then each file it entered is opened,      *)
(* looked at and read.                                                      *)

(* make runs the wrapper. *)
Begin(p) ==
  /\ ~Asked(p)
  /\ Goto(p, "text", File)
  /\ had' = [had EXCEPT ![p] = [f \in File |-> {src[f]}]]
  /\ obj' = [obj EXCEPT ![p] = NoResult]
  /\ verdict' = [verdict EXCEPT ![p] = "none"]
  /\ UNCHANGED <<fileVars, keyVars, made, which, ino, reply, storeVars, faults>>

ReadText(p, f) ==
  /\ pc[p] = "text" /\ f \in todo[p]
  /\ text' = [text EXCEPT ![p][f] = src[f]]
  /\ Goto(p, "text", todo[p] \ {f})
  /\ UNCHANGED <<fileVars, files, seen, made, which, ino, reply, outVars, storeVars, faults>>

EndText(p) ==
  /\ pc[p] = "text" /\ todo[p] = {} /\ Entered(text[p]) # {}
  /\ Goto(p, "files", Entered(text[p]))
  /\ files' = [files EXCEPT ![p] = [f \in File |-> IF text[p][f] = Absent THEN Absent ELSE None]]
  /\ UNCHANGED <<fileVars, text, seen, made, which, ino, reply, outVars, storeVars, faults>>

(* A file that cannot be read, or no text: there is no key, and the compile *)
(* just runs.                                                               *)
Unkeyed(p) ==
  /\ \/ pc[p] = "text" /\ todo[p] = {} /\ Entered(text[p]) = {}
     \/ pc[p] = "files" /\ \E f \in todo[p] : seen[p][f] = None /\ src[f] = Absent
  /\ Goto(p, "compile", File)
  /\ text' = [text EXCEPT ![p] = Unread]
  /\ files' = [files EXCEPT ![p] = Unread]
  /\ seen' = [seen EXCEPT ![p] = Unread]
  /\ UNCHANGED <<fileVars, made, which, ino, reply, outVars, storeVars, faults>>

(* The file is opened, and looked at: before its bytes are read. *)
StatFile(p, f) ==
  /\ pc[p] = "files" /\ f \in todo[p] /\ src[f] # Absent
  /\ \A g \in todo[p] : seen[p][g] = None
  /\ seen' = [seen EXCEPT ![p][f] = stamp[f]]
  /\ files' = [files EXCEPT ![p][f] = src[f]]
  /\ UNCHANGED <<fileVars, pc, todo, text, made, which, ino, reply, outVars, storeVars, faults>>

(* The open file has its old bytes if the name leads to another by now, and *)
(* the new ones if it was written in place.                                 *)
ReadFile(p, f) ==
  /\ pc[p] = "files" /\ f \in todo[p] /\ seen[p][f] # None
  /\ \E c \in {files[p][f], src[f]} \ {Absent} : files' = [files EXCEPT ![p][f] = c]
  /\ Goto(p, "files", todo[p] \ {f})
  /\ UNCHANGED <<fileVars, text, seen, made, which, ino, reply, outVars, storeVars, faults>>

EndFiles(p) ==
  /\ pc[p] = "files" /\ todo[p] = {}
  /\ Goto(p, "open", {})
  /\ UNCHANGED <<fileVars, keyVars, made, which, ino, reply, outVars, storeVars, faults>>

-----------------------------------------------------------------------------
(* Restoring: Store::read under the key, and where that has nothing for     *)
(* this compile, under the key with the files whole.                        *)

(* Give up on the store: the compiler runs. *)
Miss(p) ==
  /\ Goto(p, "compile", File)
  /\ ino' = [ino EXCEPT ![p] = None]
  /\ UNCHANGED which

LookWhole(p) ==
  /\ which' = [which EXCEPT ![p] = "whole"]
  /\ Goto(p, "open", {})
  /\ ino' = [ino EXCEPT ![p] = None]

OpenEntry(p) ==
  /\ pc[p] = "open"
  /\ \E i \in At(Key(p)) : ino' = [ino EXCEPT ![p] = i]
  /\ Goto(p, "read", {})
  /\ UNCHANGED <<fileVars, keyVars, made, which, reply, outVars, storeVars, faults>>

NoEntry(p) ==
  /\ pc[p] = "open" /\ At(Key(p)) = {}
  /\ IF which[p] = "plain" /\ Narrowed(files[p]) THEN LookWhole(p) ELSE Miss(p)
  /\ UNCHANGED <<fileVars, keyVars, made, reply, outVars, storeVars, faults>>

(* Mutant: messages are good for every file of the same code. *)
SaidElsewhere_Never(p, e) == FALSE

(* Its messages are of definitions as they stood in other files whole. *)
SaidElsewhere(p, e) == Speaks(e.result.code) /\ e.whole # files[p]

(* The entry is whole and for this key: its object is put in place. *)
Serve(p) ==
  /\ pc[p] = "read"
  /\ LET e == disk[ino[p]]
     IN  Good(e) /\ ~SaidElsewhere(p, e) /\ Finish(p, e.result, "served")
  /\ UNCHANGED <<fileVars, storeVars, faults>>

PassOver(p) ==
  /\ pc[p] = "read" /\ Good(disk[ino[p]]) /\ SaidElsewhere(p, disk[ino[p]])
  /\ IF which[p] = "plain" THEN LookWhole(p) ELSE Miss(p)
  /\ UNCHANGED <<fileVars, keyVars, made, reply, outVars, storeVars, faults>>

(* The entry cannot be read, or the object or the dependency file cannot be *)
(* put in place.                                                            *)
ReadFails(p) ==
  /\ pc[p] = "read" /\ Fault("error")
  /\ Miss(p)
  /\ UNCHANGED <<fileVars, keyVars, made, reply, outVars, storeVars>>

(* Mutant: a damaged entry is left where it is. *)
FindDamage_Leaves(p) ==
  /\ pc[p] = "read" /\ ~Good(disk[ino[p]])
  /\ Miss(p)
  /\ UNCHANGED <<fileVars, keyVars, made, reply, outVars, storeVars, faults>>

(* A damaged entry: its file is closed, and removed if the name still leads *)
(* to it; a look and a removal, with room for others between.               *)
FindDamage(p) ==
  /\ pc[p] = "read" /\ ~Good(disk[ino[p]])
  /\ Goto(p, "relook", {})
  /\ UNCHANGED <<fileVars, keyVars, made, which, ino, reply, outVars, storeVars, faults>>

Relook(p) ==
  /\ pc[p] = "relook"
  /\ IF At(Key(p)) = {ino[p]} THEN Goto(p, "invalidate", {}) /\ UNCHANGED <<which, ino>> ELSE Miss(p)
  /\ UNCHANGED <<fileVars, keyVars, made, reply, outVars, storeVars, faults>>

Invalidate(p) ==
  /\ pc[p] = "invalidate"
  /\ linked' = linked \ At(Key(p))
  /\ Miss(p)
  /\ UNCHANGED <<fileVars, keyVars, made, reply, outVars, disk, faults>>

-----------------------------------------------------------------------------
(* Compiling, and the check after it (Keyed::still_holds).                  *)

(* The compiler reads a file; on a node whose file system stalls it may be  *)
(* told that there is none (decision 28).                                   *)
CompileRead(p, f) ==
  /\ pc[p] = "compile" /\ f \in todo[p]
  /\ \/ /\ made' = [made EXCEPT ![p][f] = src[f]]
        /\ UNCHANGED <<had, faults>>
     \/ /\ Fault("stall")
        /\ made' = [made EXCEPT ![p][f] = Absent]
        /\ had' = [had EXCEPT ![p][f] = @ \cup {Absent}]
  /\ Goto(p, "compile", todo[p] \ {f})
  /\ UNCHANGED <<fileVars, keyVars, which, ino, reply, obj, verdict, storeVars>>

(* Without a key, or where the compile says that it read other files than   *)
(* the key's run, nothing is stored.                                        *)
EndCompile(p) ==
  /\ pc[p] = "compile" /\ todo[p] = {}
  /\ IF text[p] # Unread /\ Entered(made[p]) = Entered(text[p])
       THEN /\ obj' = [obj EXCEPT ![p] = Result(made[p])]
            /\ Goto(p, "retext", File)
            /\ UNCHANGED <<keyVars, made, which, ino, reply, verdict, had>>
       ELSE Finish(p, Result(made[p]), "unstable")
  /\ UNCHANGED <<fileVars, storeVars, faults>>

CompileFails(p) ==
  /\ pc[p] = "compile" /\ Fault("error")
  /\ Forget({p}, "idle")
  /\ UNCHANGED <<fileVars, obj, verdict, storeVars>>

(* The second run of the preprocessor, and the second look at the files.  A *)
(* file is looked at and compared in one step: an edit between the look and *)
(* the reading could only fail the comparison.                              *)
Retext(p, f) ==
  /\ pc[p] = "retext" /\ f \in todo[p]
  /\ IF codeOf[src[f]] = codeOf[text[p][f]]
       THEN Goto(p, "retext", todo[p] \ {f}) /\ UNCHANGED <<keyVars, made, which, ino, reply, outVars>>
       ELSE Finish(p, obj[p], "unstable")
  /\ UNCHANGED <<fileVars, storeVars, faults>>

EndRetext(p) ==
  /\ pc[p] = "retext" /\ todo[p] = {}
  /\ Goto(p, "refiles", Entered(text[p]))
  /\ UNCHANGED <<fileVars, keyVars, made, which, ino, reply, outVars, storeVars, faults>>

Refile(p, f) ==
  /\ pc[p] = "refiles" /\ f \in todo[p]
  /\ IF stamp[f] = seen[p][f] /\ codeOf[src[f]] = codeOf[files[p][f]]
       THEN Goto(p, "refiles", todo[p] \ {f}) /\ UNCHANGED <<keyVars, made, which, ino, reply, outVars>>
       ELSE Finish(p, obj[p], "unstable")
  /\ UNCHANGED <<fileVars, storeVars, faults>>

EndRefiles(p) ==
  /\ pc[p] = "refiles" /\ todo[p] = {}
  /\ Goto(p, "publish", {})
  /\ UNCHANGED <<fileVars, keyVars, made, which, ino, reply, outVars, storeVars, faults>>

-----------------------------------------------------------------------------
(* Publishing: a temporary file is written, synced and linked to the name.  *)

EntryOf(p) ==
  [key |-> NewKey(p), whole |-> files[p], result |-> obj[p], state |-> "written"]

AlreadyThere(p) ==
  /\ pc[p] = "publish" /\ At(NewKey(p)) # {}
  /\ Finish(p, obj[p], "there")
  /\ UNCHANGED <<fileVars, storeVars, faults>>

WriteTemp(p) ==
  /\ pc[p] = "publish" /\ At(NewKey(p)) = {}
  /\ \E i \in Free : /\ ino' = [ino EXCEPT ![p] = i]
                     /\ disk' = [disk EXCEPT ![i] = EntryOf(p)]
  /\ Goto(p, "sync", {})
  /\ UNCHANGED <<fileVars, keyVars, made, which, reply, outVars, linked, faults>>

(* Mutant: the file is linked before it is on disk. *)
Sync_Skip(p) ==
  /\ pc[p] = "sync"
  /\ Goto(p, "link", {})
  /\ UNCHANGED <<fileVars, keyVars, made, which, ino, reply, outVars, storeVars, faults>>

Sync(p) ==
  /\ pc[p] = "sync"
  /\ disk' = [disk EXCEPT ![ino[p]].state = "synced"]
  /\ Goto(p, "link", {})
  /\ UNCHANGED <<fileVars, keyVars, made, which, ino, reply, outVars, linked, faults>>

(* hard_link.  NFS can lose the reply to a link that happened, and answer   *)
(* the request sent again that the name exists.                             *)
Link(p) ==
  /\ pc[p] = "link"
  /\ \/ /\ At(disk[ino[p]].key) = {}
        /\ linked' = linked \cup {ino[p]}
        /\ \/ reply' = [reply EXCEPT ![p] = "ok"] /\ UNCHANGED faults
           \/ reply' = [reply EXCEPT ![p] = "exists"] /\ Fault("lost reply")
     \/ /\ At(disk[ino[p]].key) # {}
        /\ reply' = [reply EXCEPT ![p] = "exists"]
        /\ UNCHANGED <<linked, faults>>
  /\ Goto(p, "verdict", {})
  /\ UNCHANGED <<fileVars, keyVars, made, which, ino, outVars, disk>>

(* The temporary file's link count decides; its own name goes.              *)
Verdict(p) ==
  /\ pc[p] = "verdict"
  /\ Finish(p, obj[p], IF reply[p] = "ok" \/ ino[p] \in linked THEN "stored" ELSE "there")
  /\ UNCHANGED <<fileVars, storeVars, faults>>

(* The file cannot be written, synced or linked: the build goes on.         *)
PublishFails(p) ==
  /\ pc[p] \in {"publish", "sync", "link"} /\ Fault("error")
  /\ Finish(p, obj[p], "failed")
  /\ UNCHANGED <<fileVars, storeVars>>

-----------------------------------------------------------------------------
(* What else happens.                                                       *)

Edit(f, c) ==
  /\ stamp[f] < MaxEdits
  /\ src' = [src EXCEPT ![f] = c]
  /\ stamp' = [stamp EXCEPT ![f] = @ + 1]
  /\ had' = [p \in Proc |-> IF Asked(p) THEN [had[p] EXCEPT ![f] = @ \cup {c}] ELSE had[p]]
  /\ UNCHANGED <<pc, todo, keyVars, made, which, ino, reply, obj, verdict, storeVars, faults>>

(* A wrapper is killed. *)
Die(p) ==
  /\ Asked(p) /\ Fault("kill")
  /\ Forget({p}, "idle")
  /\ UNCHANGED <<fileVars, obj, verdict, storeVars>>

(* The power goes: every wrapper dies, and what was not synced is torn.     *)
PowerLoss ==
  /\ Fault("power")
  /\ Forget({p \in Proc : Asked(p)}, "idle")
  /\ disk' = [i \in Ino |-> IF i \in linked /\ disk[i].state = "written"
                              THEN [disk[i] EXCEPT !.state = "torn"] ELSE disk[i]]
  /\ UNCHANGED <<fileVars, obj, verdict, linked>>

(* An entry's bytes change on disk. *)
Rot(i) ==
  /\ i \in linked /\ Good(disk[i]) /\ Fault("rot")
  /\ disk' = [disk EXCEPT ![i].state = "rotten"]
  /\ UNCHANGED <<fileVars, pc, todo, keyVars, made, which, ino, reply, outVars, linked>>

(* cache gc removes an entry. *)
Collect(i) ==
  /\ i \in linked /\ Fault("gc")
  /\ linked' = linked \ {i}
  /\ UNCHANGED <<fileVars, pc, todo, keyVars, made, which, ino, reply, outVars, disk>>

KeyStep(p) ==
  \/ Begin(p) \/ EndText(p) \/ Unkeyed(p) \/ EndFiles(p)
  \/ \E f \in File : ReadText(p, f) \/ StatFile(p, f) \/ ReadFile(p, f)

ServeStep(p) ==
  \/ OpenEntry(p) \/ NoEntry(p) \/ Serve(p) \/ PassOver(p) \/ FindDamage(p)
  \/ Relook(p) \/ Invalidate(p)

CompileStep(p) ==
  \/ EndCompile(p) \/ EndRetext(p) \/ EndRefiles(p)
  \/ \E f \in File : CompileRead(p, f) \/ Retext(p, f) \/ Refile(p, f)

PublishStep(p) == AlreadyThere(p) \/ WriteTemp(p) \/ Sync(p) \/ Link(p) \/ Verdict(p)

Step(p) == KeyStep(p) \/ ServeStep(p) \/ CompileStep(p) \/ PublishStep(p)

Fail(p) == ReadFails(p) \/ CompileFails(p) \/ PublishFails(p) \/ Die(p)

Environment ==
  \/ PowerLoss
  \/ \E f \in File, c \in Content : Edit(f, c)
  \/ \E i \in Ino : Rot(i) \/ Collect(i)

Next == (\E p \in Proc : Step(p) \/ Fail(p)) \/ Environment

Spec == Init /\ [][Next]_vars

(* make asks for the compile again and again, and every wrapper goes on.    *)
FairSpec == Spec /\ \A p \in Proc : WF_vars(Step(p))

-----------------------------------------------------------------------------
ResultType == [code : [File -> {codeOf[c] : c \in Content} \cup {None}],
            said : [File -> Content \cup {None}]]
KeyType == [text : [File -> {codeOf[c] : c \in Content} \cup {None}],
            files : [File -> {codeOf[c] : c \in Content} \cup {None}],
            whole : [File -> Content \cup {None}]]
Entry == [key : KeyType, whole : Tree, result : ResultType,
          state : {"written", "synced", "torn", "rotten"}]
Steps == {"idle", "done", "text", "files", "open", "read", "relook", "invalidate",
          "compile", "retext", "refiles", "publish", "sync", "link", "verdict"}

TypeOK ==
  /\ src \in Tree
  /\ stamp \in [File -> 0 .. MaxEdits]
  /\ pc \in [Proc -> Steps]
  /\ todo \in [Proc -> SUBSET File]
  /\ text \in [Proc -> [File -> Content \cup {None}]]
  /\ files \in [Proc -> [File -> Content \cup {None}]]
  /\ seen \in [Proc -> [File -> (0 .. MaxEdits) \cup {None}]]
  /\ made \in [Proc -> [File -> Content \cup {None}]]
  /\ which \in [Proc -> {"plain", "whole"}]
  /\ ino \in [Proc -> Ino \cup {None}]
  /\ reply \in [Proc -> {"none", "ok", "exists"}]
  /\ obj \in [Proc -> ResultType]
  /\ verdict \in [Proc -> {"none", "served", "unstable", "there", "stored", "failed"}]
  /\ disk \in [Ino -> Entry \cup {None}]
  /\ linked \subseteq {i \in Ino : disk[i] \in Entry}
  /\ had \in [Proc -> [File -> SUBSET Content]]
  /\ \A p \in Proc : ino[p] # None <=> pc[p] \in Opened \cup {"relook", "invalidate"}
  /\ faults \in 0 .. MaxFaults

-----------------------------------------------------------------------------
(* An entry that reads back well is true: its object is what the compiler   *)
(* makes of the text and the files in its key, and messages of definitions  *)
(* were said of the very files it keeps.  The check after the compile       *)
(* (still_holds), the stamps taken before the bytes and the compile's own   *)
(* list of what it read are all for this.                                   *)
EntryIsTrue(e) ==
  /\ e.result = Result(e.whole)
  /\ e.key.text = CodesOf(e.whole) /\ e.key.files = CodesOf(e.whole)
  /\ Speaks(e.result.code) /\ Narrowed(e.whole) => e.key.whole = e.whole
EntriesTrue == \A i \in linked : Good(disk[i]) => EntryIsTrue(disk[i])

(* A name that exists names a whole entry, also after a crash: only decay   *)
(* of the disk itself spoils an entry (publish syncs before it links).      *)
NamesWhole == \A i \in linked : disk[i].state \in {"synced", "rotten"}

(* What makes entries true, step by step: a wrapper that has looked at a    *)
(* file knows what it holds for as long as the stamp stays, so what the     *)
(* compiler and the second preprocessor run read in between is that.        *)
Late == {"retext", "refiles", "publish", "sync", "link", "verdict"}
Keyed(p) ==
  \/ pc[p] \in {"open", "read", "relook", "invalidate"} \cup Late
  \/ pc[p] = "compile" /\ text[p] # Unread
Unmoved(p, f) == stamp[f] = seen[p][f]
Looked(p, f) ==
  /\ f \in Entered(text[p])
  /\ files[p][f] \in had[p][f] \ {Absent} /\ seen[p][f] <= stamp[f]
  /\ Unmoved(p, f) => src[f] = files[p][f]

KeyInv(p) ==
  /\ Asked(p) => \A f \in File : src[f] \in had[p][f]
  /\ pc[p] \in {"idle", "done", "text"} => seen[p] = Unread
  /\ pc[p] = "text" => \A f \in File \ todo[p] : text[p][f] \in had[p][f]
  /\ pc[p] = "files" \/ Keyed(p) => \A f \in File :
       /\ text[p][f] \in had[p][f]
       /\ f \notin Entered(text[p]) => files[p][f] = Absent
       /\ seen[p][f] # None => Looked(p, f)
  /\ pc[p] = "files" =>
       /\ todo[p] \subseteq Entered(text[p])
       /\ \A f \in Entered(text[p]) \ todo[p] : seen[p][f] # None
  /\ Keyed(p) => \A f \in Entered(text[p]) : seen[p][f] # None

MadeInv(p) ==
  /\ pc[p] = "compile" => \A f \in File \ todo[p] :
       /\ made[p][f] \in had[p][f]
       /\ Keyed(p) /\ f \in Entered(text[p]) /\ Unmoved(p, f) /\ made[p][f] # Absent
            => made[p][f] = files[p][f]
  /\ pc[p] \in Late =>
       /\ \A f \in File : made[p][f] \in had[p][f]
       /\ Entered(made[p]) = Entered(text[p]) /\ obj[p] = Result(made[p])
       /\ \A f \in Entered(text[p]) : Unmoved(p, f) => made[p][f] = files[p][f]
  /\ pc[p] \in {"retext", "refiles"} =>
       \A f \in Entered(text[p]) : (pc[p] = "refiles" \/ f \notin todo[p]) /\ Unmoved(p, f)
         => codeOf[text[p][f]] = codeOf[files[p][f]]
  /\ pc[p] = "refiles" => \A f \in Entered(text[p]) \ todo[p] :
       made[p][f] = files[p][f] /\ codeOf[text[p][f]] = codeOf[files[p][f]]
  /\ pc[p] \in {"publish", "sync", "link", "verdict"} =>
       made[p] = files[p] /\ CodesOf(text[p]) = CodesOf(files[p])

(* And the store: an entry that has a name, or is open, stays true.         *)
DiskInv ==
  /\ \A i \in linked : EntryIsTrue(disk[i])
  /\ NamesWhole
  /\ \A p \in Proc : pc[p] \in Opened => disk[ino[p]] \in Entry /\ EntryIsTrue(disk[ino[p]])
  /\ \A p \in Proc : pc[p] = "read" => disk[ino[p]].key = Key(p)
  /\ \A p \in Proc : pc[p] \in {"sync", "link"} =>
       /\ ino[p] \notin linked
       /\ disk[ino[p]].state = IF pc[p] = "sync" THEN "written" ELSE "synced"
       /\ \A q \in Proc \ {p} : pc[q] \in Opened => ino[q] # ino[p]

CacheInv == TypeOK /\ DiskInv /\ \A p \in Proc : KeyInv(p) /\ MadeInv(p)

(* Whose file has the name is never told that it was not stored, whatever   *)
(* became of the server's reply (publish asks the temporary file's link     *)
(* count).                                                                  *)
LinkedIsStored ==
  [][\A p \in Proc : pc[p] = "verdict" /\ ino[p] \in linked /\ pc'[p] = "done"
       => verdict'[p] = "stored"]_vars

(* The wrapper is a compiler: the build gets an object of contents its      *)
(* files had while the compile ran, from the store or not.                  *)
Service == INSTANCE CompileService WITH
  status <- [p \in Proc |-> CASE pc[p] = "idle" -> "idle"
                               [] pc[p] = "done" -> "answered"
                               [] OTHER -> "asked"],
  result <- [p \in Proc |-> IF pc[p] = "done" THEN obj[p] ELSE NoResult]
ServesAsCompiled == Service!ServiceSpec

(* The store heals: once the files stay as they are and nothing fails any   *)
(* more, it comes to have a good entry for them and keeps it, although a    *)
(* damaged one under the same key bars every publisher until a reader       *)
(* removes it.                                                              *)
Heals ==
  <>[](Entered(src) # {} =>
         \E i \in At(PublishKey(src, src, Result(src))) : Good(disk[i]))
=============================================================================
