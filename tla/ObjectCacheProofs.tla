------------------------- MODULE ObjectCacheProofs -------------------------
(***************************************************************************)
(* Proofs about ObjectCache, for any number of compiles, files, contents    *)
(* and inodes.                                                              *)
(***************************************************************************)
EXTENDS ObjectCache, TLAPS

USE ContentAssumption, InoAssumption, BoundAssumption

LEMMA UnreadTyped ==
  /\ Unread \in [File -> Content \cup {None}]
  /\ NoResult \in ResultType
  /\ \A f \in File : Unread[f] = None
BY DEF Unread, NoResult, ResultType

LEMMA ResultTyped ==
  ASSUME NEW t \in [File -> Content \cup {None}], \A f \in File : t[f] # None
  PROVE  Result(t) \in ResultType /\ t \in Tree
<1>1. t \in Tree
  BY DEF Tree
<1>2. CodesOf(t) \in [File -> {codeOf[c] : c \in Content} \cup {None}]
  BY <1>1 DEF CodesOf, Tree
<1>. QED BY <1>1, <1>2, UnreadTyped DEF Result, ResultType

-----------------------------------------------------------------------------
(* Types.                                                                   *)

LEMMA KeyTypes ==
  ASSUME TypeOK, NEW p \in Proc, KeyStep(p)
  PROVE  TypeOK'
<1>1. CASE Begin(p)
  BY <1>1, UnreadTyped DEF Begin, Goto, Asked, TypeOK, Steps, Opened, fileVars, keyVars, storeVars, Tree
<1>2. CASE EndText(p)
  BY <1>2 DEF EndText, Goto, TypeOK, Steps, Opened, fileVars, outVars, storeVars, Entered, Tree
<1>3. CASE Unkeyed(p)
  BY <1>3, UnreadTyped DEF Unkeyed, Goto, TypeOK, Steps, Opened, fileVars, outVars, storeVars
<1>4. CASE EndFiles(p)
  BY <1>4 DEF EndFiles, Goto, TypeOK, Steps, Opened, fileVars, keyVars, outVars, storeVars
<1>5. ASSUME NEW f \in File, ReadText(p, f)
      PROVE  TypeOK'
  BY <1>5 DEF ReadText, Goto, TypeOK, Steps, Opened, fileVars, outVars, storeVars, Tree
<1>6. ASSUME NEW f \in File, StatFile(p, f)
      PROVE  TypeOK'
  BY <1>6 DEF StatFile, Goto, TypeOK, Steps, Opened, fileVars, outVars, storeVars, Tree
<1>7. ASSUME NEW f \in File, ReadFile(p, f)
      PROVE  TypeOK'
  BY <1>7 DEF ReadFile, Goto, TypeOK, Steps, Opened, fileVars, outVars, storeVars, Tree
<1>. QED BY <1>1, <1>2, <1>3, <1>4, <1>5, <1>6, <1>7 DEF KeyStep

Holding == Opened \cup {"relook", "invalidate"}

LEMMA GotoTypes ==
  ASSUME TypeOK, NEW p \in Proc, NEW step \in Steps, NEW pass \in SUBSET File,
         Goto(p, step, pass),
         UNCHANGED <<fileVars, keyVars, made, which, ino, reply, outVars, storeVars, faults>>,
         step \in Holding <=> pc[p] \in Holding
  PROVE  TypeOK'
BY DEF Goto, TypeOK, Holding, fileVars, keyVars, outVars, storeVars

LEMMA MissTypes ==
  ASSUME TypeOK, NEW p \in Proc, Miss(p) \/ LookWhole(p),
         UNCHANGED <<fileVars, keyVars, made, reply, outVars, disk>>,
         linked' \subseteq linked, faults' \in 0 .. MaxFaults
  PROVE  TypeOK'
<1>1. PICK step \in {"open", "compile"}, pass \in SUBSET File, w \in {"plain", "whole"} :
        /\ pc' = [pc EXCEPT ![p] = step]
        /\ todo' = [todo EXCEPT ![p] = pass]
        /\ which' = [which EXCEPT ![p] = w]
        /\ ino' = [ino EXCEPT ![p] = None]
  <2>1. CASE Miss(p)
    <3>1. which' = [which EXCEPT ![p] = which[p]] /\ which[p] \in {"plain", "whole"}
      BY <2>1 DEF Miss, TypeOK
    <3>2. /\ pc' = [pc EXCEPT ![p] = "compile"] /\ todo' = [todo EXCEPT ![p] = File]
          /\ ino' = [ino EXCEPT ![p] = None]
      BY <2>1 DEF Miss, Goto
    <3>3. File \in SUBSET File
      OBVIOUS
    <3>. QED BY <3>1, <3>2, <3>3
  <2>2. CASE LookWhole(p)
    BY <2>2 DEF LookWhole, Goto
  <2>. QED BY <2>1, <2>2
<1>2. \A q \in Proc : ino'[q] # None <=> pc'[q] \in Holding
  BY <1>1 DEF TypeOK, Holding, Opened
<1>3. /\ pc' \in [Proc -> Steps] /\ todo' \in [Proc -> SUBSET File]
      /\ which' \in [Proc -> {"plain", "whole"}] /\ ino' \in [Proc -> Ino \cup {None}]
  BY <1>1 DEF TypeOK, Steps
<1>. QED BY <1>2, <1>3 DEF TypeOK, Holding, fileVars, keyVars, outVars

LEMMA FinishTypes ==
  ASSUME TypeOK, NEW p \in Proc, NEW o \in ResultType,
         NEW v \in {"served", "unstable", "there", "stored", "failed"},
         Finish(p, o, v), UNCHANGED <<fileVars, storeVars>>, faults' \in 0 .. MaxFaults
  PROVE  TypeOK'
BY UnreadTyped DEF Finish, Forget, TypeOK, Steps, Opened, fileVars, storeVars

LEMMA ForgetTypes ==
  ASSUME TypeOK, NEW P \in SUBSET Proc, Forget(P, "idle"),
         UNCHANGED <<fileVars, obj, verdict, storeVars>>, faults' \in 0 .. MaxFaults
  PROVE  TypeOK'
BY UnreadTyped DEF Forget, TypeOK, Steps, Opened, fileVars, storeVars

LEMMA FaultTypes ==
  ASSUME TypeOK, NEW kind, Fault(kind)
  PROVE  faults' \in 0 .. MaxFaults
BY DEF Fault, TypeOK

(* What a reader has open, or a publisher wrote, is an entry. *)
HeldEntries == \A p \in Proc : pc[p] \in Opened => disk[ino[p]] \in Entry

LEMMA ServeTypes ==
  ASSUME TypeOK, HeldEntries, NEW p \in Proc, ServeStep(p)
  PROVE  TypeOK'
<1>0. faults \in 0 .. MaxFaults
  BY DEF TypeOK
<1>1. CASE OpenEntry(p)
  <2>1. \A i \in At(Key(p)) : i \in Ino
    BY DEF At, TypeOK
  <2>2. PICK i \in Ino : ino' = [ino EXCEPT ![p] = i]
    BY <1>1, <2>1 DEF OpenEntry
  <2>3. pc' = [pc EXCEPT ![p] = "read"] /\ todo' = [todo EXCEPT ![p] = {}]
    BY <1>1 DEF OpenEntry, Goto
  <2>4. \A q \in Proc : ino'[q] # None <=> pc'[q] \in Holding
    BY <2>2, <2>3 DEF TypeOK, Holding, Opened
  <2>5. /\ pc' \in [Proc -> Steps] /\ todo' \in [Proc -> SUBSET File]
        /\ ino' \in [Proc -> Ino \cup {None}]
    BY <2>2, <2>3 DEF TypeOK, Steps
  <2>6. UNCHANGED <<fileVars, keyVars, made, which, reply, outVars, storeVars, faults>>
    BY <1>1 DEF OpenEntry
  <2>. QED BY <2>4, <2>5, <2>6 DEF TypeOK, Holding, fileVars, keyVars, outVars, storeVars
<1>2. CASE NoEntry(p)
  BY <1>0, <1>2, MissTypes DEF NoEntry, storeVars
<1>3. CASE Serve(p)
  <2>1. disk[ino[p]] \in Entry
    BY <1>3 DEF Serve, HeldEntries, Opened
  <2>2. disk[ino[p]].result \in ResultType
    BY <2>1 DEF Entry
  <2>. QED BY <1>0, <1>3, <2>2, FinishTypes DEF Serve
<1>4. CASE PassOver(p)
  BY <1>0, <1>4, MissTypes DEF PassOver, storeVars
<1>5. CASE FindDamage(p)
  BY <1>5 DEF FindDamage, Goto, TypeOK, Steps, Opened, fileVars, keyVars, outVars, storeVars
<1>6. CASE Relook(p)
  <2>1. CASE At(Key(p)) = {ino[p]}
    <3>1. Goto(p, "invalidate", {}) /\ pc[p] = "relook"
      BY <1>6, <2>1 DEF Relook
    <3>2. UNCHANGED <<fileVars, keyVars, made, which, ino, reply, outVars, storeVars, faults>>
      BY <1>6, <2>1 DEF Relook
    <3>. QED BY <3>1, <3>2, GotoTypes DEF Steps, Holding
  <2>2. CASE At(Key(p)) # {ino[p]}
    BY <1>0, <1>6, <2>2, MissTypes DEF Relook, storeVars
  <2>. QED BY <2>1, <2>2
<1>7. CASE Invalidate(p)
  BY <1>0, <1>7, MissTypes DEF Invalidate
<1>. QED BY <1>1, <1>2, <1>3, <1>4, <1>5, <1>6, <1>7 DEF ServeStep

LEMMA CompileTypes ==
  ASSUME TypeOK, NEW p \in Proc, CompileStep(p),
         pc[p] = "compile" => \A f \in File \ todo[p] : made[p][f] # None
  PROVE  TypeOK'
<1>0. faults \in 0 .. MaxFaults
  BY DEF TypeOK
<1>1. ASSUME NEW f \in File, CompileRead(p, f)
      PROVE  TypeOK'
  <2>1. faults' \in 0 .. MaxFaults
    BY <1>0, <1>1, FaultTypes DEF CompileRead
  <2>2. Absent \in Content /\ src[f] \in Content
    BY DEF TypeOK, Tree
  <2>3. /\ made' \in [Proc -> [File -> Content \cup {None}]]
        /\ had' \in [Proc -> [File -> SUBSET Content]]
    <3>1. \E c \in Content : made' = [made EXCEPT ![p][f] = c]
      BY <1>1, <2>2 DEF CompileRead
    <3>2. had' = had \/ had' = [had EXCEPT ![p][f] = @ \cup {Absent}]
      BY <1>1 DEF CompileRead
    <3>3. made' \in [Proc -> [File -> Content \cup {None}]]
      BY <3>1 DEF TypeOK
    <3>4. had' \in [Proc -> [File -> SUBSET Content]]
      <4>1. CASE had' = [had EXCEPT ![p] = [had[p] EXCEPT ![f] = had[p][f] \cup {Absent}]]
        <5>1. had[p] \in [File -> SUBSET Content] /\ had[p][f] \cup {Absent} \in SUBSET Content
          BY <2>2 DEF TypeOK
        <5>. QED BY <4>1, <5>1 DEF TypeOK
      <4>. QED BY <3>2, <4>1 DEF TypeOK
    <3>. QED BY <3>3, <3>4
  <2>4. /\ pc' = [pc EXCEPT ![p] = "compile"] /\ pc[p] = "compile"
        /\ todo' = [todo EXCEPT ![p] = todo[p] \ {f}]
        /\ UNCHANGED <<fileVars, keyVars, which, ino, reply, obj, verdict, storeVars>>
    BY <1>1 DEF CompileRead, Goto
  <2>5. pc' = pc /\ todo' \in [Proc -> SUBSET File]
    BY <2>4 DEF TypeOK
  <2>. QED BY <2>1, <2>3, <2>4, <2>5 DEF TypeOK, fileVars, keyVars, storeVars
<1>2. CASE EndCompile(p)
  <2>1. Result(made[p]) \in ResultType
    BY <1>2, ResultTyped DEF EndCompile, TypeOK
  <2>2. CASE text[p] # Unread /\ Entered(made[p]) = Entered(text[p])
    <3>1. /\ obj' = [obj EXCEPT ![p] = Result(made[p])]
          /\ pc' = [pc EXCEPT ![p] = "retext"] /\ todo' = [todo EXCEPT ![p] = File]
          /\ UNCHANGED <<fileVars, keyVars, made, which, ino, reply, verdict, had, storeVars, faults>>
          /\ pc[p] = "compile"
      BY <1>2, <2>2 DEF EndCompile, Goto
    <3>2. obj' \in [Proc -> ResultType] /\ pc' \in [Proc -> Steps] /\ todo' \in [Proc -> SUBSET File]
      BY <2>1, <3>1 DEF TypeOK, Steps
    <3>3. \A q \in Proc : ino'[q] # None <=> pc'[q] \in Holding
      BY <3>1 DEF TypeOK, Holding, Opened
    <3>. QED BY <3>1, <3>2, <3>3 DEF TypeOK, Holding, fileVars, keyVars, storeVars
  <2>3. CASE ~(text[p] # Unread /\ Entered(made[p]) = Entered(text[p]))
    BY <1>0, <1>2, <2>1, <2>3, FinishTypes DEF EndCompile
  <2>. QED BY <2>2, <2>3
<1>3. CASE EndRetext(p)
  BY <1>3 DEF EndRetext, Goto, TypeOK, Steps, Opened, fileVars, keyVars, outVars, storeVars, Entered
<1>4. CASE EndRefiles(p)
  BY <1>4 DEF EndRefiles, Goto, TypeOK, Steps, Opened, fileVars, keyVars, outVars, storeVars
<1>5. ASSUME NEW f \in File, Retext(p, f)
      PROVE  TypeOK'
  <2>1. CASE codeOf[src[f]] = codeOf[text[p][f]]
    <3>1. Goto(p, "retext", todo[p] \ {f}) /\ pc[p] = "retext" /\ todo[p] \ {f} \in SUBSET File
      BY <1>5, <2>1 DEF Retext, TypeOK
    <3>2. UNCHANGED <<fileVars, keyVars, made, which, ino, reply, outVars, storeVars, faults>>
      BY <1>5, <2>1 DEF Retext
    <3>. QED BY <3>1, <3>2, GotoTypes DEF Steps, Holding
  <2>2. CASE codeOf[src[f]] # codeOf[text[p][f]]
    BY <1>0, <1>5, <2>2, FinishTypes DEF Retext, TypeOK
  <2>. QED BY <2>1, <2>2
<1>6. ASSUME NEW f \in File, Refile(p, f)
      PROVE  TypeOK'
  <2>1. CASE stamp[f] = seen[p][f] /\ codeOf[src[f]] = codeOf[files[p][f]]
    <3>1. Goto(p, "refiles", todo[p] \ {f}) /\ pc[p] = "refiles" /\ todo[p] \ {f} \in SUBSET File
      BY <1>6, <2>1 DEF Refile, TypeOK
    <3>2. UNCHANGED <<fileVars, keyVars, made, which, ino, reply, outVars, storeVars, faults>>
      BY <1>6, <2>1 DEF Refile
    <3>. QED BY <3>1, <3>2, GotoTypes DEF Steps, Holding
  <2>2. CASE ~(stamp[f] = seen[p][f] /\ codeOf[src[f]] = codeOf[files[p][f]])
    BY <1>0, <1>6, <2>2, FinishTypes DEF Refile, TypeOK
  <2>. QED BY <2>1, <2>2
<1>. QED BY <1>1, <1>2, <1>3, <1>4, <1>5, <1>6 DEF CompileStep

LEMMA CodesTyped ==
  \A t \in Tree : CodesOf(t) \in [File -> {codeOf[c] : c \in Content} \cup {None}]
BY DEF CodesOf, Tree

LEMMA EntryTyped ==
  ASSUME TypeOK, NEW p \in Proc, text[p] \in Tree, files[p] \in Tree
  PROVE  EntryOf(p) \in Entry
<1>1. files[p] \in [File -> Content \cup {None}]
  BY DEF TypeOK
<1>2. /\ Plain(text[p], files[p]) \in KeyType
      /\ Whole(text[p], files[p]) \in KeyType
  BY <1>1, CodesTyped, UnreadTyped DEF Plain, Whole, KeyType
<1>3. NewKey(p) \in KeyType
  BY <1>2 DEF NewKey, PublishKey
<1>4. obj[p] \in ResultType
  BY DEF TypeOK
<1>. QED BY <1>3, <1>4 DEF EntryOf, Entry

LEMMA PublishTypes ==
  ASSUME TypeOK, HeldEntries, NEW p \in Proc, PublishStep(p),
         pc[p] = "publish" => text[p] \in Tree /\ files[p] \in Tree
  PROVE  TypeOK'
<1>0. faults \in 0 .. MaxFaults
  BY DEF TypeOK
<1>1. CASE AlreadyThere(p)
  BY <1>0, <1>1, FinishTypes DEF AlreadyThere, TypeOK
<1>2. CASE WriteTemp(p)
  <2>1. EntryOf(p) \in Entry
    BY <1>2, EntryTyped DEF WriteTemp
  <2>2. PICK i \in Ino : ino' = [ino EXCEPT ![p] = i] /\ disk' = [disk EXCEPT ![i] = EntryOf(p)]
    BY <1>2 DEF WriteTemp, Free
  <2>3. /\ pc' = [pc EXCEPT ![p] = "sync"] /\ todo' = [todo EXCEPT ![p] = {}]
        /\ UNCHANGED <<fileVars, keyVars, made, which, reply, outVars, linked, faults>>
    BY <1>2 DEF WriteTemp, Goto
  <2>4. /\ disk' \in [Ino -> Entry \cup {None}]
        /\ linked' \subseteq {j \in Ino : disk'[j] \in Entry}
    BY <2>1, <2>2, <2>3 DEF TypeOK
  <2>5. \A q \in Proc : ino'[q] # None <=> pc'[q] \in Holding
    BY <2>2, <2>3 DEF TypeOK, Holding, Opened
  <2>6. /\ pc' \in [Proc -> Steps] /\ todo' \in [Proc -> SUBSET File]
        /\ ino' \in [Proc -> Ino \cup {None}]
    BY <2>2, <2>3 DEF TypeOK, Steps
  <2>. QED BY <2>3, <2>4, <2>5, <2>6 DEF TypeOK, Holding, fileVars, keyVars, outVars
<1>3. CASE Sync(p)
  <2>0. pc[p] = "sync"
    BY <1>3 DEF Sync
  <2>1. disk[ino[p]] \in Entry /\ ino[p] \in Ino
    BY <2>0 DEF HeldEntries, Opened, TypeOK
  <2>2. /\ disk' = [disk EXCEPT ![ino[p]] = [disk[ino[p]] EXCEPT !.state = "synced"]]
        /\ pc' = [pc EXCEPT ![p] = "link"] /\ todo' = [todo EXCEPT ![p] = {}] /\ pc[p] = "sync"
        /\ UNCHANGED <<fileVars, keyVars, made, which, ino, reply, outVars, linked, faults>>
    BY <1>3 DEF Sync, Goto
  <2>3. [disk[ino[p]] EXCEPT !.state = "synced"] \in Entry
    BY <2>1 DEF Entry
  <2>4. /\ disk' \in [Ino -> Entry \cup {None}]
        /\ linked' \subseteq {j \in Ino : disk'[j] \in Entry}
    BY <2>1, <2>2, <2>3 DEF TypeOK
  <2>5. \A q \in Proc : ino'[q] # None <=> pc'[q] \in Holding
    BY <2>2 DEF TypeOK, Holding, Opened
  <2>6. pc' \in [Proc -> Steps] /\ todo' \in [Proc -> SUBSET File]
    BY <2>2 DEF TypeOK, Steps
  <2>. QED BY <2>2, <2>4, <2>5, <2>6 DEF TypeOK, Holding, fileVars, keyVars, outVars
<1>4. CASE Link(p)
  <2>0. pc[p] = "link"
    BY <1>4 DEF Link
  <2>1. disk[ino[p]] \in Entry /\ ino[p] \in Ino
    BY <2>0 DEF HeldEntries, Opened, TypeOK
  <2>2. /\ pc' = [pc EXCEPT ![p] = "verdict"] /\ todo' = [todo EXCEPT ![p] = {}] /\ pc[p] = "link"
        /\ UNCHANGED <<fileVars, keyVars, made, which, ino, outVars, disk>>
    BY <1>4 DEF Link, Goto
  <2>3. linked' \subseteq {j \in Ino : disk'[j] \in Entry}
    <3>1. linked' = linked \/ linked' = linked \cup {ino[p]}
      BY <1>4 DEF Link
    <3>2. linked \subseteq {j \in Ino : disk[j] \in Entry} /\ disk' = disk
      BY <2>2 DEF TypeOK
    <3>. QED BY <2>1, <3>1, <3>2
  <2>4. reply' \in [Proc -> {"none", "ok", "exists"}] /\ faults' \in 0 .. MaxFaults
    BY <1>4, <1>0, FaultTypes DEF Link, TypeOK
  <2>5. \A q \in Proc : ino'[q] # None <=> pc'[q] \in Holding
    BY <2>2 DEF TypeOK, Holding, Opened
  <2>6. pc' \in [Proc -> Steps] /\ todo' \in [Proc -> SUBSET File]
    BY <2>2 DEF TypeOK, Steps
  <2>. QED BY <2>2, <2>3, <2>4, <2>5, <2>6 DEF TypeOK, Holding, fileVars, keyVars, outVars
<1>5. CASE Verdict(p)
  BY <1>0, <1>5, FinishTypes DEF Verdict, TypeOK
<1>. QED BY <1>1, <1>2, <1>3, <1>4, <1>5 DEF PublishStep

LEMMA FailTypes ==
  ASSUME TypeOK, NEW p \in Proc, Fail(p)
  PROVE  TypeOK'
<1>1. CASE ReadFails(p)
  BY <1>1, FaultTypes, MissTypes DEF ReadFails, storeVars
<1>2. CASE CompileFails(p)
  BY <1>2, FaultTypes, ForgetTypes DEF CompileFails
<1>3. CASE PublishFails(p)
  BY <1>3, FaultTypes, FinishTypes DEF PublishFails, TypeOK
<1>4. CASE Die(p)
  BY <1>4, FaultTypes, ForgetTypes DEF Die
<1>. QED BY <1>1, <1>2, <1>3, <1>4 DEF Fail

(* Entries are changed in their state only, by a crash or decay. *)
LEMMA EnvironmentTypes ==
  ASSUME TypeOK, Environment
  PROVE  TypeOK'
<1>1. ASSUME NEW f \in File, NEW c \in Content, Edit(f, c)
      PROVE  TypeOK'
  <2>1. src' \in Tree /\ stamp' \in [File -> 0 .. MaxEdits]
    BY <1>1 DEF Edit, TypeOK, Tree
  <2>2. had' \in [Proc -> [File -> SUBSET Content]]
    BY <1>1 DEF Edit, TypeOK
  <2>3. UNCHANGED <<pc, todo, keyVars, made, which, ino, reply, obj, verdict, storeVars, faults>>
    BY <1>1 DEF Edit
  <2>. QED BY <2>1, <2>2, <2>3 DEF TypeOK, keyVars, storeVars
<1>2. CASE PowerLoss
  <2>1. \A i \in linked : [disk[i] EXCEPT !.state = "torn"] \in Entry
    <3>1. \A e \in Entry : [e EXCEPT !.state = "torn"] \in Entry
      BY DEF Entry
    <3>. QED BY <3>1 DEF TypeOK
  <2>2. /\ disk' \in [Ino -> Entry \cup {None}]
        /\ linked' = linked
        /\ \A i \in linked : disk'[i] \in Entry
    BY <1>2, <2>1 DEF PowerLoss, TypeOK
  <2>3. faults' \in 0 .. MaxFaults
    BY <1>2, FaultTypes DEF PowerLoss
  <2>4. PICK P \in SUBSET Proc :
          Forget(P, "idle") /\ UNCHANGED <<fileVars, obj, verdict, linked>>
    BY <1>2 DEF PowerLoss
  <2>5. /\ pc' \in [Proc -> Steps] /\ todo' \in [Proc -> SUBSET File]
        /\ text' \in [Proc -> [File -> Content \cup {None}]]
        /\ files' \in [Proc -> [File -> Content \cup {None}]]
        /\ seen' \in [Proc -> [File -> (0 .. MaxEdits) \cup {None}]]
        /\ made' \in [Proc -> [File -> Content \cup {None}]]
    BY <2>4, UnreadTyped DEF Forget, TypeOK, Steps
  <2>6. /\ which' \in [Proc -> {"plain", "whole"}] /\ ino' \in [Proc -> Ino \cup {None}]
        /\ reply' \in [Proc -> {"none", "ok", "exists"}]
        /\ had' \in [Proc -> [File -> SUBSET Content]]
    BY <2>4 DEF Forget, TypeOK
  <2>7. \A q \in Proc : ino'[q] # None <=> pc'[q] \in Opened \cup {"relook", "invalidate"}
    BY <2>4 DEF Forget, TypeOK, Opened
  <2>8. src' = src /\ stamp' = stamp /\ obj' = obj /\ verdict' = verdict
    BY <2>4 DEF fileVars
  <2>. QED BY <2>2, <2>3, <2>5, <2>6, <2>7, <2>8 DEF TypeOK
<1>3. ASSUME NEW i \in Ino, Rot(i)
      PROVE  TypeOK'
  <2>1. /\ i \in linked /\ disk' = [disk EXCEPT ![i] = [disk[i] EXCEPT !.state = "rotten"]]
        /\ UNCHANGED <<fileVars, pc, todo, keyVars, made, which, ino, reply, outVars, linked>>
    BY <1>3 DEF Rot
  <2>2. [disk[i] EXCEPT !.state = "rotten"] \in Entry
    <3>1. \A e \in Entry : [e EXCEPT !.state = "rotten"] \in Entry
      BY DEF Entry
    <3>. QED BY <2>1, <3>1 DEF TypeOK
  <2>3. /\ disk' \in [Ino -> Entry \cup {None}]
        /\ linked' \subseteq {j \in Ino : disk'[j] \in Entry}
    BY <2>1, <2>2 DEF TypeOK
  <2>4. faults' \in 0 .. MaxFaults
    BY <1>3, FaultTypes DEF Rot
  <2>. QED BY <2>1, <2>3, <2>4 DEF TypeOK, fileVars, keyVars, outVars
<1>4. ASSUME NEW i \in Ino, Collect(i)
      PROVE  TypeOK'
  <2>1. faults' \in 0 .. MaxFaults
    BY <1>4, FaultTypes DEF Collect
  <2>. QED BY <1>4, <2>1 DEF Collect, TypeOK, fileVars, keyVars, outVars
<1>. QED BY <1>1, <1>2, <1>3, <1>4 DEF Environment

-----------------------------------------------------------------------------
(* What a wrapper knows.  A step of one leaves what the others know alone.  *)

Frame(q) ==
  /\ UNCHANGED fileVars
  /\ pc'[q] = pc[q] /\ todo'[q] = todo[q] /\ text'[q] = text[q]
  /\ files'[q] = files[q] /\ seen'[q] = seen[q] /\ made'[q] = made[q]
  /\ obj'[q] = obj[q] /\ had'[q] = had[q]

LEMMA FrameKeeps ==
  ASSUME NEW q \in Proc, Frame(q), KeyInv(q), MadeInv(q)
  PROVE  KeyInv(q)' /\ MadeInv(q)'
<1>1. /\ src' = src /\ stamp' = stamp /\ pc'[q] = pc[q] /\ todo'[q] = todo[q]
      /\ text'[q] = text[q] /\ files'[q] = files[q] /\ seen'[q] = seen[q]
      /\ made'[q] = made[q] /\ obj'[q] = obj[q] /\ had'[q] = had[q]
  BY DEF Frame, fileVars
<1>2. (Keyed(q)' <=> Keyed(q)) /\ (Asked(q)' <=> Asked(q))
  BY <1>1 DEF Keyed, Asked
<1>3. Entered(text[q])' = Entered(text[q]) /\ Entered(made[q])' = Entered(made[q])
  BY <1>1 DEF Entered
<1>4. \A f \in File : Unmoved(q, f)' <=> Unmoved(q, f)
  BY <1>1 DEF Unmoved
<1>5. \A f \in File : Looked(q, f)' <=> Looked(q, f)
  BY <1>1, <1>3, <1>4 DEF Looked
<1>6. Result(made[q])' = Result(made[q])
  BY <1>1 DEF Result, CodesOf, Speaks
<1>7. CodesOf(text[q])' = CodesOf(text[q]) /\ CodesOf(files[q])' = CodesOf(files[q])
  BY <1>1 DEF CodesOf
<1>8. KeyInv(q)'
  BY <1>1, <1>2, <1>3, <1>5 DEF KeyInv, Unread
<1>9. MadeInv(q)'
  <2>1. Entered(text[q]) \subseteq File
    BY DEF Entered
  <2>. QED BY <1>1, <1>2, <1>3, <1>4, <1>6, <1>7, <2>1 DEF MadeInv
<1>. QED BY <1>8, <1>9

LEMMA FinishFrames ==
  ASSUME TypeOK, NEW P \in SUBSET Proc, NEW step, Forget(P, step), UNCHANGED fileVars,
         NEW q \in Proc \ P, obj'[q] = obj[q]
  PROVE  Frame(q)
BY DEF Forget, Frame

LEMMA OneFinishFrames ==
  ASSUME TypeOK, NEW p \in Proc, NEW o, NEW v, Finish(p, o, v), UNCHANGED fileVars,
         NEW q \in Proc \ {p}
  PROVE  Frame(q)
<1>1. obj'[q] = obj[q]
  BY DEF Finish, TypeOK
<1>. QED BY <1>1, FinishFrames DEF Finish

LEMMA GotoFrames ==
  ASSUME TypeOK, NEW p \in Proc, NEW step, NEW pass, Goto(p, step, pass),
         UNCHANGED <<fileVars, text, files, seen, made, obj, had>>, NEW q \in Proc \ {p}
  PROVE  Frame(q)
BY DEF Goto, Frame, TypeOK

LEMMA MissFrames ==
  ASSUME TypeOK, NEW p \in Proc, Miss(p) \/ LookWhole(p),
         UNCHANGED <<fileVars, text, files, seen, made, obj, had>>, NEW q \in Proc \ {p}
  PROVE  Frame(q)
<1>1. CASE Miss(p)
  BY <1>1, GotoFrames DEF Miss
<1>2. CASE LookWhole(p)
  BY <1>2, GotoFrames DEF LookWhole
<1>. QED BY <1>1, <1>2

LEMMA OthersKeep ==
  ASSUME TypeOK, NEW p \in Proc, Step(p) \/ Fail(p), NEW q \in Proc \ {p}
  PROVE  Frame(q)
<1>1. CASE KeyStep(p)
  BY <1>1 DEF KeyStep, Begin, EndText, Unkeyed, EndFiles, ReadText, StatFile, ReadFile,
              Goto, Frame, TypeOK, fileVars, keyVars, outVars
<1>2. CASE ServeStep(p)
  <2>1. CASE Serve(p)
    BY <2>1, OneFinishFrames DEF Serve
  <2>2. CASE OpenEntry(p) \/ FindDamage(p)
    BY <2>2, GotoFrames DEF OpenEntry, FindDamage, keyVars, outVars
  <2>3. CASE NoEntry(p) \/ PassOver(p) \/ Relook(p) \/ Invalidate(p)
    BY <2>3, GotoFrames, MissFrames DEF NoEntry, PassOver, Relook, Invalidate, keyVars, outVars
  <2>. QED BY <1>2, <2>1, <2>2, <2>3 DEF ServeStep
<1>3. CASE CompileStep(p)
  <2>1. CASE EndRetext(p) \/ EndRefiles(p)
    BY <2>1, GotoFrames DEF EndRetext, EndRefiles, keyVars, outVars
  <2>2. ASSUME NEW f \in File, CompileRead(p, f)
        PROVE  Frame(q)
    BY <2>2 DEF CompileRead, Goto, Frame, TypeOK, keyVars, fileVars
  <2>3. ASSUME NEW f \in File, Retext(p, f) \/ Refile(p, f)
        PROVE  Frame(q)
    <3>1. CASE Retext(p, f)
      BY <3>1, GotoFrames, OneFinishFrames DEF Retext, keyVars, outVars
    <3>2. CASE Refile(p, f)
      BY <3>2, GotoFrames, OneFinishFrames DEF Refile, keyVars, outVars
    <3>. QED BY <2>3, <3>1, <3>2
  <2>4. CASE EndCompile(p)
    <3>1. CASE text[p] # Unread /\ Entered(made[p]) = Entered(text[p])
      BY <2>4, <3>1 DEF EndCompile, Goto, Frame, TypeOK, keyVars, fileVars
    <3>2. CASE ~(text[p] # Unread /\ Entered(made[p]) = Entered(text[p]))
      BY <2>4, <3>2, OneFinishFrames DEF EndCompile
    <3>. QED BY <3>1, <3>2
  <2>. QED BY <1>3, <2>1, <2>2, <2>3, <2>4 DEF CompileStep
<1>4. CASE PublishStep(p)
  <2>1. CASE AlreadyThere(p) \/ Verdict(p)
    BY <2>1, OneFinishFrames DEF AlreadyThere, Verdict
  <2>2. CASE WriteTemp(p) \/ Sync(p) \/ Link(p)
    BY <2>2, GotoFrames DEF WriteTemp, Sync, Link, keyVars, outVars
  <2>. QED BY <1>4, <2>1, <2>2 DEF PublishStep
<1>5. CASE Fail(p)
  <2>1. CASE ReadFails(p)
    BY <2>1, MissFrames DEF ReadFails, keyVars, outVars
  <2>2. CASE CompileFails(p) \/ Die(p)
    BY <2>2, FinishFrames DEF CompileFails, Die
  <2>3. CASE PublishFails(p)
    BY <2>3, OneFinishFrames DEF PublishFails
  <2>. QED BY <1>5, <2>1, <2>2, <2>3 DEF Fail
<1>. QED BY <1>1, <1>2, <1>3, <1>4, <1>5 DEF Step

-----------------------------------------------------------------------------
(* The step's own wrapper.                                                  *)

LEMMA EndedKnowsNothing ==
  ASSUME NEW p \in Proc, pc'[p] \in {"idle", "done"}, seen'[p] = Unread
  PROVE  KeyInv(p)' /\ MadeInv(p)'
<1>1. Unread' = Unread
  BY DEF Unread
<1>. QED BY <1>1 DEF KeyInv, MadeInv, Asked, Keyed, Late

(* A key once made is not touched until the wrapper ends. *)
LEMMA KeyStays ==
  ASSUME NEW p \in Proc, KeyInv(p), Keyed(p),
         UNCHANGED <<fileVars, keyVars>>,
         \A f \in File : had[p][f] \subseteq had'[p][f],
         pc'[p] \notin {"idle", "done", "text", "files"}
  PROVE  KeyInv(p)'
<1>1. /\ src' = src /\ stamp' = stamp
      /\ text'[p] = text[p] /\ files'[p] = files[p] /\ seen'[p] = seen[p]
  BY DEF fileVars, keyVars
<1>2. Entered(text[p])' = Entered(text[p]) /\ Entered(text[p]) \subseteq File
  BY <1>1 DEF Entered
<1>3. \A f \in File : Looked(p, f) => Looked(p, f)'
  BY <1>1, <1>2 DEF Looked, Unmoved
<1>4. Asked(p)
  BY DEF Keyed, Asked, Late
<1>. QED BY <1>1, <1>2, <1>3, <1>4 DEF KeyInv

LEMMA KeyStepKeeps ==
  ASSUME TypeOK, NEW p \in Proc, KeyStep(p), KeyInv(p), MadeInv(p)
  PROVE  KeyInv(p)' /\ MadeInv(p)'
<1>1. CASE Begin(p)
  <2>1. /\ pc'[p] = "text" /\ todo'[p] = File /\ src' = src /\ seen'[p] = seen[p]
        /\ had'[p] = [f \in File |-> {src[f]}] /\ pc[p] \in {"idle", "done"}
    BY <1>1 DEF Begin, Goto, TypeOK, fileVars, keyVars, Asked
  <2>2. seen'[p] = Unread /\ Unread' = Unread
    BY <2>1 DEF KeyInv, Unread
  <2>. QED BY <2>1, <2>2 DEF KeyInv, MadeInv, Asked, Keyed, Late
<1>2. ASSUME NEW f \in File, ReadText(p, f)
      PROVE  KeyInv(p)' /\ MadeInv(p)'
  <2>1. /\ pc[p] = "text" /\ pc'[p] = "text" /\ todo'[p] = todo[p] \ {f} /\ src' = src
        /\ seen'[p] = seen[p] /\ had'[p] = had[p]
        /\ text'[p] = [text[p] EXCEPT ![f] = src[f]]
    BY <1>2 DEF ReadText, Goto, TypeOK, fileVars, outVars
  <2>2. text[p] \in [File -> Content \cup {None}]
    BY DEF TypeOK
  <2>3. \A g \in File \ todo'[p] : text'[p][g] \in had'[p][g]
    BY <2>1, <2>2 DEF KeyInv, Asked
  <2>. QED BY <2>1, <2>3 DEF KeyInv, MadeInv, Asked, Keyed, Late
<1>3. CASE EndText(p)
  <2>1. /\ pc[p] = "text" /\ todo[p] = {} /\ pc'[p] = "files" /\ todo'[p] = Entered(text[p])
        /\ src' = src /\ text'[p] = text[p] /\ seen'[p] = seen[p] /\ had'[p] = had[p]
        /\ files'[p] = [f \in File |-> IF text[p][f] = Absent THEN Absent ELSE None]
    BY <1>3 DEF EndText, Goto, TypeOK, fileVars, outVars
  <2>2. Entered(text[p])' = Entered(text[p])
    BY <2>1 DEF Entered
  <2>3. \A f \in File : seen'[p][f] = None
    BY <2>1, UnreadTyped DEF KeyInv
  <2>4. \A f \in File : f \notin Entered(text[p]) => files'[p][f] = Absent
    BY <2>1 DEF Entered
  <2>. QED BY <2>1, <2>2, <2>3, <2>4 DEF KeyInv, MadeInv, Asked, Keyed, Late
<1>4. CASE Unkeyed(p)
  <2>1. /\ pc[p] \in {"text", "files"} /\ pc'[p] = "compile" /\ todo'[p] = File
        /\ src' = src /\ had'[p] = had[p] /\ text'[p] = Unread
    BY <1>4 DEF Unkeyed, Goto, TypeOK, fileVars, outVars
  <2>2. Unread' = Unread
    BY DEF Unread
  <2>. QED BY <2>1, <2>2 DEF KeyInv, MadeInv, Asked, Keyed, Late
<1>5. ASSUME NEW f \in File, StatFile(p, f)
      PROVE  KeyInv(p)' /\ MadeInv(p)'
  <2>1. /\ pc[p] = "files" /\ pc'[p] = "files" /\ todo'[p] = todo[p] /\ src' = src
        /\ stamp' = stamp /\ text'[p] = text[p] /\ had'[p] = had[p]
        /\ f \in todo[p] /\ src[f] # Absent
        /\ seen'[p] = [seen[p] EXCEPT ![f] = stamp[f]]
        /\ files'[p] = [files[p] EXCEPT ![f] = src[f]]
    BY <1>5 DEF StatFile, TypeOK, fileVars, outVars
  <2>2. /\ seen[p] \in [File -> 0 .. MaxEdits \cup {None}] /\ stamp[f] \in Nat
        /\ files[p] \in [File -> Content \cup {None}]
    BY DEF TypeOK
  <2>3. Entered(text[p])' = Entered(text[p]) /\ f \in Entered(text[p])
    BY <2>1 DEF Entered, KeyInv
  <2>4. Looked(p, f)'
    BY <2>1, <2>2, <2>3 DEF Looked, Unmoved, KeyInv, Asked
  <2>5. ASSUME NEW g \in File, g # f
        PROVE  /\ seen'[p][g] = seen[p][g] /\ files'[p][g] = files[p][g]
               /\ seen[p][g] # None => Looked(p, g)'
    <3>1. seen'[p][g] = seen[p][g] /\ files'[p][g] = files[p][g]
      BY <2>1, <2>2, <2>5
    <3>2. seen[p][g] # None => Looked(p, g)
      BY <2>1 DEF KeyInv
    <3>. QED BY <2>1, <2>3, <3>1, <3>2 DEF Looked, Unmoved
  <2>6. \A g \in File : /\ seen'[p][g] # None => Looked(p, g)'
                        /\ g \notin Entered(text[p]) => files'[p][g] = Absent
                        /\ g \in Entered(text[p]) \ todo[p] => seen'[p][g] # None
    BY <2>1, <2>2, <2>3, <2>4, <2>5 DEF KeyInv
  <2>. QED BY <2>1, <2>3, <2>6 DEF KeyInv, MadeInv, Asked, Keyed, Late
<1>6. ASSUME NEW f \in File, ReadFile(p, f)
      PROVE  KeyInv(p)' /\ MadeInv(p)'
  <2>1. PICK c \in {files[p][f], src[f]} \ {Absent} :
          files' = [files EXCEPT ![p] = [files[p] EXCEPT ![f] = c]]
    BY <1>6 DEF ReadFile
  <2>2. /\ pc[p] = "files" /\ pc'[p] = "files" /\ todo'[p] = todo[p] \ {f} /\ src' = src
        /\ stamp' = stamp /\ text'[p] = text[p] /\ had'[p] = had[p]
        /\ f \in todo[p] /\ seen[p][f] # None /\ seen'[p] = seen[p]
        /\ files'[p] = [files[p] EXCEPT ![f] = c]
    BY <1>6, <2>1 DEF ReadFile, Goto, TypeOK, fileVars, outVars
  <2>3. files[p] \in [File -> Content \cup {None}]
    BY DEF TypeOK
  <2>4. Entered(text[p])' = Entered(text[p]) /\ f \in Entered(text[p])
    BY <2>2 DEF Entered, KeyInv
  <2>5. Looked(p, f) /\ src[f] \in had[p][f]
    BY <2>2 DEF KeyInv, Asked
  <2>6. Looked(p, f)'
    BY <2>2, <2>3, <2>4, <2>5 DEF Looked, Unmoved
  <2>7. ASSUME NEW g \in File, g # f
        PROVE  /\ files'[p][g] = files[p][g]
               /\ seen[p][g] # None => Looked(p, g)'
    <3>1. files'[p][g] = files[p][g]
      BY <2>2, <2>3, <2>7
    <3>2. seen[p][g] # None => Looked(p, g)
      BY <2>2 DEF KeyInv
    <3>. QED BY <2>2, <2>4, <3>1, <3>2 DEF Looked, Unmoved
  <2>8. \A g \in File : /\ seen'[p][g] # None => Looked(p, g)'
                        /\ g \notin Entered(text[p]) => files'[p][g] = Absent
                        /\ g \in Entered(text[p]) \ todo'[p] => seen'[p][g] # None
    BY <2>2, <2>3, <2>4, <2>6, <2>7 DEF KeyInv
  <2>. QED BY <2>2, <2>4, <2>8 DEF KeyInv, MadeInv, Asked, Keyed, Late
<1>7. CASE EndFiles(p)
  <2>1. /\ pc[p] = "files" /\ pc'[p] = "open" /\ todo[p] = {}
        /\ UNCHANGED <<fileVars, keyVars>> /\ had' = had
    BY <1>7 DEF EndFiles, Goto, TypeOK, outVars
  <2>2. /\ src' = src /\ stamp' = stamp
        /\ text'[p] = text[p] /\ files'[p] = files[p] /\ seen'[p] = seen[p]
    BY <2>1 DEF fileVars, keyVars
  <2>3. Entered(text[p])' = Entered(text[p])
    BY <2>2 DEF Entered
  <2>4. \A f \in File : Looked(p, f) => Looked(p, f)'
    BY <2>1, <2>2, <2>3 DEF Looked, Unmoved
  <2>. QED BY <2>1, <2>2, <2>3, <2>4 DEF KeyInv, MadeInv, Asked, Keyed, Late
<1>. QED BY <1>1, <1>2, <1>3, <1>4, <1>5, <1>6, <1>7 DEF KeyStep

LEMMA ServeStepKeeps ==
  ASSUME TypeOK, NEW p \in Proc, ServeStep(p), KeyInv(p), MadeInv(p)
  PROVE  KeyInv(p)' /\ MadeInv(p)'
<1>1. CASE Serve(p)
  <2>1. pc'[p] = "done" /\ seen'[p] = Unread
    BY <1>1 DEF Serve, Finish, Forget
  <2>. QED BY <2>1, EndedKnowsNothing
<1>2. CASE ~Serve(p)
  <2>1. /\ UNCHANGED <<fileVars, keyVars>> /\ had' = had
        /\ pc[p] \in {"open", "read", "relook", "invalidate"}
        /\ \/ pc'[p] \in {"open", "read", "relook", "invalidate"}
           \/ pc'[p] = "compile" /\ todo'[p] = File
    BY <1>2 DEF ServeStep, OpenEntry, NoEntry, PassOver, FindDamage, Relook, Invalidate,
                Miss, LookWhole, Goto, TypeOK, outVars
  <2>2. KeyInv(p)'
    BY <2>1, KeyStays DEF Keyed
  <2>3. MadeInv(p)'
    BY <2>1 DEF MadeInv, Late
  <2>. QED BY <2>2, <2>3
<1>. QED BY <1>1, <1>2

LEMMA PublishStepKeeps ==
  ASSUME TypeOK, NEW p \in Proc, PublishStep(p), KeyInv(p), MadeInv(p)
  PROVE  KeyInv(p)' /\ MadeInv(p)'
<1>1. CASE AlreadyThere(p) \/ Verdict(p)
  <2>1. pc'[p] = "done" /\ seen'[p] = Unread
    BY <1>1 DEF AlreadyThere, Verdict, Finish, Forget
  <2>. QED BY <2>1, EndedKnowsNothing
<1>2. CASE WriteTemp(p) \/ Sync(p) \/ Link(p)
  <2>1. /\ UNCHANGED <<fileVars, keyVars, made, outVars>>
        /\ pc[p] \in {"publish", "sync", "link"} /\ pc'[p] \in {"sync", "link", "verdict"}
    BY <1>2 DEF WriteTemp, Sync, Link, Goto, TypeOK
  <2>2. KeyInv(p)'
    BY <2>1, KeyStays DEF Keyed, Late, outVars
  <2>3. /\ stamp' = stamp /\ text'[p] = text[p] /\ files'[p] = files[p] /\ seen'[p] = seen[p]
        /\ made'[p] = made[p] /\ obj'[p] = obj[p] /\ had'[p] = had[p]
    BY <2>1 DEF fileVars, keyVars, outVars
  <2>4. /\ Entered(text[p])' = Entered(text[p]) /\ Entered(made[p])' = Entered(made[p])
        /\ Result(made[p])' = Result(made[p])
        /\ CodesOf(text[p])' = CodesOf(text[p]) /\ CodesOf(files[p])' = CodesOf(files[p])
    BY <2>3 DEF Entered, Result, CodesOf, Speaks
  <2>5. \A f \in File : Unmoved(p, f)' <=> Unmoved(p, f)
    BY <2>3 DEF Unmoved
  <2>6. MadeInv(p)'
    <3>1. Entered(text[p]) \subseteq File
      BY DEF Entered
    <3>. QED BY <2>1, <2>3, <2>4, <2>5, <3>1 DEF MadeInv, Late
  <2>. QED BY <2>2, <2>6
<1>. QED BY <1>1, <1>2 DEF PublishStep

LEMMA CompileStepKeeps ==
  ASSUME TypeOK, NEW p \in Proc, CompileStep(p), KeyInv(p), MadeInv(p)
  PROVE  KeyInv(p)' /\ MadeInv(p)'
<1>0. /\ Entered(text[p]) \subseteq File /\ made[p] \in [File -> Content \cup {None}]
      /\ had[p] \in [File -> SUBSET Content]
  BY DEF Entered, TypeOK
<1>1. ASSUME pc'[p] = "done", seen'[p] = Unread
      PROVE  KeyInv(p)' /\ MadeInv(p)'
  BY <1>1, EndedKnowsNothing
<1>2. ASSUME NEW f \in File, CompileRead(p, f)
      PROVE  KeyInv(p)' /\ MadeInv(p)'
  <2>1. /\ UNCHANGED <<fileVars, keyVars>> /\ pc[p] = "compile" /\ pc'[p] = "compile"
        /\ todo'[p] = todo[p] \ {f} /\ f \in todo[p]
    BY <1>2 DEF CompileRead, Goto, TypeOK
  <2>2. \/ had'[p] = had[p] /\ made'[p] = [made[p] EXCEPT ![f] = src[f]]
        \/ /\ had'[p] = [had[p] EXCEPT ![f] = had[p][f] \cup {Absent}]
           /\ made'[p] = [made[p] EXCEPT ![f] = Absent]
    <3>1. \/ had' = had /\ made' = [made EXCEPT ![p] = [made[p] EXCEPT ![f] = src[f]]]
          \/ /\ had' = [had EXCEPT ![p] = [had[p] EXCEPT ![f] = had[p][f] \cup {Absent}]]
             /\ made' = [made EXCEPT ![p] = [made[p] EXCEPT ![f] = Absent]]
      BY <1>2 DEF CompileRead
    <3>2. had \in [Proc -> [File -> SUBSET Content]] /\ made \in [Proc -> [File -> Content \cup {None}]]
      BY DEF TypeOK
    <3>. QED BY <3>1, <3>2
  <2>3. \A g \in File : had[p][g] \subseteq had'[p][g]
    BY <1>0, <2>2
  <2>4. src[f] \in had[p][f]
    BY <2>1 DEF KeyInv, Asked
  <2>5. /\ made'[p][f] \in had'[p][f] /\ made'[p][f] \in {src[f], Absent}
        /\ \A g \in File : g # f => made'[p][g] = made[p][g]
    BY <1>0, <2>2, <2>4
  <2>6. /\ src' = src /\ stamp' = stamp
        /\ text'[p] = text[p] /\ files'[p] = files[p] /\ seen'[p] = seen[p]
    BY <2>1 DEF fileVars, keyVars
  <2>7. /\ Entered(text[p])' = Entered(text[p]) /\ Unread' = Unread
        /\ \A g \in File : Looked(p, g) => Looked(p, g)'
        /\ \A g \in File : Unmoved(p, g)' <=> Unmoved(p, g)
    BY <2>3, <2>6 DEF Entered, Looked, Unmoved, Unread
  <2>8. KeyInv(p)'
    BY <2>1, <2>3, <2>6, <2>7 DEF KeyInv, Asked, Keyed, Late
  <2>9. ASSUME Keyed(p), f \in Entered(text[p]), Unmoved(p, f)
        PROVE  src[f] = files[p][f]
    BY <2>9 DEF KeyInv, Looked
  <2>10. Keyed(p)' <=> Keyed(p)
    BY <2>1, <2>6, <2>7 DEF Keyed, Late
  <2>11. \A g \in File \ todo'[p] :
           /\ made'[p][g] \in had'[p][g]
           /\ Keyed(p) /\ g \in Entered(text[p]) /\ Unmoved(p, g) /\ made'[p][g] # Absent
                => made'[p][g] = files[p][g]
    BY <2>1, <2>3, <2>5, <2>9 DEF MadeInv
  <2>12. MadeInv(p)'
    BY <2>1, <2>6, <2>7, <2>10, <2>11 DEF MadeInv, Late
  <2>. QED BY <2>8, <2>12
<1>3. CASE EndCompile(p)
  <2>1. CASE ~(text[p] # Unread /\ Entered(made[p]) = Entered(text[p]))
    BY <1>1, <1>3, <2>1 DEF EndCompile, Finish, Forget
  <2>2. CASE text[p] # Unread /\ Entered(made[p]) = Entered(text[p])
    <3>1. /\ UNCHANGED <<fileVars, keyVars, made, had>> /\ pc[p] = "compile" /\ pc'[p] = "retext"
          /\ todo[p] = {} /\ todo'[p] = File /\ obj'[p] = Result(made[p])
      BY <1>3, <2>2 DEF EndCompile, Goto, TypeOK
    <3>2. Keyed(p)
      BY <2>2, <3>1 DEF Keyed
    <3>3. KeyInv(p)'
      BY <3>1, <3>2, KeyStays
    <3>4. \A f \in Entered(text[p]) : made[p][f] # Absent
      BY <2>2 DEF Entered
    <3>5. /\ \A f \in File : made[p][f] \in had[p][f]
          /\ \A f \in Entered(text[p]) : Unmoved(p, f) => made[p][f] = files[p][f]
      BY <1>0, <3>1, <3>2, <3>4 DEF MadeInv
    <3>6. /\ stamp' = stamp /\ text'[p] = text[p] /\ files'[p] = files[p] /\ seen'[p] = seen[p]
          /\ made'[p] = made[p] /\ had'[p] = had[p]
      BY <3>1 DEF fileVars, keyVars
    <3>7. /\ Entered(text[p])' = Entered(text[p]) /\ Entered(made[p])' = Entered(made[p])
          /\ Result(made[p])' = Result(made[p])
          /\ \A f \in File : Unmoved(p, f)' <=> Unmoved(p, f)
      BY <3>6 DEF Entered, Result, CodesOf, Speaks, Unmoved
    <3>8. MadeInv(p)'
      BY <1>0, <2>2, <3>1, <3>5, <3>6, <3>7 DEF MadeInv, Late
    <3>. QED BY <3>3, <3>8
  <2>. QED BY <2>1, <2>2
<1>4. ASSUME pc[p] \in {"retext", "refiles"}, pc'[p] \in {"retext", "refiles", "publish"},
             UNCHANGED <<fileVars, keyVars, made, obj, had>>
      PROVE  /\ KeyInv(p)'
             /\ text'[p] = text[p] /\ files'[p] = files[p] /\ made'[p] = made[p]
             /\ Entered(text[p])' = Entered(text[p])
             /\ \A f \in File : Unmoved(p, f)' <=> Unmoved(p, f)
             /\ \A f \in File : made'[p][f] \in had'[p][f]
             /\ Entered(made'[p]) = Entered(text'[p]) /\ obj'[p] = Result(made[p])'
             /\ \A f \in Entered(text[p]) : Unmoved(p, f) => made[p][f] = files[p][f]
  <2>1. KeyInv(p)'
    BY <1>4, KeyStays DEF Keyed, Late
  <2>2. /\ stamp' = stamp /\ text'[p] = text[p] /\ files'[p] = files[p] /\ seen'[p] = seen[p]
        /\ made'[p] = made[p] /\ had'[p] = had[p] /\ obj'[p] = obj[p]
    BY <1>4 DEF fileVars, keyVars
  <2>3. /\ Entered(text[p])' = Entered(text[p]) /\ Entered(made[p])' = Entered(made[p])
        /\ Result(made[p])' = Result(made[p])
        /\ \A f \in File : Unmoved(p, f)' <=> Unmoved(p, f)
    BY <2>2 DEF Entered, Result, CodesOf, Speaks, Unmoved
  <2>. QED BY <1>4, <2>1, <2>2, <2>3 DEF MadeInv, Late
<1>5. ASSUME NEW f \in File, Retext(p, f)
      PROVE  KeyInv(p)' /\ MadeInv(p)'
  <2>1. CASE codeOf[src[f]] # codeOf[text[p][f]]
    BY <1>1, <1>5, <2>1 DEF Retext, Finish, Forget
  <2>2. CASE codeOf[src[f]] = codeOf[text[p][f]]
    <3>1. /\ pc[p] = "retext" /\ pc'[p] = "retext" /\ todo'[p] = todo[p] \ {f} /\ f \in todo[p]
          /\ UNCHANGED <<fileVars, keyVars, made, obj, had>>
      BY <1>5, <2>2 DEF Retext, Goto, TypeOK, outVars
    <3>2. f \in Entered(text[p]) /\ Unmoved(p, f) => src[f] = files[p][f]
      BY <3>1 DEF KeyInv, Keyed, Late, Looked
    <3>3. \A g \in Entered(text[p]) \ todo'[p] :
            Unmoved(p, g) => codeOf[text[p][g]] = codeOf[files[p][g]]
      BY <2>2, <3>1, <3>2 DEF MadeInv
    <3>. QED BY <1>0, <1>4, <3>1, <3>3 DEF MadeInv, Late
  <2>. QED BY <2>1, <2>2
<1>6. CASE EndRetext(p)
  <2>1. /\ pc[p] = "retext" /\ pc'[p] = "refiles" /\ todo'[p] = Entered(text[p]) /\ todo[p] = {}
        /\ UNCHANGED <<fileVars, keyVars, made, obj, had>>
    BY <1>6 DEF EndRetext, Goto, TypeOK, outVars
  <2>2. \A g \in Entered(text[p]) :
          Unmoved(p, g) => codeOf[text[p][g]] = codeOf[files[p][g]]
    BY <2>1 DEF MadeInv
  <2>. QED BY <1>0, <1>4, <2>1, <2>2 DEF MadeInv, Late
<1>7. ASSUME NEW f \in File, Refile(p, f)
      PROVE  KeyInv(p)' /\ MadeInv(p)'
  <2>1. CASE ~(stamp[f] = seen[p][f] /\ codeOf[src[f]] = codeOf[files[p][f]])
    BY <1>1, <1>7, <2>1 DEF Refile, Finish, Forget
  <2>2. CASE stamp[f] = seen[p][f] /\ codeOf[src[f]] = codeOf[files[p][f]]
    <3>1. /\ pc[p] = "refiles" /\ pc'[p] = "refiles" /\ todo'[p] = todo[p] \ {f} /\ f \in todo[p]
          /\ UNCHANGED <<fileVars, keyVars, made, obj, had>>
      BY <1>7, <2>2 DEF Refile, Goto, TypeOK, outVars
    <3>2. Unmoved(p, f)
      BY <2>2 DEF Unmoved
    <3>3. \A g \in Entered(text[p]) : /\ Unmoved(p, g) => codeOf[text[p][g]] = codeOf[files[p][g]]
                                      /\ Unmoved(p, g) => made[p][g] = files[p][g]
      BY <3>1 DEF MadeInv, Late
    <3>4. \A g \in Entered(text[p]) \ todo'[p] :
            made[p][g] = files[p][g] /\ codeOf[text[p][g]] = codeOf[files[p][g]]
      BY <3>1, <3>2, <3>3 DEF MadeInv
    <3>. QED BY <1>0, <1>4, <3>1, <3>3, <3>4 DEF MadeInv, Late
  <2>. QED BY <2>1, <2>2
<1>8. CASE EndRefiles(p)
  <2>1. /\ pc[p] = "refiles" /\ pc'[p] = "publish" /\ todo[p] = {}
        /\ UNCHANGED <<fileVars, keyVars, made, obj, had>>
    BY <1>8 DEF EndRefiles, Goto, TypeOK, outVars
  <2>2. \A f \in Entered(text[p]) :
          made[p][f] = files[p][f] /\ codeOf[text[p][f]] = codeOf[files[p][f]]
    BY <2>1 DEF MadeInv
  <2>3. ASSUME NEW f \in File, f \notin Entered(text[p])
        PROVE  made[p][f] = Absent /\ files[p][f] = Absent /\ text[p][f] = Absent
    <3>1. Entered(made[p]) = Entered(text[p])
      BY <2>1 DEF MadeInv, Late
    <3>2. files[p][f] = Absent
      BY <2>1, <2>3 DEF KeyInv, Keyed, Late
    <3>. QED BY <2>3, <3>1, <3>2 DEF Entered
  <2>4. made[p] = files[p]
    <3>1. files[p] \in [File -> Content \cup {None}]
      BY DEF TypeOK
    <3>. QED BY <1>0, <2>2, <2>3, <3>1
  <2>5. CodesOf(text[p]) = CodesOf(files[p])
    BY <2>2, <2>3 DEF CodesOf
  <2>6. /\ text'[p] = text[p] /\ files'[p] = files[p] /\ made'[p] = made[p]
        /\ CodesOf(text[p])' = CodesOf(text[p]) /\ CodesOf(files[p])' = CodesOf(files[p])
    BY <2>1 DEF keyVars, CodesOf
  <2>. QED BY <1>0, <1>4, <2>1, <2>4, <2>5, <2>6 DEF MadeInv, Late
<1>. QED BY <1>2, <1>3, <1>5, <1>6, <1>7, <1>8 DEF CompileStep

LEMMA FailKeeps ==
  ASSUME TypeOK, NEW p \in Proc, Fail(p), KeyInv(p), MadeInv(p)
  PROVE  KeyInv(p)' /\ MadeInv(p)'
<1>1. CASE ReadFails(p)
  <2>1. /\ UNCHANGED <<fileVars, keyVars>> /\ had' = had /\ pc[p] = "read"
        /\ pc'[p] = "compile" /\ todo'[p] = File
    BY <1>1 DEF ReadFails, Miss, Goto, TypeOK, outVars
  <2>2. KeyInv(p)'
    BY <2>1, KeyStays DEF Keyed
  <2>. QED BY <2>1, <2>2 DEF MadeInv, Late
<1>2. CASE CompileFails(p) \/ PublishFails(p) \/ Die(p)
  <2>1. pc'[p] \in {"idle", "done"} /\ seen'[p] = Unread
    BY <1>2 DEF CompileFails, PublishFails, Die, Finish, Forget
  <2>. QED BY <2>1, EndedKnowsNothing
<1>. QED BY <1>1, <1>2 DEF Fail

(* An edit moves the file's stamp: what was known of the file no longer     *)
(* counts, and what the file becomes is one more thing it has been.         *)
LEMMA EditKeeps ==
  ASSUME TypeOK, NEW g \in File, NEW c \in Content, Edit(g, c),
         NEW q \in Proc, KeyInv(q), MadeInv(q)
  PROVE  KeyInv(q)' /\ MadeInv(q)'
<1>1. /\ pc'[q] = pc[q] /\ todo'[q] = todo[q] /\ text'[q] = text[q]
      /\ files'[q] = files[q] /\ seen'[q] = seen[q] /\ made'[q] = made[q] /\ obj'[q] = obj[q]
  BY DEF Edit, keyVars
<1>2. CASE pc[q] \in {"idle", "done"}
  <2>1. seen'[q] = Unread
    BY <1>1, <1>2 DEF KeyInv
  <2>. QED BY <1>1, <1>2, <2>1, EndedKnowsNothing
<1>3. CASE pc[q] \notin {"idle", "done"}
  <2>1. Asked(q) /\ Asked(q)'
    BY <1>1, <1>3 DEF Asked
  <2>2. \A f \in File : had[q][f] \subseteq had'[q][f]
    BY <2>1 DEF Edit, TypeOK
  <2>3. \A f \in File : src'[f] \in had'[q][f]
    <3>1. c \in had'[q][g]
      BY <2>1 DEF Edit, TypeOK
    <3>2. \A f \in File : src'[f] = IF f = g THEN c ELSE src[f]
      BY DEF Edit, TypeOK, Tree
    <3>. QED BY <2>1, <2>2, <3>1, <3>2 DEF KeyInv
  <2>4. Entered(text[q])' = Entered(text[q]) /\ Entered(text[q]) \subseteq File
    BY <1>1 DEF Entered
  <2>5. \A f \in File : stamp[f] \in Nat /\ stamp'[f] = IF f = g THEN stamp[f] + 1 ELSE stamp[f]
    BY DEF Edit, TypeOK
  <2>6. \A f \in File : seen[q][f] # None => seen[q][f] \in Nat
    BY DEF TypeOK
  <2>7. ASSUME NEW f \in File, seen[q][f] # None, Looked(q, f)
        PROVE  Looked(q, f)' /\ (Unmoved(q, f)' => Unmoved(q, f))
    <3>1. seen[q][f] <= stamp[f] /\ seen[q][f] \in Nat
      BY <2>6, <2>7 DEF Looked
    <3>2. Unmoved(q, f)' => f # g /\ Unmoved(q, f)
      BY <1>1, <2>5, <3>1 DEF Unmoved
    <3>3. f # g => src'[f] = src[f]
      BY DEF Edit, TypeOK, Tree
    <3>4. seen'[q][f] <= stamp'[f]
      BY <1>1, <2>5, <3>1
    <3>. QED BY <1>1, <2>2, <2>4, <2>7, <3>2, <3>3, <3>4 DEF Looked
  <2>8. (Keyed(q)' <=> Keyed(q)) /\ Unread' = Unread
    BY <1>1 DEF Keyed, Unread
  <2>9. KeyInv(q)'
    <3>1. pc[q] = "text" => seen'[q] = Unread /\ \A f \in File \ todo[q] : text'[q][f] \in had'[q][f]
      BY <1>1, <2>2 DEF KeyInv
    <3>2. pc[q] = "files" \/ Keyed(q) => \A f \in File :
            /\ text'[q][f] \in had'[q][f]
            /\ f \notin Entered(text[q]) => files'[q][f] = Absent
            /\ seen'[q][f] # None => Looked(q, f)'
      BY <1>1, <2>2, <2>7 DEF KeyInv
    <3>. QED BY <1>1, <1>3, <2>3, <2>4, <2>8, <3>1, <3>2 DEF KeyInv
  <2>10. Keyed(q) => \A f \in Entered(text[q]) : Unmoved(q, f)' => Unmoved(q, f)
    BY <2>4, <2>7 DEF KeyInv
  <2>11. pc[q] \in Late => Keyed(q)
    BY DEF Keyed
  <2>12. /\ Entered(made[q])' = Entered(made[q]) /\ Result(made[q])' = Result(made[q])
         /\ CodesOf(text[q])' = CodesOf(text[q]) /\ CodesOf(files[q])' = CodesOf(files[q])
    BY <1>1 DEF Entered, Result, CodesOf, Speaks
  <2>13. MadeInv(q)'
    <3>1. pc[q] = "compile" => \A f \in File \ todo[q] :
            /\ made'[q][f] \in had'[q][f]
            /\ Keyed(q)' /\ f \in Entered(text[q])' /\ Unmoved(q, f)' /\ made'[q][f] # Absent
                 => made'[q][f] = files'[q][f]
      BY <1>1, <2>2, <2>4, <2>8, <2>10 DEF MadeInv
    <3>2. pc[q] \in Late =>
            /\ \A f \in File : made'[q][f] \in had'[q][f]
            /\ Entered(made[q])' = Entered(text[q])' /\ obj'[q] = Result(made[q])'
            /\ \A f \in Entered(text[q])' : Unmoved(q, f)' => made'[q][f] = files'[q][f]
      BY <1>1, <2>2, <2>4, <2>10, <2>11, <2>12 DEF MadeInv
    <3>3. pc[q] \in {"retext", "refiles"} =>
            \A f \in Entered(text[q])' : (pc[q] = "refiles" \/ f \notin todo[q]) /\ Unmoved(q, f)'
              => codeOf[text'[q][f]] = codeOf[files'[q][f]]
      BY <1>1, <2>4, <2>10, <2>11 DEF MadeInv, Late
    <3>4. pc[q] = "refiles" => \A f \in Entered(text[q])' \ todo[q] :
            made'[q][f] = files'[q][f] /\ codeOf[text'[q][f]] = codeOf[files'[q][f]]
      BY <1>1, <2>4 DEF MadeInv
    <3>5. pc[q] \in {"publish", "sync", "link", "verdict"} =>
            made'[q] = files'[q] /\ CodesOf(text[q])' = CodesOf(files[q])'
      BY <1>1, <2>12 DEF MadeInv
    <3>6. Late' = Late
      BY DEF Late
    <3>. QED BY <1>1, <3>1, <3>2, <3>3, <3>4, <3>5, <3>6 DEF MadeInv
  <2>. QED BY <2>9, <2>13
<1>. QED BY <1>2, <1>3

LEMMA EnvironmentKeeps ==
  ASSUME TypeOK, Environment, NEW q \in Proc, KeyInv(q), MadeInv(q)
  PROVE  KeyInv(q)' /\ MadeInv(q)'
<1>1. ASSUME NEW f \in File, NEW c \in Content, Edit(f, c)
      PROVE  KeyInv(q)' /\ MadeInv(q)'
  BY <1>1, EditKeeps
<1>2. CASE PowerLoss
  <2>1. CASE Asked(q)
    <3>1. pc'[q] = "idle" /\ seen'[q] = Unread
      BY <1>2, <2>1 DEF PowerLoss, Forget
    <3>. QED BY <3>1, EndedKnowsNothing
  <2>2. CASE ~Asked(q)
    <3>1. PICK P \in SUBSET Proc :
            q \notin P /\ Forget(P, "idle") /\ UNCHANGED fileVars /\ obj' = obj
      BY <1>2, <2>2 DEF PowerLoss
    <3>2. Frame(q)
      BY <3>1, FinishFrames
    <3>. QED BY <3>2, FrameKeeps
  <2>. QED BY <2>1, <2>2
<1>3. ASSUME NEW i \in Ino, Rot(i) \/ Collect(i)
      PROVE  KeyInv(q)' /\ MadeInv(q)'
  <2>1. Frame(q)
    BY <1>3 DEF Rot, Collect, Frame, keyVars, outVars
  <2>. QED BY <2>1, FrameKeeps
<1>. QED BY <1>1, <1>2, <1>3 DEF Environment
-----------------------------------------------------------------------------
(* The store.                                                               *)

(* Steps that let go of inodes, and of names, and take none. *)
LEMMA ReleaseKeeps ==
  ASSUME DiskInv, disk' = disk, linked' \subseteq linked,
         \A q \in Proc : pc'[q] \in Opened =>
           /\ pc'[q] = pc[q] /\ ino'[q] = ino[q] /\ which'[q] = which[q]
           /\ text'[q] = text[q] /\ files'[q] = files[q]
  PROVE  DiskInv'
<1>1. \A i \in linked' : EntryIsTrue(disk[i])' /\ disk'[i].state \in {"synced", "rotten"}
  BY DEF DiskInv, NamesWhole, EntryIsTrue, Result, CodesOf, Speaks, Narrowed
<1>2. ASSUME NEW q \in Proc, pc'[q] \in Opened
      PROVE  /\ pc[q] \in Opened /\ pc'[q] = pc[q] /\ ino'[q] = ino[q]
             /\ Key(q)' = Key(q)
             /\ disk'[ino'[q]] \in Entry /\ EntryIsTrue(disk[ino[q]])'
  <2>1. /\ pc[q] \in Opened /\ pc'[q] = pc[q] /\ ino'[q] = ino[q]
        /\ which'[q] = which[q] /\ text'[q] = text[q] /\ files'[q] = files[q]
    BY <1>2
  <2>2. Key(q)' = Key(q)
    BY <2>1 DEF Key, Plain, Whole, CodesOf, Unread
  <2>3. disk[ino[q]] \in Entry /\ EntryIsTrue(disk[ino[q]])
    BY <2>1 DEF DiskInv
  <2>4. disk'[ino'[q]] = disk[ino[q]]
    BY <2>1
  <2>. QED BY <2>1, <2>2, <2>3, <2>4 DEF EntryIsTrue, Result, CodesOf, Speaks, Narrowed
<1>3. \A q \in Proc : pc'[q] = "read" => disk'[ino'[q]].key = Key(q)'
  BY <1>2 DEF DiskInv, Opened
<1>4. ASSUME NEW q \in Proc, pc'[q] \in {"sync", "link"}
      PROVE  /\ ino'[q] \notin linked'
             /\ disk'[ino'[q]].state = IF pc'[q] = "sync" THEN "written" ELSE "synced"
             /\ \A r \in Proc \ {q} : pc'[r] \in Opened => ino'[r] # ino'[q]
  BY <1>2, <1>4 DEF DiskInv, Opened
<1>5. Opened' = Opened /\ Entry' = Entry
  BY DEF Opened, Entry, KeyType, ResultType, Tree
<1>. QED BY <1>1, <1>2, <1>3, <1>4, <1>5 DEF DiskInv, NamesWhole

LEMMA ForgetKeepsDisk ==
  ASSUME TypeOK, DiskInv, NEW P \in SUBSET Proc, NEW step \in {"idle", "done"},
         Forget(P, step), disk' = disk, linked' = linked
  PROVE  DiskInv'
<1>1. ASSUME NEW q \in Proc, pc'[q] \in Opened
      PROVE  /\ pc'[q] = pc[q] /\ ino'[q] = ino[q] /\ which'[q] = which[q]
             /\ text'[q] = text[q] /\ files'[q] = files[q]
  BY <1>1 DEF Forget, Opened
<1>. QED BY <1>1, ReleaseKeeps

LEMMA GotoKeepsDisk ==
  ASSUME TypeOK, DiskInv, NEW p \in Proc, NEW step \in Steps \ Opened, NEW pass,
         Goto(p, step, pass), disk' = disk, linked' \subseteq linked,
         \A q \in Proc \ {p} : /\ ino'[q] = ino[q] /\ which'[q] = which[q]
                               /\ text'[q] = text[q] /\ files'[q] = files[q]
  PROVE  DiskInv'
<1>1. ASSUME NEW q \in Proc, pc'[q] \in Opened
      PROVE  /\ pc'[q] = pc[q] /\ ino'[q] = ino[q] /\ which'[q] = which[q]
             /\ text'[q] = text[q] /\ files'[q] = files[q]
  BY <1>1 DEF Goto, TypeOK
<1>. QED BY <1>1, ReleaseKeeps

LEMMA MissKeepsDisk ==
  ASSUME TypeOK, DiskInv, NEW p \in Proc, Miss(p) \/ LookWhole(p),
         disk' = disk, linked' \subseteq linked, UNCHANGED keyVars
  PROVE  DiskInv'
<1>1. \A q \in Proc \ {p} : ino'[q] = ino[q] /\ which'[q] = which[q]
  BY DEF Miss, LookWhole, TypeOK
<1>. QED BY <1>1, GotoKeepsDisk DEF Miss, LookWhole, keyVars, Steps, Opened

LEMMA KeyStepKeepsDisk ==
  ASSUME TypeOK, DiskInv, NEW p \in Proc, KeyStep(p)
  PROVE  DiskInv'
<1>1. /\ disk' = disk /\ linked' = linked /\ ino' = ino /\ which' = which
      /\ \A q \in Proc \ {p} : text'[q] = text[q] /\ files'[q] = files[q]
  <2>1. /\ disk' = disk /\ linked' = linked /\ ino' = ino /\ which' = which
    BY DEF KeyStep, Begin, EndText, Unkeyed, EndFiles, ReadText, StatFile, ReadFile, storeVars
  <2>2. Step(p)
    BY DEF Step
  <2>. QED BY <2>1, <2>2, OthersKeep DEF Frame
<1>2. CASE Begin(p) \/ EndText(p) \/ Unkeyed(p) \/ EndFiles(p)
  BY <1>1, <1>2, GotoKeepsDisk DEF Begin, EndText, Unkeyed, EndFiles, Steps, Opened
<1>3. ASSUME NEW f \in File, ReadText(p, f) \/ ReadFile(p, f)
      PROVE  DiskInv'
  BY <1>1, <1>3, GotoKeepsDisk DEF ReadText, ReadFile, Steps, Opened
<1>4. ASSUME NEW f \in File, StatFile(p, f)
      PROVE  DiskInv'
  <2>1. pc[p] = "files" /\ pc' = pc
    BY <1>4 DEF StatFile
  <2>. QED BY <1>1, <2>1, ReleaseKeeps DEF Opened
<1>. QED BY <1>2, <1>3, <1>4 DEF KeyStep

(* The reader finds the entry of its key. *)
LEMMA OpenKeepsDisk ==
  ASSUME TypeOK, DiskInv, NEW p \in Proc, OpenEntry(p)
  PROVE  DiskInv'
<1>1. PICK i \in At(Key(p)) : ino' = [ino EXCEPT ![p] = i]
  BY DEF OpenEntry
<1>2. /\ pc' = [pc EXCEPT ![p] = "read"]
      /\ UNCHANGED <<keyVars, which, storeVars>>
  BY DEF OpenEntry, Goto
<1>3. i \in linked /\ disk[i].key = Key(p) /\ disk[i] \in Entry /\ EntryIsTrue(disk[i])
  BY DEF At, DiskInv, TypeOK
<1>4. \A q \in Proc : Key(q)' = Key(q)
  BY <1>2 DEF Key, Plain, Whole, CodesOf, Unread, keyVars
<1>5. \A e : EntryIsTrue(e)' = EntryIsTrue(e)
  BY DEF EntryIsTrue, Result, CodesOf, Speaks, Narrowed
<1>6. /\ pc'[p] = "read" /\ ino'[p] = i
      /\ \A q \in Proc \ {p} : pc'[q] = pc[q] /\ ino'[q] = ino[q]
  BY <1>1, <1>2 DEF TypeOK
<1>7. \A j \in linked : EntryIsTrue(disk[j])
  BY DEF DiskInv
<1>8. \A q \in Proc : pc'[q] \in Opened => disk[ino'[q]] \in Entry /\ EntryIsTrue(disk[ino'[q]])
  BY <1>3, <1>6 DEF DiskInv
<1>9. \A q \in Proc : pc'[q] = "read" => disk[ino'[q]].key = Key(q)
  BY <1>3, <1>6 DEF DiskInv
<1>10. ASSUME NEW q \in Proc, pc'[q] \in {"sync", "link"}
       PROVE  /\ ino'[q] \notin linked
              /\ disk[ino'[q]].state = IF pc'[q] = "sync" THEN "written" ELSE "synced"
              /\ \A r \in Proc \ {q} : pc'[r] \in Opened => ino'[r] # ino'[q]
  BY <1>3, <1>6, <1>10 DEF DiskInv
<1>11. NamesWhole'
  BY <1>2 DEF DiskInv, NamesWhole, storeVars
<1>12. disk' = disk /\ linked' = linked /\ Opened' = Opened /\ Entry' = Entry
  BY <1>2 DEF storeVars, Opened, Entry, KeyType, ResultType, Tree
<1>. QED BY <1>4, <1>5, <1>7, <1>8, <1>9, <1>10, <1>11, <1>12 DEF DiskInv

LEMMA ServeStepKeepsDisk ==
  ASSUME TypeOK, DiskInv, NEW p \in Proc, ServeStep(p)
  PROVE  DiskInv'
<1>1. CASE OpenEntry(p)
  BY <1>1, OpenKeepsDisk
<1>2. CASE Serve(p)
  BY <1>2, ForgetKeepsDisk DEF Serve, Finish, storeVars
<1>3. CASE NoEntry(p) \/ PassOver(p)
  BY <1>3, MissKeepsDisk DEF NoEntry, PassOver, storeVars
<1>4. CASE FindDamage(p)
  BY <1>4, GotoKeepsDisk DEF FindDamage, storeVars, keyVars, Steps, Opened
<1>5. CASE Relook(p)
  <2>1. CASE At(Key(p)) = {ino[p]}
    BY <1>5, <2>1, GotoKeepsDisk DEF Relook, storeVars, keyVars, Steps, Opened
  <2>2. CASE At(Key(p)) # {ino[p]}
    BY <1>5, <2>2, MissKeepsDisk DEF Relook, storeVars
  <2>. QED BY <2>1, <2>2
<1>6. CASE Invalidate(p)
  BY <1>6, MissKeepsDisk DEF Invalidate
<1>. QED BY <1>1, <1>2, <1>3, <1>4, <1>5, <1>6 DEF ServeStep

LEMMA CompileStepKeepsDisk ==
  ASSUME TypeOK, DiskInv, NEW p \in Proc, CompileStep(p)
  PROVE  DiskInv'
<1>0. /\ disk' = disk /\ linked' = linked
  BY DEF CompileStep, EndCompile, EndRetext, EndRefiles, CompileRead, Retext, Refile, storeVars
<1>1. CASE EndRetext(p) \/ EndRefiles(p)
  BY <1>0, <1>1, GotoKeepsDisk DEF EndRetext, EndRefiles, keyVars, Steps, Opened
<1>2. CASE EndCompile(p)
  <2>1. CASE text[p] # Unread /\ Entered(made[p]) = Entered(text[p])
    BY <1>0, <1>2, <2>1, GotoKeepsDisk DEF EndCompile, keyVars, Steps, Opened
  <2>2. CASE ~(text[p] # Unread /\ Entered(made[p]) = Entered(text[p]))
    BY <1>0, <1>2, <2>2, ForgetKeepsDisk DEF EndCompile, Finish
  <2>. QED BY <2>1, <2>2
<1>3. ASSUME NEW f \in File, CompileRead(p, f)
      PROVE  DiskInv'
  BY <1>0, <1>3, GotoKeepsDisk DEF CompileRead, keyVars, Steps, Opened
<1>4. ASSUME NEW f \in File, Retext(p, f)
      PROVE  DiskInv'
  BY <1>0, <1>4, GotoKeepsDisk, ForgetKeepsDisk DEF Retext, Finish, keyVars, Steps, Opened
<1>5. ASSUME NEW f \in File, Refile(p, f)
      PROVE  DiskInv'
  BY <1>0, <1>5, GotoKeepsDisk, ForgetKeepsDisk DEF Refile, Finish, keyVars, Steps, Opened
<1>. QED BY <1>1, <1>2, <1>3, <1>4, <1>5 DEF CompileStep

LEMMA FailKeepsDisk ==
  ASSUME TypeOK, DiskInv, NEW p \in Proc, Fail(p)
  PROVE  DiskInv'
<1>1. CASE ReadFails(p)
  BY <1>1, MissKeepsDisk DEF ReadFails, storeVars
<1>2. CASE CompileFails(p) \/ Die(p)
  BY <1>2, ForgetKeepsDisk DEF CompileFails, Die, storeVars
<1>3. CASE PublishFails(p)
  BY <1>3, ForgetKeepsDisk DEF PublishFails, Finish, storeVars
<1>. QED BY <1>1, <1>2, <1>3 DEF Fail

LEMMA Shapes == \A e : EntryIsTrue(e)' = EntryIsTrue(e)
BY DEF EntryIsTrue, Result, CodesOf, Speaks, Narrowed

(* The entry a wrapper publishes: it looked at its files after the compile, *)
(* and none had moved.                                                      *)
LEMMA NewEntryIsTrue ==
  ASSUME TypeOK, NEW p \in Proc, pc[p] = "publish", KeyInv(p), MadeInv(p)
  PROVE  EntryOf(p) \in Entry /\ EntryIsTrue(EntryOf(p))
<1>1. /\ made[p] = files[p] /\ CodesOf(text[p]) = CodesOf(files[p]) /\ obj[p] = Result(made[p])
      /\ \A f \in File : made[p][f] \in had[p][f] /\ text[p][f] \in had[p][f]
  BY DEF MadeInv, KeyInv, Keyed, Late
<1>2. \A f \in File : had[p][f] \subseteq Content
  BY DEF TypeOK
<1>3. text[p] \in Tree /\ files[p] \in Tree
  BY <1>1, <1>2 DEF Tree, TypeOK
<1>4. EntryOf(p) \in Entry
  BY <1>3, EntryTyped
<1>5. /\ Plain(text[p], files[p]).text = CodesOf(files[p])
      /\ Plain(text[p], files[p]).files = CodesOf(files[p])
      /\ Whole(text[p], files[p]).text = CodesOf(files[p])
      /\ Whole(text[p], files[p]).files = CodesOf(files[p])
      /\ Whole(text[p], files[p]).whole = files[p]
  BY <1>1 DEF Plain, Whole
<1>. QED BY <1>1, <1>4, <1>5 DEF EntryOf, EntryIsTrue, NewKey, PublishKey

LEMMA WriteKeepsDisk ==
  ASSUME TypeOK, DiskInv, NEW p \in Proc, WriteTemp(p), KeyInv(p), MadeInv(p)
  PROVE  DiskInv'
<1>1. PICK i \in Free : /\ ino' = [ino EXCEPT ![p] = i]
                        /\ disk' = [disk EXCEPT ![i] = EntryOf(p)]
  BY DEF WriteTemp
<1>2. /\ pc' = [pc EXCEPT ![p] = "sync"] /\ pc[p] = "publish"
      /\ UNCHANGED <<keyVars, which, linked>>
  BY DEF WriteTemp, Goto
<1>3. /\ i \in Ino /\ i \notin linked /\ \A q \in Proc : pc[q] \in Opened => ino[q] # i
  BY DEF Free
<1>4. /\ EntryOf(p) \in Entry /\ EntryIsTrue(EntryOf(p)) /\ EntryOf(p).state = "written"
  BY <1>2, NewEntryIsTrue DEF EntryOf
<1>5. /\ pc'[p] = "sync" /\ ino'[p] = i /\ disk'[i] = EntryOf(p)
      /\ \A q \in Proc \ {p} : pc'[q] = pc[q] /\ ino'[q] = ino[q]
      /\ \A j \in Ino \ {i} : disk'[j] = disk[j]
  BY <1>1, <1>2, <1>3 DEF TypeOK
<1>6. \A j \in linked : j \in Ino /\ disk'[j] = disk[j]
  BY <1>3, <1>5 DEF TypeOK
<1>7. \A q \in Proc \ {p} : pc[q] \in Opened => ino[q] \in Ino \ {i} /\ disk'[ino[q]] = disk[ino[q]]
  BY <1>3, <1>5 DEF TypeOK
<1>8. \A q \in Proc : Key(q)' = Key(q)
  BY <1>2 DEF Key, Plain, Whole, CodesOf, Unread, keyVars
<1>9. NamesWhole'
  BY <1>2, <1>6 DEF DiskInv, NamesWhole
<1>10. \A j \in linked : EntryIsTrue(disk'[j])
  BY <1>6 DEF DiskInv
<1>11. \A q \in Proc : pc'[q] \in Opened => disk'[ino'[q]] \in Entry /\ EntryIsTrue(disk'[ino'[q]])
  BY <1>4, <1>5, <1>7 DEF DiskInv
<1>12. \A q \in Proc : pc'[q] = "read" => disk'[ino'[q]].key = Key(q)
  BY <1>5, <1>7 DEF DiskInv, Opened
<1>13. ASSUME NEW q \in Proc, pc'[q] \in {"sync", "link"}
       PROVE  /\ ino'[q] \notin linked
              /\ disk'[ino'[q]].state = IF pc'[q] = "sync" THEN "written" ELSE "synced"
              /\ \A r \in Proc \ {q} : pc'[r] \in Opened => ino'[r] # ino'[q]
  <2>1. CASE q = p
    BY <1>3, <1>4, <1>5, <2>1
  <2>2. CASE q # p
    <3>1. q \in Proc \ {p} /\ pc[q] \in {"sync", "link"}
      BY <1>5, <1>13, <2>2
    <3>2. pc[q] \in Opened
      BY <3>1 DEF Opened
    <3>3. ino[q] # i
      BY <1>3, <3>2
    <3>. QED BY <1>5, <1>7, <3>1, <3>2, <3>3 DEF DiskInv
  <2>. QED BY <2>1, <2>2
<1>14. linked' = linked /\ Opened' = Opened /\ Entry' = Entry
  BY <1>2 DEF Opened, Entry, KeyType, ResultType, Tree
<1>. QED BY <1>8, <1>9, <1>10, <1>11, <1>12, <1>13, <1>14, Shapes DEF DiskInv

LEMMA SyncKeepsDisk ==
  ASSUME TypeOK, DiskInv, NEW p \in Proc, Sync(p)
  PROVE  DiskInv'
<1>1. /\ pc' = [pc EXCEPT ![p] = "link"] /\ pc[p] = "sync"
      /\ disk' = [disk EXCEPT ![ino[p]] = [disk[ino[p]] EXCEPT !.state = "synced"]]
      /\ UNCHANGED <<keyVars, which, ino, linked>>
  BY DEF Sync, Goto
<1>2. /\ disk[ino[p]] \in Entry /\ EntryIsTrue(disk[ino[p]]) /\ ino[p] \in Ino
      /\ ino[p] \notin linked
      /\ \A q \in Proc \ {p} : pc[q] \in Opened => ino[q] # ino[p]
  BY <1>1 DEF DiskInv, Opened, TypeOK
<1>3. /\ disk'[ino[p]] \in Entry /\ EntryIsTrue(disk'[ino[p]]) /\ disk'[ino[p]].state = "synced"
  <2>1. disk'[ino[p]] = [disk[ino[p]] EXCEPT !.state = "synced"]
    BY <1>1, <1>2 DEF TypeOK
  <2>2. ASSUME NEW e \in Entry, EntryIsTrue(e)
        PROVE  /\ [e EXCEPT !.state = "synced"] \in Entry
               /\ EntryIsTrue([e EXCEPT !.state = "synced"])
    BY <2>2 DEF Entry, EntryIsTrue
  <2>3. [disk[ino[p]] EXCEPT !.state = "synced"].state = "synced"
    BY <1>2 DEF Entry
  <2>. QED BY <1>2, <2>1, <2>2, <2>3
<1>5. /\ pc'[p] = "link" /\ ino' = ino
      /\ \A q \in Proc \ {p} : pc'[q] = pc[q]
      /\ \A j \in Ino \ {ino[p]} : disk'[j] = disk[j]
  BY <1>1, <1>2 DEF TypeOK
<1>6. \A j \in linked : j \in Ino /\ disk'[j] = disk[j]
  BY <1>2, <1>5 DEF TypeOK
<1>7. \A q \in Proc \ {p} : pc[q] \in Opened => disk'[ino[q]] = disk[ino[q]]
  BY <1>2, <1>5 DEF TypeOK
<1>8. \A q \in Proc : Key(q)' = Key(q)
  BY <1>1 DEF Key, Plain, Whole, CodesOf, Unread, keyVars
<1>9. NamesWhole'
  BY <1>1, <1>6 DEF DiskInv, NamesWhole
<1>10. \A j \in linked : EntryIsTrue(disk'[j])
  BY <1>6 DEF DiskInv
<1>11. \A q \in Proc : pc'[q] \in Opened => disk'[ino[q]] \in Entry /\ EntryIsTrue(disk'[ino[q]])
  BY <1>3, <1>5, <1>7 DEF DiskInv
<1>12. \A q \in Proc : pc'[q] = "read" => disk'[ino[q]].key = Key(q)
  BY <1>5, <1>7 DEF DiskInv, Opened
<1>13. ASSUME NEW q \in Proc, pc'[q] \in {"sync", "link"}
       PROVE  /\ ino[q] \notin linked
              /\ disk'[ino[q]].state = IF pc'[q] = "sync" THEN "written" ELSE "synced"
              /\ \A r \in Proc \ {q} : pc'[r] \in Opened => ino[r] # ino[q]
  <2>1. CASE q = p
    BY <1>2, <1>3, <1>5, <2>1
  <2>2. CASE q # p
    <3>1. q \in Proc \ {p} /\ pc[q] \in {"sync", "link"} /\ pc'[q] = pc[q]
      BY <1>5, <1>13, <2>2
    <3>2. pc[q] \in Opened
      BY <3>1 DEF Opened
    <3>3. \A r \in Proc : pc'[r] \in Opened => pc[r] \in Opened
      BY <1>1, <1>5 DEF Opened
    <3>4. disk'[ino[q]] = disk[ino[q]]
      BY <1>7, <3>1, <3>2
    <3>. QED BY <3>1, <3>3, <3>4 DEF DiskInv
  <2>. QED BY <2>1, <2>2
<1>14. linked' = linked /\ Opened' = Opened /\ Entry' = Entry
  BY <1>1 DEF Opened, Entry, KeyType, ResultType, Tree
<1>. QED BY <1>5, <1>8, <1>9, <1>10, <1>11, <1>12, <1>13, <1>14, Shapes DEF DiskInv

(* The name goes to a file that is whole on disk. *)
LEMMA LinkKeepsDisk ==
  ASSUME TypeOK, DiskInv, NEW p \in Proc, Link(p)
  PROVE  DiskInv'
<1>1. /\ pc' = [pc EXCEPT ![p] = "verdict"] /\ pc[p] = "link"
      /\ UNCHANGED <<keyVars, which, ino, disk>>
      /\ linked' \in {linked, linked \cup {ino[p]}}
  BY DEF Link, Goto
<1>2. /\ disk[ino[p]] \in Entry /\ EntryIsTrue(disk[ino[p]]) /\ disk[ino[p]].state = "synced"
      /\ \A q \in Proc \ {p} : pc[q] \in Opened => ino[q] # ino[p]
  BY <1>1 DEF DiskInv, Opened
<1>3. \A q \in Proc : Key(q)' = Key(q)
  BY <1>1 DEF Key, Plain, Whole, CodesOf, Unread, keyVars
<1>4. /\ pc'[p] = "verdict" /\ \A q \in Proc \ {p} : pc'[q] = pc[q]
  BY <1>1 DEF TypeOK
<1>5. \A j \in linked' : EntryIsTrue(disk[j]) /\ disk[j].state \in {"synced", "rotten"}
  BY <1>1, <1>2 DEF DiskInv, NamesWhole
<1>6. \A q \in Proc : pc'[q] \in Opened =>
        pc[q] \in Opened /\ disk[ino[q]] \in Entry /\ EntryIsTrue(disk[ino[q]])
  BY <1>1, <1>4 DEF DiskInv, Opened
<1>7. \A q \in Proc : pc'[q] = "read" => disk[ino[q]].key = Key(q)
  BY <1>4 DEF DiskInv
<1>8. ASSUME NEW q \in Proc, pc'[q] \in {"sync", "link"}
      PROVE  /\ ino[q] \notin linked'
             /\ disk[ino[q]].state = IF pc'[q] = "sync" THEN "written" ELSE "synced"
             /\ \A r \in Proc \ {q} : pc'[r] \in Opened => ino[r] # ino[q]
  <2>1. q \in Proc \ {p} /\ pc'[q] = pc[q] /\ pc[q] \in {"sync", "link"}
    BY <1>4, <1>8
  <2>2. ino[q] # ino[p] /\ ino[q] \notin linked
    BY <1>2, <2>1 DEF Opened, DiskInv
  <2>3. /\ disk[ino[q]].state = IF pc[q] = "sync" THEN "written" ELSE "synced"
        /\ \A r \in Proc \ {q} : pc[r] \in Opened => ino[r] # ino[q]
    BY <2>1 DEF DiskInv
  <2>. QED BY <1>1, <1>6, <2>1, <2>2, <2>3
<1>9. ino' = ino /\ disk' = disk /\ Opened' = Opened /\ Entry' = Entry
  BY <1>1 DEF Opened, Entry, KeyType, ResultType, Tree
<1>. QED BY <1>3, <1>5, <1>6, <1>7, <1>8, <1>9, Shapes DEF DiskInv, NamesWhole

LEMMA PublishStepKeepsDisk ==
  ASSUME TypeOK, DiskInv, NEW p \in Proc, PublishStep(p), KeyInv(p), MadeInv(p)
  PROVE  DiskInv'
<1>1. CASE AlreadyThere(p) \/ Verdict(p)
  BY <1>1, ForgetKeepsDisk DEF AlreadyThere, Verdict, Finish, storeVars
<1>. QED BY <1>1, WriteKeepsDisk, SyncKeepsDisk, LinkKeepsDisk DEF PublishStep

(* A crash finds no named file that was not synced; decay does not touch    *)
(* what an entry was written from.                                          *)
LEMMA EnvironmentKeepsDisk ==
  ASSUME TypeOK, DiskInv, Environment
  PROVE  DiskInv'
<1>1. ASSUME NEW f \in File, NEW c \in Content, Edit(f, c)
      PROVE  DiskInv'
  BY <1>1, ReleaseKeeps DEF Edit, keyVars, storeVars
<1>2. CASE PowerLoss
  <2>1. \A i \in linked : disk[i].state # "written"
    BY DEF DiskInv, NamesWhole
  <2>2. disk' = disk /\ linked' = linked
    BY <1>2, <2>1 DEF PowerLoss, TypeOK
  <2>. QED BY <1>2, <2>2, ForgetKeepsDisk DEF PowerLoss
<1>3. ASSUME NEW i \in Ino, Rot(i)
      PROVE  DiskInv'
  <2>1. /\ i \in linked /\ disk' = [disk EXCEPT ![i] = [disk[i] EXCEPT !.state = "rotten"]]
        /\ UNCHANGED <<pc, keyVars, which, ino, linked>>
    BY <1>3 DEF Rot
  <2>2. ASSUME NEW e \in Entry, EntryIsTrue(e)
        PROVE  /\ [e EXCEPT !.state = "rotten"] \in Entry /\ [e EXCEPT !.state = "rotten"].key = e.key
               /\ EntryIsTrue([e EXCEPT !.state = "rotten"])
               /\ [e EXCEPT !.state = "rotten"].state = "rotten"
    BY <2>2 DEF Entry, EntryIsTrue
  <2>3. /\ disk'[i] = [disk[i] EXCEPT !.state = "rotten"]
        /\ \A j \in Ino \ {i} : disk'[j] = disk[j]
    BY <2>1 DEF TypeOK
  <2>4. disk[i] \in Entry /\ EntryIsTrue(disk[i])
    BY <2>1 DEF DiskInv, TypeOK
  <2>5. /\ disk'[i] \in Entry /\ EntryIsTrue(disk'[i]) /\ disk'[i].key = disk[i].key
        /\ disk'[i].state = "rotten"
    BY <2>2, <2>3, <2>4
  <2>6. \A j \in linked : j \in Ino /\ EntryIsTrue(disk'[j]) /\ disk'[j].state \in {"synced", "rotten"}
    BY <2>3, <2>5 DEF DiskInv, NamesWhole, TypeOK
  <2>7. ASSUME NEW q \in Proc, pc[q] \in Opened
        PROVE  /\ disk'[ino[q]] \in Entry /\ EntryIsTrue(disk'[ino[q]])
               /\ disk'[ino[q]].key = disk[ino[q]].key
               /\ ino[q] \notin linked => disk'[ino[q]] = disk[ino[q]]
    <3>1. ino[q] \in Ino
      BY <2>7 DEF TypeOK
    <3>. QED BY <2>1, <2>3, <2>5, <2>7, <3>1 DEF DiskInv
  <2>8. \A q \in Proc : Key(q)' = Key(q)
    BY <2>1 DEF Key, Plain, Whole, CodesOf, Unread, keyVars
  <2>9. \A q \in Proc : pc[q] = "read" => disk'[ino[q]].key = Key(q)
    BY <2>7 DEF DiskInv, Opened
  <2>10. \A q \in Proc : pc[q] \in {"sync", "link"} =>
           /\ ino[q] \notin linked
           /\ disk'[ino[q]].state = IF pc[q] = "sync" THEN "written" ELSE "synced"
           /\ \A r \in Proc \ {q} : pc[r] \in Opened => ino[r] # ino[q]
    BY <2>7 DEF DiskInv, Opened
  <2>11. /\ pc' = pc /\ ino' = ino /\ linked' = linked /\ Opened' = Opened /\ Entry' = Entry
    BY <2>1 DEF Opened, Entry, KeyType, ResultType, Tree
  <2>. QED BY <2>6, <2>7, <2>8, <2>9, <2>10, <2>11, Shapes DEF DiskInv, NamesWhole
<1>4. ASSUME NEW i \in Ino, Collect(i)
      PROVE  DiskInv'
  BY <1>4, ReleaseKeeps DEF Collect, keyVars
<1>. QED BY <1>1, <1>2, <1>3, <1>4 DEF Environment

-----------------------------------------------------------------------------
LEMMA InitInv == Init => CacheInv
<1>. SUFFICES ASSUME Init PROVE CacheInv
  OBVIOUS
<1>1. TypeOK
  BY UnreadTyped DEF Init, TypeOK, Steps, Opened
<1>2. \A p \in Proc : KeyInv(p) /\ MadeInv(p)
  BY DEF Init, KeyInv, MadeInv, Asked, Keyed, Late
<1>3. DiskInv
  BY DEF Init, DiskInv, NamesWhole, Opened
<1>. QED BY <1>1, <1>2, <1>3 DEF CacheInv

LEMMA Held ==
  ASSUME CacheInv
  PROVE  /\ HeldEntries
         /\ \A p \in Proc : pc[p] = "compile" => \A f \in File \ todo[p] : made[p][f] # None
         /\ \A p \in Proc : pc[p] = "publish" => text[p] \in Tree /\ files[p] \in Tree
<1>1. HeldEntries
  BY DEF CacheInv, DiskInv, HeldEntries
<1>2. \A p \in Proc : \A f \in File : had[p][f] \subseteq Content
  BY DEF CacheInv, TypeOK
<1>3. \A p \in Proc : pc[p] = "compile" => \A f \in File \ todo[p] : made[p][f] # None
  BY <1>2 DEF CacheInv, MadeInv
<1>4. ASSUME NEW p \in Proc, pc[p] = "publish"
      PROVE  text[p] \in Tree /\ files[p] \in Tree
  <2>1. /\ made[p] = files[p] /\ \A f \in File : made[p][f] \in had[p][f] /\ text[p][f] \in had[p][f]
    BY <1>4 DEF CacheInv, MadeInv, KeyInv, Keyed, Late
  <2>2. text[p] \in [File -> Content \cup {None}] /\ files[p] \in [File -> Content \cup {None}]
    BY DEF CacheInv, TypeOK
  <2>. QED BY <1>2, <2>1, <2>2 DEF Tree
<1>. QED BY <1>1, <1>3, <1>4

LEMMA NextKeeps ==
  ASSUME CacheInv, Next
  PROVE  CacheInv'
<1>0. TypeOK /\ DiskInv /\ \A p \in Proc : KeyInv(p) /\ MadeInv(p)
  BY DEF CacheInv
<1>1. ASSUME NEW p \in Proc, Step(p) \/ Fail(p)
      PROVE  CacheInv'
  <2>1. TypeOK'
    BY <1>0, <1>1, Held, KeyTypes, ServeTypes, CompileTypes, PublishTypes, FailTypes DEF Step
  <2>2. DiskInv'
    BY <1>0, <1>1, KeyStepKeepsDisk, ServeStepKeepsDisk, CompileStepKeepsDisk,
       PublishStepKeepsDisk, FailKeepsDisk DEF Step
  <2>3. KeyInv(p)' /\ MadeInv(p)'
    BY <1>0, <1>1, KeyStepKeeps, ServeStepKeeps, CompileStepKeeps, PublishStepKeeps, FailKeeps
       DEF Step
  <2>4. \A q \in Proc \ {p} : KeyInv(q)' /\ MadeInv(q)'
    BY <1>0, <1>1, OthersKeep, FrameKeeps
  <2>. QED BY <2>1, <2>2, <2>3, <2>4 DEF CacheInv
<1>2. CASE Environment
  BY <1>0, <1>2, EnvironmentTypes, EnvironmentKeepsDisk, EnvironmentKeeps DEF CacheInv
<1>. QED BY <1>1, <1>2 DEF Next

LEMMA StutterKeeps ==
  ASSUME CacheInv, UNCHANGED vars
  PROVE  CacheInv'
<1>1. TypeOK'
  BY DEF CacheInv, TypeOK, vars, Tree, Steps, Opened, Entry, KeyType, ResultType
<1>2. DiskInv'
  BY ReleaseKeeps DEF CacheInv, vars
<1>3. \A q \in Proc : KeyInv(q)' /\ MadeInv(q)'
  BY FrameKeeps DEF CacheInv, Frame, vars, fileVars
<1>. QED BY <1>1, <1>2, <1>3 DEF CacheInv

(* In every state each wrapper knows what its stamps let it know, and each  *)
(* entry with a name, or being written or read, is true (still_holds,       *)
(* publish).                                                                *)
THEOREM Invariance == Spec => []CacheInv
BY InitInv, NextKeeps, StutterKeeps, PTL DEF Spec

(* Every variable keeps its type. *)
THEOREM Typed == Spec => []TypeOK
<1>1. CacheInv => TypeOK
  BY DEF CacheInv
<1>. QED BY <1>1, Invariance, PTL

(* An entry that reads back well has the object the compiler makes of the   *)
(* files in its key, for any number of builds, nodes, files and edits.      *)
THEOREM EntriesAreTrue == Spec => []EntriesTrue
<1>1. CacheInv => EntriesTrue
  BY DEF CacheInv, DiskInv, EntriesTrue
<1>. QED BY <1>1, Invariance, PTL

(* A name never leads to a file that a crash has torn, or could tear: the   *)
(* sync comes before the link (publish).                                    *)
THEOREM NamesAreWhole == Spec => []NamesWhole
<1>1. CacheInv => NamesWhole
  BY DEF CacheInv, DiskInv
<1>. QED BY <1>1, Invariance, PTL

(* The publisher of the file a name leads to is told so, reply or no reply. *)
THEOREM LinksAreStored == Spec => LinkedIsStored
<1>1. ASSUME CacheInv, [Next]_vars, NEW p \in Proc, pc[p] = "verdict", ino[p] \in linked,
             pc'[p] = "done"
      PROVE  verdict'[p] = "stored"
  <2>1. CASE UNCHANGED vars
    BY <1>1, <2>1 DEF vars
  <2>2. ASSUME NEW q \in Proc \ {p}, Step(q) \/ Fail(q)
        PROVE  FALSE
    BY <1>1, <2>2, OthersKeep DEF CacheInv, Frame
  <2>3. CASE Step(p) \/ Fail(p)
    <3>1. Verdict(p)
      BY <1>1, <2>3 DEF Step, Fail, KeyStep, Begin, EndText, Unkeyed, EndFiles, ReadText, StatFile,
         ReadFile, ServeStep, OpenEntry, NoEntry, Serve, PassOver, FindDamage, Relook, Invalidate,
         CompileStep, EndCompile, EndRetext, EndRefiles, CompileRead, Retext, Refile,
         PublishStep, AlreadyThere, WriteTemp, Sync, Link, ReadFails, CompileFails, PublishFails,
         Die, Forget, Asked
    <3>. QED BY <1>1, <3>1 DEF Verdict, Finish, CacheInv, TypeOK
  <2>4. CASE Environment
    BY <1>1, <2>4 DEF Environment, PowerLoss, Forget, Edit, Rot, Collect
  <2>. QED BY <1>1, <2>1, <2>2, <2>3, <2>4 DEF Next
<1>2. CacheInv /\ [Next]_vars =>
        \A p \in Proc : pc[p] = "verdict" /\ ino[p] \in linked /\ pc'[p] = "done"
          => verdict'[p] = "stored"
  BY <1>1
<1>. QED BY <1>2, Invariance, PTL DEF Spec, LinkedIsStored

-----------------------------------------------------------------------------
(* Implementation.                                                          *)

Status == [q \in Proc |-> CASE pc[q] = "idle" -> "idle"
                             [] pc[q] = "done" -> "answered"
                             [] OTHER -> "asked"]
Shown == [q \in Proc |-> IF pc[q] = "done" THEN obj[q] ELSE NoResult]

LEMMA AnswerMaps ==
  ASSUME CacheInv, NEW p \in Proc, Asked(p), NEW t \in Tree, \A f \in File : t[f] \in had[p][f],
         NEW v, Finish(p, Result(t), v), src' = src
  PROVE  Service!Answer(p)
<1>1. \A q \in Proc : /\ pc'[q] = IF q = p THEN "done" ELSE pc[q]
                      /\ obj'[q] = IF q = p THEN Result(t) ELSE obj[q]
  BY DEF Finish, Forget, CacheInv, TypeOK
<1>2. Status[p] = "asked"
  BY DEF Asked, Status
<1>3. Status' = [Status EXCEPT ![p] = "answered"]
  BY <1>1 DEF Status
<1>4. Shown' = [Shown EXCEPT ![p] = Result(t)]
  <2>1. NoResult' = NoResult
    BY DEF NoResult, Unread
  <2>. QED BY <1>1, <2>1 DEF Shown
<1>5. had' = [had EXCEPT ![p] = [f \in File |-> {}]]
  BY DEF Finish, Forget, CacheInv, TypeOK
<1>6. t \in Service!Views(had[p])
  BY DEF Service!Views, Service!Tree, Tree
<1>. QED BY <1>2, <1>3, <1>4, <1>5, <1>6 DEF Service!Answer, Service!Nothing, Status, Shown

LEMMA AskMaps ==
  ASSUME CacheInv, NEW p \in Proc, Begin(p)
  PROVE  Service!Ask(p)
<1>1. ~Asked(p) /\ pc' = [pc EXCEPT ![p] = "text"] /\ obj' = [obj EXCEPT ![p] = NoResult] /\ src' = src
  BY DEF Begin, Goto, fileVars
<1>2. \A q \in Proc : /\ pc'[q] = IF q = p THEN "text" ELSE pc[q]
                      /\ obj'[q] = IF q = p THEN NoResult ELSE obj[q]
  BY <1>1 DEF CacheInv, TypeOK
<1>3. Status[p] \in {"idle", "answered"}
  BY <1>1 DEF Status, Asked
<1>4. Status' = [Status EXCEPT ![p] = "asked"]
  BY <1>2 DEF Status
<1>5. Shown' = [Shown EXCEPT ![p] = NoResult]
  <2>1. NoResult' = NoResult
    BY DEF NoResult, Unread
  <2>. QED BY <1>2, <2>1 DEF Shown
<1>6. had' = [had EXCEPT ![p] = [f \in File |-> {src[f]}]]
  BY DEF Begin
<1>. QED BY <1>1, <1>3, <1>4, <1>5, <1>6 DEF Service!Ask, Status, Shown

LEMMA GiveUpMaps ==
  ASSUME CacheInv, NEW P \in SUBSET Proc, \A q \in P : Asked(q), Forget(P, "idle"),
         src' = src, obj' = obj
  PROVE  Service!GiveUp(P)
<1>1. \A q \in Proc : pc'[q] = IF q \in P THEN "idle" ELSE pc[q]
  BY DEF Forget
<1>2. \A q \in P : Status[q] = "asked"
  BY DEF Status, Asked
<1>3. Status' = [q \in Proc |-> IF q \in P THEN "idle" ELSE Status[q]]
  BY <1>1 DEF Status
<1>4. Shown' = Shown
  <2>1. NoResult' = NoResult
    BY DEF NoResult, Unread
  <2>2. \A q \in P : pc[q] # "done"
    BY DEF Asked
  <2>. QED BY <1>1, <2>1, <2>2 DEF Shown
<1>5. had' = [q \in Proc |-> IF q \in P THEN [f \in File |-> {}] ELSE had[q]]
  BY DEF Forget
<1>. QED BY <1>2, <1>3, <1>4, <1>5 DEF Service!GiveUp, Service!Nothing, Status, Shown

LEMMA ChangeMaps ==
  ASSUME CacheInv, NEW f \in File, NEW c \in Content, Edit(f, c)
  PROVE  Service!Change(f, c)
<1>1. \A q \in Proc : Status[q] = "asked" <=> Asked(q)
  BY DEF Status, Asked
<1>2. Status' = Status /\ Shown' = Shown
  BY DEF Edit, Status, Shown, NoResult, Unread
<1>3. had' = [q \in Proc |-> IF Status[q] = "asked" THEN [had[q] EXCEPT ![f] = @ \cup {c}] ELSE had[q]]
  BY <1>1 DEF Edit
<1>. QED BY <1>2, <1>3 DEF Edit, Service!Change, Status, Shown

(* What a client cannot see. *)
LEMMA StutterMaps ==
  ASSUME CacheInv, UNCHANGED <<src, had>>,
         \A q \in Proc : \/ pc'[q] = pc[q] /\ obj'[q] = obj[q]
                         \/ Asked(q) /\ pc'[q] \notin {"idle", "done"}
  PROVE  UNCHANGED Service!svars
<1>1. Status' = Status
  BY DEF Status, Asked
<1>2. Shown' = Shown
  BY DEF Shown, NoResult, Unread, Asked
<1>. QED BY <1>1, <1>2 DEF Service!svars, Status, Shown

LEMMA SilentMaps ==
  ASSUME CacheInv, NEW p \in Proc, Asked(p), NEW step, NEW pass, Goto(p, step, pass),
         step \notin {"idle", "done"}, UNCHANGED <<src, had>>,
         \A q \in Proc \ {p} : obj'[q] = obj[q]
  PROVE  UNCHANGED Service!svars
<1>1. \A q \in Proc : pc'[q] = IF q = p THEN step ELSE pc[q]
  BY DEF Goto, CacheInv, TypeOK
<1>. QED BY <1>1, StutterMaps

(* What a compile leaves is the result of contents it may have read: of     *)
(* what the compiler read, or of what the key was made of.                  *)
LEMMA CompiledMaps ==
  ASSUME CacheInv, NEW p \in Proc, NEW v, src' = src,
         \/ pc[p] \in Late /\ Finish(p, obj[p], v)
         \/ pc[p] = "compile" /\ todo[p] = {} /\ Finish(p, Result(made[p]), v)
  PROVE  Service!Answer(p)
<1>1. made[p] \in [File -> Content \cup {None}] /\ \A f \in File : had[p][f] \subseteq Content
  BY DEF CacheInv, TypeOK
<1>2. KeyInv(p) /\ MadeInv(p)
  BY DEF CacheInv
<1>3. \A f \in File : made[p][f] \in had[p][f]
  BY <1>2 DEF MadeInv, Late
<1>4. made[p] \in Tree
  BY <1>1, <1>3 DEF Tree
<1>5. Asked(p)
  BY DEF Asked, Late
<1>6. Finish(p, Result(made[p]), v)
  <2>1. CASE pc[p] \in Late
    BY <1>2, <2>1 DEF MadeInv, Late
  <2>. QED BY <2>1 DEF Late
<1>. QED BY <1>3, <1>4, <1>5, <1>6, AnswerMaps

LEMMA ServedMaps ==
  ASSUME CacheInv, NEW p \in Proc, Serve(p)
  PROVE  Service!Answer(p)
<1>. DEFINE e == disk[ino[p]]
<1>1. /\ pc[p] = "read" /\ ~SaidElsewhere(p, e) /\ Finish(p, e.result, "served") /\ src' = src
  BY DEF Serve, fileVars
<1>2. EntryIsTrue(e) /\ e.key = Key(p) /\ e \in Entry
  BY <1>1 DEF CacheInv, DiskInv, Opened
<1>3. e.key.files = CodesOf(files[p])
  BY <1>2 DEF Key, Plain, Whole
<1>4. CodesOf(e.whole) = CodesOf(files[p])
  BY <1>2, <1>3 DEF EntryIsTrue
<1>5. e.result.code = CodesOf(e.whole)
  BY <1>2 DEF EntryIsTrue, Result
<1>6. e.result = Result(files[p])
  <2>1. CASE Speaks(e.result.code)
    BY <1>1, <1>2, <2>1 DEF SaidElsewhere, EntryIsTrue
  <2>2. CASE ~Speaks(e.result.code)
    BY <1>2, <1>4, <1>5, <2>2 DEF EntryIsTrue, Result
  <2>. QED BY <2>1, <2>2
<1>7. \A f \in File : files[p][f] \in had[p][f]
  <2>1. Keyed(p) /\ KeyInv(p)
    BY <1>1 DEF Keyed, CacheInv
  <2>2. ASSUME NEW f \in File, f \in Entered(text[p])
        PROVE  files[p][f] \in had[p][f]
    BY <2>1, <2>2 DEF KeyInv, Looked
  <2>3. ASSUME NEW f \in File, f \notin Entered(text[p])
        PROVE  files[p][f] \in had[p][f]
    BY <2>1, <2>3 DEF KeyInv, Entered
  <2>. QED BY <2>2, <2>3
<1>8. files[p] \in Tree
  BY <1>7 DEF CacheInv, TypeOK, Tree
<1>9. Asked(p)
  BY <1>1 DEF Asked
<1>. HIDE DEF e
<1>. QED BY <1>1, <1>6, <1>7, <1>8, <1>9, AnswerMaps

LEMMA HideMaps ==
  ASSUME CacheInv, NEW p \in Proc, NEW f \in File, CompileRead(p, f)
  PROVE  Service!Hide(p, f) \/ UNCHANGED Service!svars
<1>1. /\ pc[p] = "compile" /\ pc' = [pc EXCEPT ![p] = "compile"] /\ obj' = obj /\ src' = src
      /\ had' = had \/ had' = [had EXCEPT ![p][f] = @ \cup {Absent}]
  BY DEF CompileRead, Goto, fileVars
<1>2. pc' = pc
  BY <1>1 DEF CacheInv, TypeOK
<1>3. Status' = Status /\ Shown' = Shown /\ Status[p] = "asked"
  BY <1>1, <1>2 DEF Status, Shown, NoResult, Unread
<1>. QED BY <1>1, <1>3 DEF Service!Hide, Service!svars, Status, Shown

LEMMA StepMaps ==
  ASSUME CacheInv, NEW p \in Proc, Step(p) \/ Fail(p)
  PROVE  Service!SNext \/ UNCHANGED Service!svars
<1>1. CASE KeyStep(p)
  <2>1. CASE Begin(p)
    BY <2>1, AskMaps DEF Service!SNext
  <2>2. CASE EndText(p) \/ Unkeyed(p) \/ EndFiles(p)
    BY <2>2, SilentMaps DEF EndText, Unkeyed, EndFiles, Asked, fileVars, outVars
  <2>3. ASSUME NEW f \in File, ReadText(p, f) \/ ReadFile(p, f)
        PROVE  UNCHANGED Service!svars
    BY <2>3, SilentMaps DEF ReadText, ReadFile, Asked, fileVars, outVars
  <2>4. ASSUME NEW f \in File, StatFile(p, f)
        PROVE  UNCHANGED Service!svars
    BY <2>4, StutterMaps DEF StatFile, fileVars, outVars
  <2>. QED BY <1>1, <2>1, <2>2, <2>3, <2>4 DEF KeyStep
<1>2. CASE ServeStep(p)
  <2>1. CASE Serve(p)
    BY <2>1, ServedMaps DEF Service!SNext
  <2>2. CASE OpenEntry(p) \/ FindDamage(p)
    BY <2>2, SilentMaps DEF OpenEntry, FindDamage, Asked, fileVars, outVars
  <2>3. CASE NoEntry(p) \/ PassOver(p) \/ Relook(p) \/ Invalidate(p)
    BY <2>3, SilentMaps DEF NoEntry, PassOver, Relook, Invalidate, Miss, LookWhole, Asked,
                            fileVars, outVars
  <2>. QED BY <1>2, <2>1, <2>2, <2>3 DEF ServeStep
<1>3. CASE CompileStep(p)
  <2>1. CASE EndCompile(p)
    <3>1. CASE text[p] # Unread /\ Entered(made[p]) = Entered(text[p])
      <4>1. /\ Goto(p, "retext", File) /\ Asked(p) /\ UNCHANGED <<src, had>>
            /\ \A q \in Proc \ {p} : obj'[q] = obj[q]
        BY <2>1, <3>1 DEF EndCompile, Asked, fileVars, CacheInv, TypeOK
      <4>. QED BY <4>1, SilentMaps
    <3>2. CASE ~(text[p] # Unread /\ Entered(made[p]) = Entered(text[p]))
      BY <2>1, <3>2, CompiledMaps DEF EndCompile, fileVars, Service!SNext
    <3>. QED BY <3>1, <3>2
  <2>2. CASE EndRetext(p) \/ EndRefiles(p)
    BY <2>2, SilentMaps DEF EndRetext, EndRefiles, Asked, fileVars, outVars
  <2>3. ASSUME NEW f \in File, CompileRead(p, f)
        PROVE  Service!SNext \/ UNCHANGED Service!svars
    BY <2>3, HideMaps DEF Service!SNext
  <2>4. ASSUME NEW f \in File, Retext(p, f)
        PROVE  Service!SNext \/ UNCHANGED Service!svars
    <3>1. CASE codeOf[src[f]] = codeOf[text[p][f]]
      BY <2>4, <3>1, SilentMaps DEF Retext, Asked, fileVars, outVars
    <3>2. CASE codeOf[src[f]] # codeOf[text[p][f]]
      BY <2>4, <3>2, CompiledMaps DEF Retext, Late, fileVars, Service!SNext
    <3>. QED BY <3>1, <3>2
  <2>5. ASSUME NEW f \in File, Refile(p, f)
        PROVE  Service!SNext \/ UNCHANGED Service!svars
    <3>1. CASE stamp[f] = seen[p][f] /\ codeOf[src[f]] = codeOf[files[p][f]]
      BY <2>5, <3>1, SilentMaps DEF Refile, Asked, fileVars, outVars
    <3>2. CASE ~(stamp[f] = seen[p][f] /\ codeOf[src[f]] = codeOf[files[p][f]])
      BY <2>5, <3>2, CompiledMaps DEF Refile, Late, fileVars, Service!SNext
    <3>. QED BY <3>1, <3>2
  <2>. QED BY <1>3, <2>1, <2>2, <2>3, <2>4, <2>5 DEF CompileStep
<1>4. CASE PublishStep(p)
  <2>1. CASE AlreadyThere(p) \/ Verdict(p)
    BY <2>1, CompiledMaps DEF AlreadyThere, Verdict, Late, fileVars, Service!SNext
  <2>2. CASE WriteTemp(p) \/ Sync(p) \/ Link(p)
    BY <2>2, SilentMaps DEF WriteTemp, Sync, Link, Asked, fileVars, outVars
  <2>. QED BY <1>4, <2>1, <2>2 DEF PublishStep
<1>5. CASE Fail(p)
  <2>1. CASE ReadFails(p)
    BY <2>1, SilentMaps DEF ReadFails, Miss, Asked, fileVars, outVars
  <2>2. CASE CompileFails(p) \/ Die(p)
    <3>1. Service!GiveUp({p})
      BY <2>2, GiveUpMaps DEF CompileFails, Die, Asked, fileVars
    <3>2. {p} \in SUBSET Proc
      OBVIOUS
    <3>. QED BY <3>1, <3>2 DEF Service!SNext
  <2>3. CASE PublishFails(p)
    BY <2>3, CompiledMaps DEF PublishFails, Late, fileVars, Service!SNext
  <2>. QED BY <1>5, <2>1, <2>2, <2>3 DEF Fail
<1>. QED BY <1>1, <1>2, <1>3, <1>4, <1>5 DEF Step

LEMMA EnvironmentMaps ==
  ASSUME CacheInv, Environment
  PROVE  Service!SNext \/ UNCHANGED Service!svars
<1>1. CASE PowerLoss
  <2>1. PICK P \in SUBSET Proc : P = {q \in Proc : Asked(q)}
    OBVIOUS
  <2>2. Forget(P, "idle") /\ src' = src /\ obj' = obj /\ \A q \in P : Asked(q)
    BY <1>1, <2>1 DEF PowerLoss, fileVars
  <2>3. Service!GiveUp(P)
    BY <2>2, GiveUpMaps
  <2>. QED BY <2>3 DEF Service!SNext
<1>2. ASSUME NEW f \in File, NEW c \in Content, Edit(f, c)
      PROVE  Service!SNext
  BY <1>2, ChangeMaps DEF Service!SNext
<1>3. ASSUME NEW i \in Ino, Rot(i) \/ Collect(i)
      PROVE  UNCHANGED Service!svars
  BY <1>3, StutterMaps DEF Rot, Collect, fileVars, outVars
<1>. QED BY <1>1, <1>2, <1>3 DEF Environment

LEMMA InitMaps == Init => Service!SInit
<1>. SUFFICES ASSUME Init PROVE Service!SInit
  OBVIOUS
<1>1. Status = [q \in Proc |-> "idle"] /\ Shown = [q \in Proc |-> NoResult]
  BY DEF Init, Status, Shown
<1>2. src \in [File -> Content] /\ had = [q \in Proc |-> [f \in File |-> {}]]
  BY DEF Init, Tree
<1>. QED BY <1>1, <1>2 DEF Service!SInit, Service!Tree, Service!Nothing, Status, Shown

(* With the cache between make and the compiler, every compile still ends   *)
(* with the result of contents its files had while it ran, or with none.    *)
THEOREM Implements == Spec => ServesAsCompiled
<1>1. CacheInv /\ [Next]_vars => [Service!SNext]_(Service!svars)
  <2>. SUFFICES ASSUME CacheInv, [Next]_vars
                PROVE  Service!SNext \/ UNCHANGED Service!svars
    OBVIOUS
  <2>1. CASE UNCHANGED vars
    BY <2>1, StutterMaps DEF vars
  <2>. QED BY <2>1, StepMaps, EnvironmentMaps DEF Next
<1>. QED BY <1>1, InitMaps, Invariance, PTL DEF Spec, ServesAsCompiled, Service!ServiceSpec
=============================================================================
