------------------------- MODULE ConfigBuildProofs -------------------------
(***************************************************************************)
(* Theorems about ConfigBuild: "up to date" is true and a deleted config   *)
(* stays deleted, for any number of thorns, providers, options and changes,*)
(* where the sources settle while a build works with them, failed builds   *)
(* are followed by one with -f and no escalated build is requeued.         *)
(***************************************************************************)
EXTENDS ConfigBuild, TLAPS

(* What the objects and the executable of a finished build are like.       *)
Fits(o, t, rec, op) ==
    /\ o \in Source
    /\ o.prov = rec.prov[t]
    /\ o.flesh = rec.flesh
    /\ o.shape = rec.files[t].shape
    /\ o.opts = op

(* The objects of a thorn are what a build with record rec made of it.     *)
MadeThorn(t, rec, op) ==
    IF rec.prov[t] = None THEN obj[t] = {}
    ELSE \E s \in Source : /\ obj[t] = {s}
                           /\ Fits(s, t, rec, op)
                           /\ rec.files[t].text <= s.text
                           /\ s.text <= tree[t][s.prov].text

Made(rec, op) == \A t \in Thorn : MadeThorn(t, rec, op)

Linked(l) == exe = [t \in Thorn |-> IF l[t] = None THEN {} ELSE obj[t]]

(* What make may find of a thorn so that it leaves nothing old in it.      *)
ReadyThorn(t) ==
    IF att.list[t] = None THEN obj[t] = {}
    ELSE \A o \in obj[t] : Alike(o, Live(t))

Ready == \A t \in Thorn : ReadyThorn(t)

(* The probe an attempt works with is what the user has, up to edits.      *)
HasProbe ==
    \/ att.at \in Executing \ {"begun"}
    \/ att.at \in {"staged", "begun"} /\ ~att.queued

ProbeHolds ==
    HasProbe => /\ att.probe.prov = att.list
                /\ att.probe.flesh = flesh
                /\ \A t \in Thorn :
                     att.list[t] # None =>
                        /\ att.probe.files[t].shape = tree[t][att.list[t]].shape
                        /\ att.probe.files[t].text <= tree[t][att.list[t]].text

Recorded == meta # None /\ processed = meta.prov /\ snapshot # None /\ exe # None

(* An idle config after a success, and one that nothing was built of.      *)
Settlement ==
    /\ last = "complete" => Recorded /\ Made(meta, snapshot) /\ Linked(meta.prov)
    /\ last = "none" => obj = Nothing /\ meta = None /\ snapshot = None

(* What the plan of an attempt that has not begun, or has to begin again,  *)
(* relies on.                                                              *)
PlanHolds ==
    att.at \in {"staged", "begun"} /\ dir =>
        \/ att.cleans
        \/ att.full /\ obj = Nothing
        \/ ~att.full /\ Recorded /\ snapshot = att.opts /\ Made(meta, snapshot)
        \/ att.ran /\ Ready

(* What the running build has reached.                                     *)
Progress ==
    /\ att.at = "opened" => att.cleans \/ att.escalated \/ Ready
    /\ att.at = "making" =>
         \A t \in Thorn : IF t \in att.todo THEN ReadyThorn(t)
                          ELSE MadeThorn(t, att.probe, att.opts)
    /\ att.at \in {"linked", "recorded", "snapped"} =>
         Made(att.probe, att.opts) /\ Linked(att.list)
    /\ att.at \in {"recorded", "snapped"} => meta = att.probe
    /\ att.at = "snapped" => snapshot = att.opts

(* How the fields of an attempt and its config go together.                *)
Stage ==
    /\ att.at \in Executing => dir /\ last = "failed" /\ att.ran
    /\ att.at \in {"staged", "begun"} => ~att.escalated
    /\ att.at = "staged" /\ dir /\ last = "failed" => att.ran \/ att.cleans
    /\ att.at = "staged" /\ dir /\ att.ran => last = "failed"
    /\ att.escalated => att.full
    /\ ~dir => last = "none" /\ processed = None /\ att.at \in {"idle", "staged"}

(* A text is the number of a change that was made.                         *)
TextsPast == \A t \in Thorn, p \in Provider : tree[t][p].text <= changes

(* An attempt has options, and compiles only listed thorns.                *)
AttemptTyped ==
    /\ att.at # "idle" => att.opts \in Options
    /\ \A t \in att.todo : att.list[t] # None

TypeInv == TypeOK /\ TextsPast /\ AttemptTyped

IInv ==
    /\ TypeInv
    /\ Stage
    /\ ProbeHolds
    /\ Settlement
    /\ PlanHolds
    /\ Progress

----------------------------------------------------------------------------



LEMMA ReadingTyped == ASSUME TypeOK, NEW l \in Listing PROVE Reading(l) \in ReadingType
<1>1. NoFiles \in [text : Text, shape : Shape \cup {None}]
  BY ConfigBuildAssumption DEF NoFiles, Text
<1>2. \A t \in Thorn : l[t] # None => tree[t][l[t]] \in [text : Text, shape : Shape \cup {None}]
  BY DEF TypeOK, Listing, Files
<1> QED BY <1>1, <1>2 DEF Reading, ReadingType, TypeOK

LEMMA NoReadingTyped == NoReading \in ReadingType
<1>1. NoFiles \in [text : Text, shape : Shape \cup {None}]
  BY ConfigBuildAssumption DEF NoFiles, Text
<1> QED BY <1>1 DEF NoReading, ReadingType, Listing

AttemptType ==
    [at : Executing \cup {"idle", "staged"}, opts : Options \cup {None},
     list : Listing, full : BOOLEAN, cleans : BOOLEAN, queued : BOOLEAN,
     escalated : BOOLEAN, ran : BOOLEAN, probe : ReadingType, todo : SUBSET Thorn]

LEMMA NoAttemptTyped == NoAttempt \in AttemptType
  BY NoReadingTyped DEF NoAttempt, AttemptType, Listing

LEMMA LiveTyped ==
    ASSUME TypeInv, NEW t \in att.todo, att.at # "idle"
    PROVE  Live(t) \in Source
<1>1. att.list[t] \in Provider
  BY DEF TypeInv, TypeOK, AttemptTyped, Listing
<1>2. tree[t][att.list[t]] \in Files
  BY <1>1 DEF TypeInv, TypeOK
<1> QED BY <1>1, <1>2 DEF Live, Source, TypeInv, TypeOK, AttemptTyped, Files

LEMMA InitTyped == Init => TypeInv
<1> SUFFICES ASSUME Init PROVE TypeInv
  OBVIOUS
<1>1. 0 \in Text
  BY ConfigBuildAssumption DEF Text
<1>2. att \in AttemptType
  BY NoAttemptTyped DEF Init
<1>3. tree \in [Thorn -> [Provider -> Files]]
  <2>1. [text : {0}, shape : Shape] \subseteq Files
    BY <1>1 DEF Files
  <2> QED BY <2>1 DEF Init
<1>4. Nothing \in [Thorn -> SUBSET Source]
  BY DEF Nothing
<1>5. TypeOK
  BY <1>1, <1>2, <1>3, <1>4 DEF Init, TypeOK, AttemptType
<1>6. \A t \in Thorn, p \in Provider : tree[t][p].text <= changes
  BY DEF Init
<1> QED BY <1>5, <1>6 DEF Init, TypeInv, TextsPast, AttemptTyped, NoAttempt

LEMMA StepTyped == TypeInv /\ [Next]_vars => TypeInv'
<1> SUFFICES ASSUME TypeInv, [Next]_vars PROVE TypeInv'
  OBVIOUS
<1>a. TypeOK /\ TextsPast /\ AttemptTyped
  BY DEF TypeInv
<1>b. att \in AttemptType
  BY <1>a DEF TypeOK, AttemptType
<1>t. ASSUME UNCHANGED user, UNCHANGED records, dir' \in BOOLEAN,
             obj' \in [Thorn -> SUBSET Source],
             exe' \in [Thorn -> SUBSET Source] \cup {None},
             last' \in {"none", "failed", "complete"},
             att' \in AttemptType,
             att'.at # "idle" => att'.opts \in Options,
             \A t \in att'.todo : att'.list[t] # None
      PROVE  TypeInv'
  BY <1>t, <1>a DEF TypeInv, TypeOK, TextsPast, AttemptTyped, user, records, AttemptType
<1>u. ASSUME Change, UNCHANGED <<dir, records, obj, exe, last, att>>
      PROVE  /\ changes' \in Text /\ changes < changes'
             /\ (/\ opts' \in Options /\ list' \in Listing /\ flesh' \in Flesh
                 /\ tree' \in [Thorn -> [Provider -> Files]]
                 /\ \A t \in Thorn, p \in Provider : tree'[t][p].text <= changes')
                => TypeInv'
  <2>1. changes' \in Text /\ changes < changes'
    BY <1>u, <1>a, ConfigBuildAssumption DEF Change, TypeOK, Text
  <2> QED BY <2>1, <1>u, <1>a DEF TypeInv, TypeOK, TextsPast, AttemptTyped, records
<1>o. ASSUME Change
      PROVE  \A t \in Thorn, p \in Provider : tree[t][p].text <= changes'
  <2>1. \A t \in Thorn, p \in Provider : tree[t][p].text \in Int
    BY <1>a DEF TypeOK, Files, Text
  <2> QED BY <1>o, <1>a, <2>1 DEF Change, TextsPast, TypeOK, Text
<1>1. ASSUME NEW o \in Options, SetOptions(o) PROVE TypeInv'
  BY <1>1, <1>u, <1>o, <1>a DEF SetOptions, TypeOK
<1>2. ASSUME NEW t \in Thorn, NEW p \in Provider \cup {None}, SetProvider(t, p)
      PROVE TypeInv'
  <2>1. list' \in Listing
    BY <1>2, <1>a DEF SetProvider, TypeOK, Listing
  <2> QED BY <1>2, <1>u, <1>o, <1>a, <2>1 DEF SetProvider, TypeOK
<1>3. ASSUME NEW f \in Flesh, MoveFlesh(f) PROVE TypeInv'
  BY <1>3, <1>u, <1>o, <1>a DEF MoveFlesh, TypeOK
<1>4. ASSUME NEW t \in Thorn, NEW p \in Provider, Edit(t, p) PROVE TypeInv'
  <2>1. /\ tree' \in [Thorn -> [Provider -> Files]]
        /\ \A u \in Thorn, q \in Provider :
              tree'[u][q].text = changes' \/ tree'[u][q].text = tree[u][q].text
    <3>1. changes' \in Text /\ changes' = changes + 1
      BY <1>4, <1>u DEF Edit, Change
    <3> QED BY <1>4, <1>a, <3>1 DEF Edit, TypeOK, Files
  <2> QED BY <1>4, <1>u, <1>o, <1>a, <2>1 DEF Edit, TypeOK, Text, records
<1>5. ASSUME NEW t \in Thorn, NEW p \in Provider, NEW s \in Shape, Reshape(t, p, s)
      PROVE TypeInv'
  <2>1. /\ tree' \in [Thorn -> [Provider -> Files]]
        /\ \A u \in Thorn, q \in Provider :
              tree'[u][q].text = changes' \/ tree'[u][q].text = tree[u][q].text
    <3>1. changes' \in Text /\ changes' = changes + 1
      BY <1>5, <1>u DEF Reshape, Change
    <3> QED BY <1>5, <1>a, <3>1 DEF Reshape, TypeOK, Files
  <2> QED BY <1>5, <1>u, <1>o, <1>a, <2>1 DEF Reshape, TypeOK, Text, records
<1>6. ASSUME NEW force \in BOOLEAN, NEW queued \in BOOLEAN, Prepare(force, queued)
      PROVE TypeInv'
  <2>1. Reading(list) \in ReadingType
    BY ReadingTyped, <1>a DEF TypeOK
  <2>2. PICK full \in BOOLEAN, cleans \in BOOLEAN, probe \in ReadingType :
           att' = [NoAttempt EXCEPT
                     !.at = "staged", !.opts = opts, !.list = list, !.queued = queued,
                     !.full = full, !.cleans = cleans, !.probe = probe]
    <3> DEFINE decision == IF force THEN "full" ELSE Decision
    <3>1. /\ (decision # "incremental") \in BOOLEAN
          /\ (decision = "full") \in BOOLEAN
          /\ (IF queued THEN NoReading ELSE Reading(list)) \in ReadingType
      BY <2>1, NoReadingTyped
    <3> QED BY <1>6, <3>1 DEF Prepare
  <2>3. att' \in AttemptType /\ att'.opts \in Options /\ att'.todo = {}
    <3>1. opts \in Options /\ list \in Listing
      BY <1>a DEF TypeOK
    <3> QED BY <2>2, <3>1 DEF NoAttempt, AttemptType
  <2> QED BY <1>6, <1>a, <1>t, <2>3 DEF Prepare, TypeOK
<1>7. ASSUME Abandon PROVE TypeInv'
  BY <1>7, <1>a, <1>t, NoAttemptTyped DEF Abandon, TypeOK, NoAttempt
<1>8. ASSUME Begin PROVE TypeInv'
  <2>1. CASE dir
    <3>1. /\ att' \in AttemptType /\ att'.opts \in Options
          /\ att'.todo = att.todo /\ att'.list = att.list
      BY <1>8, <1>a, <1>b, <2>1 DEF Begin, AttemptType, AttemptTyped, Executing
    <3> QED BY <1>8, <2>1, <3>1, <1>a, <1>t DEF Begin, TypeOK, AttemptTyped
  <2>2. CASE ~dir
    <3>1. att' \in AttemptType /\ att'.at = "idle" /\ att'.todo = {}
      <4>1. att' = NoAttempt
        BY <1>8, <2>2 DEF Begin
      <4>2. NoAttempt.at = "idle" /\ NoAttempt.todo = {}
        BY DEF NoAttempt
      <4> QED BY <4>1, <4>2, NoAttemptTyped
    <3> QED BY <1>8, <2>2, <3>1, <1>a, <1>t DEF Begin, TypeOK
  <2> QED BY <2>1, <2>2
<1>9. ASSUME Open PROVE TypeInv'
  <2>1. Probe \in ReadingType
    BY <1>a, <1>b, ReadingTyped DEF Probe, AttemptType
  <2>2. obj' \in [Thorn -> SUBSET Source]
    BY <1>9, <1>a DEF Open, TypeOK
  <2>3. (~att.full /\ FleshMoved(meta, Probe)) \in BOOLEAN
    BY DEF FleshMoved
  <2>4. /\ att' \in AttemptType /\ att'.opts \in Options
        /\ att'.todo = att.todo /\ att'.list = att.list
    BY <1>9, <1>a, <1>b, <2>1, <2>3 DEF Open, AttemptType, AttemptTyped, Executing
  <2> QED BY <1>9, <2>2, <2>4, <1>a, <1>t DEF Open, TypeOK, AttemptTyped
<1>10. ASSUME Configure PROVE TypeInv'
  <2>1. /\ att' \in AttemptType /\ att'.opts \in Options
        /\ \A t \in att'.todo : att'.list[t] # None
    BY <1>10, <1>a, <1>b DEF Configure, AttemptType, AttemptTyped, Executing
  <2>2. obj' \in [Thorn -> SUBSET Source]
    BY <1>10, <1>a DEF Configure, TypeOK, Nothing
  <2> QED BY <1>10, <1>a, <1>t, <2>1, <2>2 DEF Configure, TypeOK
<1>11. ASSUME NEW t \in Thorn, Make(t) PROVE TypeInv'
  <2>1. Live(t) \in Source
    BY <1>11, LiveTyped DEF Make
  <2>2. obj[t] \in SUBSET Source
    BY <1>a DEF TypeOK
  <2>3. obj' \in [Thorn -> SUBSET Source]
    BY <1>11, <2>1, <2>2, <1>a DEF Make, TypeOK
  <2>4. /\ att' \in AttemptType /\ att'.opts \in Options
        /\ att'.todo \subseteq att.todo /\ att'.list = att.list
    BY <1>11, <1>a, <1>b DEF Make, AttemptType, AttemptTyped
  <2> QED BY <1>11, <2>3, <2>4, <1>a, <1>t DEF Make, TypeOK, AttemptTyped
<1>12. ASSUME Link PROVE TypeInv'
  <2>1. exe' \in [Thorn -> SUBSET Source]
    BY <1>12, <1>a DEF Link, TypeOK
  <2>2. /\ att' \in AttemptType /\ att'.opts \in Options
        /\ att'.todo = att.todo /\ att'.list = att.list
    BY <1>12, <1>a, <1>b DEF Link, AttemptType, AttemptTyped, Executing
  <2> QED BY <1>12, <2>1, <2>2, <1>a, <1>t DEF Link, TypeOK, AttemptTyped
<1>13. ASSUME StoreMeta \/ InstallOptions \/ Finish PROVE TypeInv'
  <2>1. /\ att' \in AttemptType
        /\ att'.at # "idle" => att'.opts \in Options
    BY <1>13, <1>a, <1>b, NoAttemptTyped
       DEF StoreMeta, InstallOptions, Finish, AttemptType, AttemptTyped, Executing, NoAttempt
  <2>2. \A t \in att'.todo : att'.list[t] # None
    BY <1>13, <1>a, <1>b
       DEF StoreMeta, InstallOptions, Finish, AttemptTyped, NoAttempt, AttemptType, Executing
  <2>3. /\ meta' \in ReadingType \cup {None} /\ snapshot' \in Options \cup {None}
        /\ processed' \in Listing \cup {None} /\ last' \in {"none", "failed", "complete"}
    BY <1>13, <1>a, <1>b DEF StoreMeta, InstallOptions, Finish, TypeOK, AttemptType, records
  <2>4. UNCHANGED <<user, dir, obj, exe>>
    BY <1>13 DEF StoreMeta, InstallOptions, Finish
  <2>5. TypeOK'
    BY <2>1, <2>3, <2>4, <1>a DEF TypeOK, user, AttemptType
  <2>6. TextsPast'
    BY <2>4, <1>a DEF TextsPast, user
  <2> QED BY <2>1, <2>2, <2>5, <2>6 DEF TypeInv, AttemptTyped
<1>14. ASSUME Fail PROVE TypeInv'
  BY <1>14, <1>a, <1>t, NoAttemptTyped DEF Fail, TypeOK, NoAttempt
<1>15. ASSUME Requeue PROVE TypeInv'
  <2>1. /\ att' \in AttemptType /\ att'.opts \in Options /\ att'.todo = {}
    BY <1>15, <1>a, <1>b, NoReadingTyped DEF Requeue, AttemptType, AttemptTyped, Executing
  <2> QED BY <1>15, <2>1, <1>a, <1>t DEF Requeue, TypeOK
<1>16. ASSUME DeleteConfig PROVE TypeInv'
  BY <1>16, <1>a DEF DeleteConfig, TypeInv, TypeOK, TextsPast, AttemptTyped, user, Nothing
<1>17. ASSUME UNCHANGED vars PROVE TypeInv'
  BY <1>17, <1>a DEF vars, user, records, TypeInv, TypeOK, TextsPast, AttemptTyped
<1> QED BY <1>1, <1>2, <1>3, <1>4, <1>5, <1>6, <1>7, <1>8, <1>9, <1>10, <1>11, <1>12,
          <1>13, <1>14, <1>15, <1>16, <1>17 DEF Next

(* The variables keep their types, in any number of builds and changes.    *)
THEOREM TypeCorrect == Spec => []TypeOK
<1>1. TypeInv => TypeOK
  BY DEF TypeInv
<1> QED BY <1>1, InitTyped, StepTyped, PTL DEF Spec

----------------------------------------------------------------------------
(* The assumptions under which the decision is right.                      *)
Careful == SettledTree /\ ForcesAfterFailure /\ ~RequeueEscalated

UserStep ==
    \/ \E o \in Options : SetOptions(o)
    \/ \E t \in Thorn, p \in Provider \cup {None} : SetProvider(t, p)
    \/ \E f \in Flesh : MoveFlesh(f)
    \/ \E t \in Thorn, p \in Provider : Edit(t, p)
    \/ \E t \in Thorn, p \in Provider, s \in Shape : Reshape(t, p, s)

(* What the user does leaves the config alone; texts only grow, and flesh  *)
(* and shapes stay where the sources are to be settled.                    *)
LEMMA UserKeeps ==
    ASSUME TypeInv, UserStep
    PROVE  /\ UNCHANGED <<dir, records, obj, exe, last, att>>
           /\ \A t \in Thorn, p \in Provider :
                /\ tree[t][p].text \in Int /\ tree'[t][p].text \in Int
                /\ tree[t][p].text <= tree'[t][p].text
           /\ ~Settled => /\ flesh' = flesh
                          /\ \A t \in Thorn, p \in Provider : tree'[t][p].shape = tree[t][p].shape
<1>1. \A t \in Thorn, p \in Provider :
         /\ tree[t][p].text \in Int /\ tree[t][p].text <= changes
  BY DEF TypeInv, TypeOK, Files, Text, TextsPast
<1>2. changes \in Int
  BY DEF TypeInv, TypeOK, Text
<1>3. tree \in [Thorn -> [Provider -> Files]]
  BY DEF TypeInv, TypeOK
<1>4. CASE \E o \in Options : SetOptions(o)
  BY <1>1, <1>4 DEF SetOptions
<1>5. CASE \E t \in Thorn, p \in Provider \cup {None} : SetProvider(t, p)
  BY <1>1, <1>5 DEF SetProvider
<1>6. CASE \E f \in Flesh : MoveFlesh(f)
  BY <1>1, <1>6 DEF MoveFlesh
<1>7. ASSUME NEW t \in Thorn, NEW p \in Provider, Edit(t, p)
      PROVE  /\ UNCHANGED <<dir, records, obj, exe, last, att, flesh>>
             /\ \A u \in Thorn, q \in Provider :
                  /\ tree'[u][q].shape = tree[u][q].shape
                  /\ tree'[u][q].text = tree[u][q].text \/ tree'[u][q].text = changes + 1
  BY <1>7, <1>3 DEF Edit, Files
<1>8. ASSUME NEW t \in Thorn, NEW p \in Provider, NEW s \in Shape, Reshape(t, p, s)
      PROVE  /\ UNCHANGED <<dir, records, obj, exe, last, att, flesh>>
             /\ Settled
             /\ \A u \in Thorn, q \in Provider :
                  tree'[u][q].text = tree[u][q].text \/ tree'[u][q].text = changes + 1
  BY <1>8, <1>3 DEF Reshape, Files
<1> QED BY <1>1, <1>2, <1>4, <1>5, <1>6, <1>7, <1>8 DEF UserStep

LEMMA UserStepKeeps ==
    ASSUME Careful, IInv, UserStep
    PROVE  Stage' /\ ProbeHolds' /\ Settlement' /\ PlanHolds' /\ Progress'
<1>u. /\ UNCHANGED <<dir, records, obj, exe, last, att>>
      /\ \A t \in Thorn, p \in Provider :
            /\ tree[t][p].text \in Int /\ tree'[t][p].text \in Int
            /\ tree[t][p].text <= tree'[t][p].text
      /\ ~Settled => /\ flesh' = flesh
                     /\ \A t \in Thorn, p \in Provider : tree'[t][p].shape = tree[t][p].shape
  BY UserKeeps DEF IInv
<1>t. TypeOK /\ att \in AttemptType
  BY DEF IInv, TypeInv, TypeOK, AttemptType
<1>l. \A t \in Thorn : att.list[t] # None => att.list[t] \in Provider
  BY <1>t DEF AttemptType, Listing
<1>i. Stage /\ ProbeHolds /\ Settlement /\ PlanHolds /\ Progress
  BY DEF IInv
<1>m. \A t \in Thorn : MadeThorn(t, meta, snapshot) => MadeThorn(t, meta, snapshot)'
  BY <1>u DEF MadeThorn, Fits, Source, records, Text
<1>n. \A t \in Thorn : MadeThorn(t, att.probe, att.opts) => MadeThorn(t, att.probe, att.opts)'
  BY <1>u DEF MadeThorn, Fits, Source, records, Text
<1>r. ~Settled => \A t \in Thorn : ReadyThorn(t) => ReadyThorn(t)'
  BY <1>u, <1>l DEF ReadyThorn, Alike, Live
<1>1. Stage'
  BY <1>u, <1>i DEF Stage, records
<1>2. ProbeHolds'
  <2> SUFFICES ASSUME HasProbe' PROVE ProbeHolds'
    BY DEF ProbeHolds
  <2>1. HasProbe /\ ~Settled
    BY <1>u, <1>t DEF HasProbe, Settled, Careful, Executing, AttemptType
  <2>2. att.probe \in ReadingType
    BY <1>t DEF AttemptType
  <2>3. \A t \in Thorn : att.probe.files[t].text \in Int
    BY <2>2 DEF ReadingType, Text
  <2> QED BY <2>1, <2>3, <1>u, <1>l, <1>i DEF ProbeHolds
<1>3. Settlement'
  BY <1>u, <1>m, <1>i DEF Settlement, Recorded, Made, Linked, records
<1>4. PlanHolds'
  <2>1. att.ran /\ att.at \in {"staged", "begun"} => ~Settled
    BY DEF Settled, Careful, Executing
  <2> QED BY <2>1, <1>u, <1>m, <1>r, <1>i DEF PlanHolds, Recorded, Made, Ready, records
<1>5. Progress'
  <2>1. att.at \in Executing => ~Settled
    BY DEF Settled, Careful
  <2>2. (att.at = "opened" => att.cleans \/ att.escalated \/ Ready)'
    BY <2>1, <1>u, <1>r, <1>i DEF Progress, Ready, Executing
  <2>3. (att.at = "making" => \A t \in Thorn : IF t \in att.todo THEN ReadyThorn(t)
                                   ELSE MadeThorn(t, att.probe, att.opts))'
    BY <2>1, <1>u, <1>r, <1>n, <1>i DEF Progress, Executing
  <2>4. (att.at \in {"linked", "recorded", "snapped"} =>
            Made(att.probe, att.opts) /\ Linked(att.list))'
    BY <1>u, <1>n, <1>i DEF Progress, Made, Linked
  <2> QED BY <2>2, <2>3, <2>4, <1>u, <1>i DEF Progress, records
<1> QED BY <1>1, <1>2, <1>3, <1>4, <1>5

----------------------------------------------------------------------------
(* What the decision says when it has nothing to say, or little.           *)
LEMMA DecisionSays ==
    ASSUME TypeOK
    PROVE
    /\ Decision = "current" =>
         /\ snapshot = opts /\ ~FleshMoved(meta, Reading(list))
         /\ processed # None => processed = list
         /\ Invalidated(meta, Reading(list)) = {}
         /\ meta # None => TextDelta(meta, Reading(list)) = {}
    /\ Decision = "incremental" => snapshot = opts
    /\ Decision = "fresh" <=> snapshot = None
    /\ Decision \in {"current", "incremental", "fresh", "full"}
<1> DEFINE now == Reading(list)
           inc == \/ processed # None /\ processed # list
                  \/ Invalidated(meta, now) # {}
                  \/ meta # None /\ TextDelta(meta, now) # {}
<1> opts # None
  BY ConfigBuildAssumption DEF TypeOK
<1>1. CASE snapshot = None
  <2>1. Decision = "fresh"
    BY <1>1, opts # None DEF Decision
  <2> QED BY <1>1, <2>1
<1>2. CASE snapshot # None /\ (snapshot # opts \/ FleshMoved(meta, now))
  <2>1. Decision = "full"
    BY <1>2 DEF Decision
  <2> QED BY <1>2, <2>1
<1>3. CASE snapshot # None /\ snapshot = opts /\ ~FleshMoved(meta, now) /\ inc
  <2>1. Decision = "incremental"
    BY <1>3 DEF Decision
  <2> QED BY <1>3, <2>1
<1>4. CASE snapshot # None /\ snapshot = opts /\ ~FleshMoved(meta, now) /\ ~inc
  <2>1. Decision = "current"
    BY <1>4 DEF Decision
  <2> QED BY <1>4, <2>1
<1> QED BY <1>1, <1>2, <1>3, <1>4

LEMMA PrepareKeeps ==
    ASSUME Careful, IInv, NEW force \in BOOLEAN, NEW queued \in BOOLEAN,
           Prepare(force, queued)
    PROVE  Stage' /\ ProbeHolds' /\ Settlement' /\ PlanHolds' /\ Progress'
<1>t. TypeOK /\ Stage /\ Settlement
  BY DEF IInv, TypeInv
<1> DEFINE decision == IF force THEN "full" ELSE Decision
<1>a. /\ att'.at = "staged" /\ att'.opts = opts /\ att'.list = list
      /\ att'.queued = queued /\ att'.ran = FALSE /\ att'.escalated = FALSE
      /\ att'.full = (decision # "incremental") /\ att'.cleans = (decision = "full")
      /\ att'.probe = IF queued THEN NoReading ELSE Reading(list)
      /\ dir' /\ UNCHANGED <<user, records, obj, exe, last>>
      /\ last = "failed" => force
      /\ force \/ ~UpToDate
  BY DEF Prepare, NoAttempt, Careful
<1>1. Stage'
  BY <1>a DEF Stage, Executing
<1>2. ProbeHolds'
  <2>1. \A t \in Thorn, p \in Provider : tree[t][p].text \in Int
    BY <1>t DEF TypeOK, Files, Text
  <2>2. \A t \in Thorn : list[t] # None => list[t] \in Provider
    BY <1>t DEF TypeOK, Listing
  <2>3. ~queued => /\ att'.probe.prov = list
                   /\ att'.probe.flesh = flesh
                   /\ \A t \in Thorn : list[t] # None => att'.probe.files[t] = tree[t][list[t]]
    BY <1>a DEF Reading
  <2> QED BY <1>a, <2>1, <2>2, <2>3 DEF ProbeHolds, HasProbe, user, Executing
<1>3. Settlement'
  BY <1>a, <1>t DEF Settlement, Recorded, Made, MadeThorn, Fits, Linked, records, user
<1>4. PlanHolds'
  <2>1. CASE force
    BY <2>1, <1>a DEF PlanHolds
  <2>2. CASE ~force /\ last = "none"
    <3>1. obj' = Nothing /\ Decision = "fresh"
      BY <2>2, <1>a, <1>t, DecisionSays DEF Settlement
    <3> QED BY <2>2, <3>1, <1>a DEF PlanHolds
  <2>3. CASE ~force /\ last = "complete"
    <3>1. Decision # "current" /\ Decision # "fresh"
      BY <2>3, <1>a, <1>t, DecisionSays DEF Settlement, Recorded, UpToDate
    <3>2. CASE Decision = "full"
      BY <2>3, <3>2, <1>a DEF PlanHolds
    <3>3. CASE Decision = "incremental"
      <4>1. snapshot' = att'.opts
        BY <3>3, <1>a, <1>t, DecisionSays DEF records
      <4>2. (Recorded /\ Made(meta, snapshot))'
        BY <2>3, <1>a, <1>3 DEF Settlement
      <4>3. ~att'.full
        BY <2>3, <3>3, <1>a
      <4> QED BY <4>1, <4>2, <4>3 DEF PlanHolds
    <3> QED BY <3>1, <3>2, <3>3, <1>t, DecisionSays
  <2> QED BY <2>1, <2>2, <2>3, <1>a, <1>t DEF TypeOK
<1>5. Progress'
  BY <1>a DEF Progress
<1> QED BY <1>1, <1>2, <1>3, <1>4, <1>5

----------------------------------------------------------------------------
LEMMA BeginKeeps ==
    ASSUME Careful, IInv, Begin
    PROVE  Stage' /\ ProbeHolds' /\ Settlement' /\ PlanHolds' /\ Progress'
<1>t. /\ TypeOK /\ Stage /\ Settlement /\ ProbeHolds /\ PlanHolds /\ att \in AttemptType
  BY DEF IInv, TypeInv, TypeOK, AttemptType
<1>u. att.at = "staged" /\ UNCHANGED <<user, dir, records, obj, exe>>
  BY DEF Begin
<1>1. CASE ~dir
  <2>1. att'.at = "idle" /\ att'.escalated = FALSE /\ last' = last
    BY <1>1 DEF Begin, NoAttempt
  <2> QED BY <2>1, <1>u, <1>1, <1>t
      DEF Stage, ProbeHolds, HasProbe, Settlement, PlanHolds, Progress, Recorded, Made,
          MadeThorn, Fits, Linked, records, user, Executing
<1>2. CASE dir
  <2>1. /\ att' = [att EXCEPT !.at = "begun", !.ran = TRUE] /\ last' = "failed"
    BY <1>2 DEF Begin
  <2>2. /\ att'.at = "begun" /\ att'.ran /\ att'.opts = att.opts /\ att'.list = att.list
        /\ att'.full = att.full /\ att'.cleans = att.cleans /\ att'.queued = att.queued
        /\ att'.probe = att.probe /\ att'.escalated = att.escalated
    BY <2>1, <1>t DEF AttemptType
  <2>3. Stage'
    BY <2>1, <2>2, <1>u, <1>t, <1>2 DEF Stage
  <2>4. ProbeHolds'
    BY <2>2, <1>u, <1>t DEF ProbeHolds, HasProbe, user
  <2>5. Settlement'
    BY <2>1 DEF Settlement
  <2>6. PlanHolds'
    BY <2>1, <2>2, <1>u, <1>t, <1>2
       DEF PlanHolds, Recorded, Made, MadeThorn, Fits, Ready, ReadyThorn, Alike, Live,
           records, user
  <2>7. Progress'
    BY <2>2 DEF Progress
  <2> QED BY <2>3, <2>4, <2>5, <2>6, <2>7
<1> QED BY <1>1, <1>2

----------------------------------------------------------------------------
(* A step of the running build that leaves what the user has alone keeps   *)
(* the probe true and needs no plan.                                       *)
LEMMA OpenKeeps ==
    ASSUME Careful, IInv, Open
    PROVE  Stage' /\ ProbeHolds' /\ Settlement' /\ PlanHolds' /\ Progress'
<1>t. /\ TypeOK /\ Stage /\ ProbeHolds /\ PlanHolds /\ att \in AttemptType
  BY DEF IInv, TypeInv, TypeOK, AttemptType
<1> DEFINE escalated == ~att.full /\ FleshMoved(meta, Probe)
<1>u. att.at = "begun" /\ dir /\ last = "failed" /\ att.ran
      /\ UNCHANGED <<user, dir, records, exe, last>>
  BY <1>t DEF Open, Stage, Executing
<1>b. att' = [att EXCEPT !.at = "opened", !.probe = Probe,
                         !.full = @ \/ escalated, !.escalated = escalated]
  BY DEF Open
<1>a. /\ att'.at = "opened" /\ att'.ran /\ att'.opts = att.opts /\ att'.list = att.list
      /\ att'.full = (att.full \/ escalated) /\ att'.escalated = escalated
      /\ att'.cleans = att.cleans /\ att'.queued = att.queued
      /\ att'.probe = Probe /\ att'.todo = att.todo
  BY <1>b, <1>t, <1>u DEF AttemptType
<1>o. obj' = IF att.full \/ escalated THEN obj
             ELSE [t \in Thorn |-> IF t \in Invalidated(meta, Probe) THEN {} ELSE obj[t]]
  BY DEF Open
<1>1. Stage'
  BY <1>u, <1>a DEF Stage
<1>2. ProbeHolds' /\ Probe.flesh = flesh /\ Probe.prov = att.list
  <2>0. att.list \in Listing
    BY <1>t DEF AttemptType
  <2>1. \A t \in Thorn : att.list[t] # None => att.list[t] \in Provider
    BY <2>0 DEF Listing
  <2>2. CASE att.queued
    <3>1. Probe = Reading(att.list)
      BY <2>2 DEF Probe
    <3>2. /\ Probe.prov = att.list /\ Probe.flesh = flesh
          /\ \A t \in Thorn : att.list[t] # None => Probe.files[t] = tree[t][att.list[t]]
      BY <3>1 DEF Reading
    <3>3. \A t \in Thorn, p \in Provider : tree[t][p].text \in Int
      BY <1>t DEF TypeOK, Files, Text
    <3> QED BY <3>2, <3>3, <2>1, <1>u, <1>a DEF ProbeHolds, user
  <2>3. CASE ~att.queued
    <3>1. Probe = att.probe /\ HasProbe
      BY <2>3, <1>u DEF Probe, HasProbe
    <3> QED BY <3>1, <1>t, <1>u, <1>a DEF ProbeHolds, user
  <2> QED BY <2>2, <2>3
<1>3. Settlement'
  BY <1>u DEF Settlement
<1>4. PlanHolds'
  BY <1>a DEF PlanHolds
<1>5. Progress'
  <2> SUFFICES ASSUME ~att.cleans, ~escalated PROVE Ready'
    BY <1>a DEF Progress
  <2>l. /\ \A t \in Thorn : Live(t)' = Live(t)
        /\ \A t \in Thorn : att.list[t] # None => Live(t).shape = Probe.files[t].shape
    BY <1>a, <1>u, <1>2 DEF Live, user, ProbeHolds, HasProbe, Executing
  <2>1. CASE att.full /\ obj = Nothing
    BY <2>1, <1>o, <1>a DEF Ready, ReadyThorn, Nothing
  <2>2. CASE Ready
    <3>1. \A t \in Thorn : obj'[t] \subseteq obj[t]
      BY <1>o, <1>t DEF TypeOK
    <3> QED BY <3>1, <2>2, <2>l, <1>a DEF Ready, ReadyThorn, Alike
  <2>3. CASE ~att.full /\ Recorded /\ snapshot = att.opts /\ Made(meta, snapshot)
    <3>1. meta # None /\ meta.flesh = flesh
      BY <2>3, <1>2 DEF Recorded, FleshMoved
    <3>2. obj' = [t \in Thorn |-> IF t \in Invalidated(meta, Probe) THEN {} ELSE obj[t]]
      BY <2>3, <1>o
    <3>3. Invalidated(meta, Probe) = ProviderDelta(meta, Probe) \cup ShapeDelta(meta, Probe)
      BY <3>1 DEF Invalidated
    <3> SUFFICES ASSUME NEW t \in Thorn PROVE ReadyThorn(t)'
      BY DEF Ready
    <3>4. CASE t \in Invalidated(meta, Probe)
      BY <3>2, <3>4 DEF ReadyThorn
    <3>5. CASE t \notin Invalidated(meta, Probe)
      <4>1. obj'[t] = obj[t] /\ MadeThorn(t, meta, snapshot)
        BY <3>2, <3>5, <2>3 DEF Made
      <4>2. meta.prov[t] # None =>
               meta.prov[t] = att.list[t] /\ meta.files[t].shape = Probe.files[t].shape
        BY <3>3, <3>5, <1>2 DEF ProviderDelta, ShapeDelta
      <4>3. CASE meta.prov[t] = None
        BY <4>1, <4>3 DEF MadeThorn, ReadyThorn
      <4>4. CASE meta.prov[t] # None
        <5>1. \A o \in obj[t] : Alike(o, Live(t))
          BY <4>1, <4>2, <4>4, <2>l, <2>3, <3>1 DEF MadeThorn, Fits, Alike, Live
        <5> QED BY <5>1, <4>1, <4>2, <4>4, <2>l, <1>a DEF ReadyThorn, Alike
      <4> QED BY <4>3, <4>4
    <3> QED BY <3>4, <3>5
  <2> QED BY <2>1, <2>2, <2>3, <1>t, <1>u DEF PlanHolds
<1> QED BY <1>1, <1>2, <1>3, <1>4, <1>5

----------------------------------------------------------------------------
LEMMA ConfigureKeeps ==
    ASSUME Careful, IInv, Configure
    PROVE  Stage' /\ ProbeHolds' /\ Settlement' /\ PlanHolds' /\ Progress'
<1>t. /\ TypeOK /\ Stage /\ ProbeHolds /\ Progress /\ att \in AttemptType
  BY DEF IInv, TypeInv, TypeOK, AttemptType
<1>u. att.at = "opened" /\ dir /\ last = "failed" /\ att.ran
      /\ UNCHANGED <<user, dir, records, exe, last>>
  BY <1>t DEF Configure, Stage, Executing
<1>b. att' = [att EXCEPT !.at = "making", !.todo = {t \in Thorn : att.list[t] # None}]
  BY DEF Configure
<1>a. /\ att'.at = "making" /\ att'.ran /\ att'.opts = att.opts /\ att'.list = att.list
      /\ att'.full = att.full /\ att'.escalated = att.escalated
      /\ att'.probe = att.probe /\ att'.todo = {t \in Thorn : att.list[t] # None}
  BY <1>b, <1>t, <1>u DEF AttemptType
<1>o. obj' = IF att.cleans \/ att.escalated THEN Nothing ELSE obj
  BY DEF Configure
<1>1. Stage'
  BY <1>u, <1>a, <1>t DEF Stage
<1>2. ProbeHolds'
  BY <1>u, <1>a, <1>t DEF ProbeHolds, HasProbe, user, Executing
<1>3. Settlement'
  BY <1>u DEF Settlement
<1>4. PlanHolds'
  BY <1>a DEF PlanHolds
<1>5. Progress'
  <2>1. Ready'
    BY <1>o, <1>u, <1>a, <1>t DEF Progress, Ready, ReadyThorn, Nothing, Alike, Live, user
  <2>2. att.probe.prov = att.list
    BY <1>u, <1>t DEF ProbeHolds, HasProbe, Executing
  <2>3. \A t \in Thorn : t \notin att'.todo => MadeThorn(t, att.probe, att.opts)'
    BY <2>1, <2>2, <1>a DEF Ready, ReadyThorn, MadeThorn
  <2> QED BY <2>1, <2>3, <1>a DEF Progress, Ready
<1> QED BY <1>1, <1>2, <1>3, <1>4, <1>5

LEMMA MakeKeeps ==
    ASSUME Careful, IInv, NEW t \in Thorn, Make(t)
    PROVE  Stage' /\ ProbeHolds' /\ Settlement' /\ PlanHolds' /\ Progress'
<1>t. /\ TypeInv /\ TypeOK /\ Stage /\ ProbeHolds /\ Progress /\ att \in AttemptType
  BY DEF IInv, TypeInv, TypeOK, AttemptType
<1>u. att.at = "making" /\ dir /\ last = "failed" /\ att.ran /\ t \in att.todo
      /\ UNCHANGED <<user, dir, records, exe, last>>
  BY <1>t DEF Make, Stage, Executing
<1>a. /\ att'.at = "making" /\ att'.ran /\ att'.opts = att.opts /\ att'.list = att.list
      /\ att'.full = att.full /\ att'.escalated = att.escalated
      /\ att'.probe = att.probe /\ att'.todo = att.todo \ {t}
  BY <1>t, <1>u DEF Make, AttemptType
<1>1. Stage'
  BY <1>u, <1>a, <1>t DEF Stage
<1>2. ProbeHolds'
  BY <1>u, <1>a, <1>t DEF ProbeHolds, HasProbe, user, Executing
<1>3. Settlement'
  BY <1>u DEF Settlement
<1>4. PlanHolds'
  BY <1>a DEF PlanHolds
<1>5. Progress'
  <2>p. HasProbe
    BY <1>u DEF HasProbe, Executing
  <2>l. att.list[t] # None /\ att.list[t] \in Provider /\ Live(t) \in Source
    BY <1>t, <1>u, LiveTyped DEF TypeInv, AttemptTyped, AttemptType, Listing
  <2>1. ReadyThorn(t)
    BY <1>u, <1>t DEF Progress
  <2>2. obj' = [obj EXCEPT ![t] = {Live(t)}]
    BY <2>1, <2>l DEF Make, ReadyThorn
  <2>3. obj'[t] = {Live(t)}
    BY <2>2, <1>t DEF TypeOK
  <2>4. /\ Live(t).prov = att.list[t] /\ Live(t).flesh = flesh /\ Live(t).opts = att.opts
        /\ Live(t).shape = tree[t][att.list[t]].shape
        /\ Live(t).text = tree[t][att.list[t]].text
    BY DEF Live
  <2>5. tree[t][att.list[t]].text \in Int
    BY <2>l, <1>t DEF TypeOK, Files, Text
  <2>6. MadeThorn(t, att.probe, att.opts)'
    BY <2>3, <2>4, <2>5, <2>l, <2>p, <1>a, <1>u, <1>t DEF ProbeHolds, MadeThorn, Fits, user
  <2>7. ASSUME NEW u \in Thorn, u # t
        PROVE  IF u \in att'.todo THEN ReadyThorn(u)'
               ELSE MadeThorn(u, att.probe, att.opts)'
    <3>1. obj'[u] = obj[u]
      BY <2>2, <2>7, <1>t DEF TypeOK
    <3>2. CASE u \in att'.todo
      BY <3>1, <3>2, <2>7, <1>a, <1>u, <1>t DEF Progress, ReadyThorn, Alike, Live, user
    <3>3. CASE u \notin att'.todo
      BY <3>1, <3>3, <2>7, <1>a, <1>u, <1>t DEF Progress, MadeThorn, Fits, user
    <3> QED BY <3>2, <3>3
  <2>8. \A u \in Thorn : IF u \in att'.todo THEN ReadyThorn(u)'
                         ELSE MadeThorn(u, att.probe, att.opts)'
    BY <2>6, <2>7, <1>a
  <2> QED BY <2>8, <1>a DEF Progress
<1> QED BY <1>1, <1>2, <1>3, <1>4, <1>5

LEMMA LinkKeeps ==
    ASSUME Careful, IInv, Link
    PROVE  Stage' /\ ProbeHolds' /\ Settlement' /\ PlanHolds' /\ Progress'
<1>t. /\ TypeOK /\ Stage /\ ProbeHolds /\ Progress /\ att \in AttemptType
  BY DEF IInv, TypeInv, TypeOK, AttemptType
<1>u. att.at = "making" /\ dir /\ last = "failed" /\ att.ran /\ att.todo = {}
      /\ UNCHANGED <<user, dir, records, obj, last>>
  BY <1>t DEF Link, Stage, Executing
<1>b. att' = [att EXCEPT !.at = "linked"]
  BY DEF Link
<1>a. /\ att'.at = "linked" /\ att'.ran /\ att'.opts = att.opts /\ att'.list = att.list
      /\ att'.full = att.full /\ att'.escalated = att.escalated
      /\ att'.probe = att.probe
  BY <1>b, <1>t, <1>u DEF AttemptType
<1>1. Stage'
  BY <1>u, <1>a, <1>t DEF Stage
<1>2. ProbeHolds'
  BY <1>u, <1>a, <1>t DEF ProbeHolds, HasProbe, user, Executing
<1>3. Settlement'
  BY <1>u DEF Settlement
<1>4. PlanHolds'
  BY <1>a DEF PlanHolds
<1>5. Progress'
  <2>1. (\A t \in Thorn : MadeThorn(t, att.probe, att.opts))'
    BY <1>u, <1>a, <1>t DEF Progress, MadeThorn, Fits, user
  <2>2. Linked(att.list)'
    BY <1>u, <1>a DEF Link, Linked
  <2> QED BY <2>1, <2>2, <1>a DEF Progress, Made
<1> QED BY <1>1, <1>2, <1>3, <1>4, <1>5

LEMMA RecordingKeeps ==
    ASSUME Careful, IInv, StoreMeta \/ InstallOptions
    PROVE  Stage' /\ ProbeHolds' /\ Settlement' /\ PlanHolds' /\ Progress'
<1>t. /\ TypeOK /\ Stage /\ ProbeHolds /\ Progress /\ att \in AttemptType
  BY DEF IInv, TypeInv, TypeOK, AttemptType
<1>u. att.at \in {"linked", "recorded"} /\ dir /\ last = "failed" /\ att.ran
      /\ UNCHANGED <<user, dir, processed, obj, exe, last>>
  BY <1>t DEF StoreMeta, InstallOptions, Stage, Executing
<1>a. /\ att'.at \in {"recorded", "snapped"}
      /\ att'.ran /\ att'.opts = att.opts /\ att'.list = att.list
      /\ att'.full = att.full /\ att'.escalated = att.escalated
      /\ att'.probe = att.probe
  BY <1>t, <1>u DEF StoreMeta, InstallOptions, AttemptType
<1>1. Stage'
  BY <1>u, <1>a, <1>t DEF Stage
<1>2. ProbeHolds'
  BY <1>u, <1>a, <1>t DEF ProbeHolds, HasProbe, user, Executing
<1>3. Settlement'
  BY <1>u DEF Settlement
<1>4. PlanHolds'
  BY <1>a DEF PlanHolds
<1>5. Progress'
  <2>1. (\A t \in Thorn : MadeThorn(t, att.probe, att.opts))'
    BY <1>u, <1>a, <1>t DEF Progress, Made, MadeThorn, Fits, user
  <2>2. Linked(att.list)'
    BY <1>u, <1>a, <1>t DEF Progress, Linked
  <2>3. meta' = att'.probe
    BY <1>a, <1>t DEF StoreMeta, InstallOptions, Progress
  <2>4. att'.at = "snapped" => snapshot' = att'.opts
    BY <1>a, <1>t DEF StoreMeta, InstallOptions, AttemptType
  <2> QED BY <2>1, <2>2, <2>3, <2>4, <1>a DEF Progress, Made
<1> QED BY <1>1, <1>2, <1>3, <1>4, <1>5

LEMMA FinishKeeps ==
    ASSUME Careful, IInv, Finish
    PROVE  Stage' /\ ProbeHolds' /\ Settlement' /\ PlanHolds' /\ Progress'
<1>t. /\ TypeOK /\ Stage /\ ProbeHolds /\ Progress /\ AttemptTyped /\ att \in AttemptType
  BY DEF IInv, TypeInv, TypeOK, AttemptType
<1>u. att.at = "snapped" /\ dir
      /\ UNCHANGED <<user, dir, meta, snapshot, obj, exe>>
      /\ processed' = att.list /\ last' = "complete" /\ att' = NoAttempt
  BY <1>t DEF Finish, Stage, Executing
<1>a. att'.at = "idle" /\ att'.escalated = FALSE
  BY <1>u DEF NoAttempt
<1>1. Stage' /\ ProbeHolds' /\ PlanHolds' /\ Progress'
  BY <1>a, <1>u DEF Stage, ProbeHolds, HasProbe, PlanHolds, Progress, Executing
<1>2. Settlement'
  <2>1. /\ meta = att.probe /\ snapshot = att.opts /\ att.opts \in Options
        /\ att.probe.prov = att.list /\ att.probe \in ReadingType
        /\ Made(att.probe, att.opts) /\ Linked(att.list)
    BY <1>u, <1>t DEF Progress, ProbeHolds, HasProbe, AttemptTyped, AttemptType, Executing
  <2>2. meta # None /\ snapshot # None /\ exe # None
    <3>1. exe \in [Thorn -> SUBSET Source]
      BY <2>1, <1>t DEF Linked, TypeOK
    <3>2. att.opts # None
      BY <2>1, ConfigBuildAssumption
    <3> QED BY <2>1, <3>1, <3>2, ConfigBuildAssumption
  <2> QED BY <2>1, <2>2, <1>u DEF Settlement, Recorded, Made, MadeThorn, Fits, Linked, user
<1> QED BY <1>1, <1>2

(* Abandon and Fail leave the config as it is and no attempt; Fail is the  *)
(* end of a build that has begun, whose outcome is recorded as not complete.*)
LEMMA EndKeeps ==
    ASSUME Careful, IInv, Abandon \/ Fail
    PROVE  Stage' /\ ProbeHolds' /\ Settlement' /\ PlanHolds' /\ Progress'
<1>t. TypeOK /\ Stage /\ Settlement
  BY DEF IInv, TypeInv
<1>u. UNCHANGED <<user, dir, records, obj, exe, last>> /\ att' = NoAttempt
  BY DEF Abandon, Fail
<1>a. att'.at = "idle" /\ att'.escalated = FALSE
  BY <1>u DEF NoAttempt
<1>1. Stage' /\ ProbeHolds' /\ PlanHolds' /\ Progress'
  BY <1>a, <1>u, <1>t DEF Stage, ProbeHolds, HasProbe, PlanHolds, Progress, Executing, records
<1>2. Settlement'
  BY <1>u, <1>t DEF Settlement, Recorded, Made, MadeThorn, Fits, Linked, records, user
<1> QED BY <1>1, <1>2

LEMMA RequeueKeeps ==
    ASSUME Careful, IInv, Requeue
    PROVE  Stage' /\ ProbeHolds' /\ Settlement' /\ PlanHolds' /\ Progress'
<1>t. /\ TypeOK /\ Stage /\ ProbeHolds /\ PlanHolds /\ Progress /\ att \in AttemptType
      /\ AttemptTyped
  BY DEF IInv, TypeInv, TypeOK, AttemptType
<1>u. /\ att.at \in Executing /\ dir /\ last = "failed" /\ att.ran /\ ~att.escalated
      /\ att.queued
      /\ UNCHANGED <<user, dir, records, obj, exe, last>>
  BY <1>t DEF Requeue, Stage, Careful
<1>b. att' = [att EXCEPT !.at = "staged", !.escalated = FALSE,
                         !.probe = NoReading, !.todo = {}]
  BY DEF Requeue
<1>a. /\ att'.at = "staged" /\ att'.ran /\ att'.opts = att.opts /\ att'.list = att.list
      /\ att'.full = att.full /\ att'.cleans = att.cleans /\ ~att'.escalated
      /\ att'.queued
  BY <1>b, <1>t, <1>u DEF AttemptType
<1>1. Stage'
  BY <1>u, <1>a, <1>t DEF Stage, Executing
<1>2. ProbeHolds'
  BY <1>a DEF ProbeHolds, HasProbe, Executing
<1>3. Settlement'
  BY <1>u DEF Settlement
<1>4. PlanHolds'
  <2> SUFFICES ASSUME ~att.cleans
               PROVE  \/ (att.full /\ obj = Nothing)'
                      \/ (~att.full /\ Recorded /\ snapshot = att.opts /\ Made(meta, snapshot))'
                      \/ Ready'
    BY <1>a DEF PlanHolds
  <2>r. Ready => Ready'
    BY <1>u, <1>a DEF Ready, ReadyThorn, Alike, Live, user
  <2>1. CASE att.at = "begun"
    BY <2>1, <2>r, <1>u, <1>a, <1>t
       DEF PlanHolds, Recorded, Made, MadeThorn, Fits, records, user
  <2>2. CASE att.at = "opened"
    BY <2>2, <2>r, <1>u, <1>t DEF Progress
  <2>p. att.at \in {"making", "linked", "recorded", "snapped"} =>
          /\ att.probe.prov = att.list /\ att.probe.flesh = flesh
          /\ \A t \in Thorn : att.list[t] # None =>
                att.probe.files[t].shape = tree[t][att.list[t]].shape
    BY <1>t DEF ProbeHolds, HasProbe, Executing
  <2>m. ASSUME NEW t \in Thorn, MadeThorn(t, att.probe, att.opts),
               att.at \in {"making", "linked", "recorded", "snapped"}
        PROVE  ReadyThorn(t)
    BY <2>m, <2>p DEF MadeThorn, ReadyThorn, Fits, Alike, Live
  <2>3. CASE att.at = "making"
    <3>1. Ready
      BY <2>3, <2>m, <1>t DEF Progress, Ready
    <3> QED BY <3>1, <2>r
  <2>4. CASE att.at \in {"linked", "recorded", "snapped"}
    <3>1. Ready
      BY <2>4, <2>m, <1>t DEF Progress, Ready, Made
    <3> QED BY <3>1, <2>r
  <2> QED BY <2>1, <2>2, <2>3, <2>4, <1>u DEF Executing
<1>5. Progress'
  BY <1>a DEF Progress
<1> QED BY <1>1, <1>2, <1>3, <1>4, <1>5

LEMMA DeleteKeeps ==
    ASSUME Careful, IInv, DeleteConfig
    PROVE  Stage' /\ ProbeHolds' /\ Settlement' /\ PlanHolds' /\ Progress'
<1>t. TypeOK /\ Stage /\ ProbeHolds
  BY DEF IInv, TypeInv
<1>u. /\ att.at \in {"idle", "staged"} /\ dir' = FALSE /\ last' = "none"
      /\ meta' = None /\ snapshot' = None /\ processed' = None /\ obj' = Nothing
      /\ UNCHANGED <<user, att>>
  BY DEF DeleteConfig
<1>1. Stage'
  BY <1>u, <1>t DEF Stage, Executing
<1>2. ProbeHolds'
  BY <1>u, <1>t DEF ProbeHolds, HasProbe, user
<1>3. Settlement' /\ PlanHolds' /\ Progress'
  BY <1>u DEF Settlement, PlanHolds, Progress
<1> QED BY <1>1, <1>2, <1>3

----------------------------------------------------------------------------
(* What the records, the objects and the attempt say of each other at every *)
(* stage of every build.                                                    *)
THEOREM Inductive == Careful /\ Spec => []IInv
<1> SUFFICES ASSUME Careful PROVE Spec => []IInv
  OBVIOUS
<1>1. Init => IInv
  <2> SUFFICES ASSUME Init, TypeInv PROVE IInv
    BY InitTyped
  <2>1. att.at = "idle" /\ att.escalated = FALSE
    BY DEF Init, NoAttempt
  <2> QED BY <2>1 DEF Init, IInv, Stage, ProbeHolds, HasProbe, Settlement, PlanHolds,
                      Progress, Executing
<1>2. IInv /\ [Next]_vars => IInv'
  <2> SUFFICES ASSUME IInv, [Next]_vars
               PROVE  Stage' /\ ProbeHolds' /\ Settlement' /\ PlanHolds' /\ Progress'
    BY StepTyped DEF IInv
  <2>1. CASE UserStep
    BY <2>1, UserStepKeeps
  <2>2. CASE \E force, queued \in BOOLEAN : Prepare(force, queued)
    BY <2>2, PrepareKeeps
  <2>3. CASE \E t \in Thorn : Make(t)
    BY <2>3, MakeKeeps
  <2>4. CASE UNCHANGED vars
    BY <2>4 DEF IInv, Stage, ProbeHolds, HasProbe, Settlement, PlanHolds, Progress, Recorded,
                Made, MadeThorn, Fits, Linked, Ready, ReadyThorn, Alike, Live,
                vars, user, records
  <2> QED BY <2>1, <2>2, <2>3, <2>4, BeginKeeps, OpenKeeps, ConfigureKeeps, LinkKeeps,
             RecordingKeeps, FinishKeeps, EndKeeps, RequeueKeeps, DeleteKeeps
          DEF Next, UserStep
<1> QED BY <1>1, <1>2, PTL DEF Spec

(* "Up to date" is true for any number of thorns, providers, options and   *)
(* changes, where sources settle under a build, -f follows a failed one    *)
(* and no escalated build is requeued.                                     *)
THEOREM UpToDateHolds == Careful /\ Spec => []UpToDateIsTrue
<1>1. IInv => UpToDateIsTrue
  <2> SUFFICES ASSUME IInv, last = "complete", UpToDate
               PROVE  exe = [t \in Thorn |-> IF list[t] = None THEN {} ELSE {Now(t)}]
    BY DEF UpToDateIsTrue
  <2>t. TypeOK /\ Settlement
    BY DEF IInv, TypeInv
  <2> DEFINE now == Reading(list)
  <2>1. /\ meta # None /\ processed = meta.prov /\ Made(meta, snapshot) /\ Linked(meta.prov)
        /\ processed # None
    BY <2>t, ConfigBuildAssumption DEF Settlement, Recorded, TypeOK, ReadingType
  <2>2. /\ snapshot = opts /\ meta.flesh = flesh /\ meta.prov = list
        /\ ShapeDelta(meta, now) = {} /\ TextDelta(meta, now) = {}
    BY <2>1, <2>t, DecisionSays DEF UpToDate, FleshMoved, Reading, Invalidated
  <2>3. ASSUME NEW t \in Thorn, list[t] # None PROVE obj[t] = {Now(t)}
    <3>1. list[t] \in Provider
      BY <2>3, <2>t DEF TypeOK, Listing
    <3>2. now.files[t] = tree[t][list[t]] /\ now.prov = list
      BY <2>3 DEF Reading
    <3>3. meta.files[t].shape = tree[t][list[t]].shape /\ meta.files[t].text = tree[t][list[t]].text
      BY <2>2, <2>3, <3>2 DEF ShapeDelta, TextDelta
    <3>4. PICK s \in Source : /\ obj[t] = {s} /\ Fits(s, t, meta, snapshot)
                              /\ meta.files[t].text <= s.text
                              /\ s.text <= tree[t][s.prov].text
      BY <2>1, <2>2, <2>3 DEF Made, MadeThorn
    <3>5. s.text = tree[t][list[t]].text
      <4>1. s.prov = list[t] /\ s.text \in Int /\ tree[t][list[t]].text \in Int
        BY <3>1, <3>4, <2>2, <2>t DEF Fits, Source, Text, TypeOK, Files
      <4> QED BY <4>1, <3>3, <3>4
    <3>6. s = [prov |-> s.prov, text |-> s.text, shape |-> s.shape, flesh |-> s.flesh,
               opts |-> s.opts]
      BY DEF Source
    <3> QED BY <3>3, <3>4, <3>5, <3>6, <2>2 DEF Fits, Now
  <2> QED BY <2>1, <2>2, <2>3 DEF Linked
<1> QED BY <1>1, Inductive, PTL

(* A deleted config stays deleted until it is built anew.                  *)
THEOREM DeletedHolds == Careful /\ Spec => []DeletedStaysDeleted
<1>1. IInv => DeletedStaysDeleted
  BY DEF IInv, Stage, Settlement, DeletedStaysDeleted
<1> QED BY <1>1, Inductive, PTL
=============================================================================
