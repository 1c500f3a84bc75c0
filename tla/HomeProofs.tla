----------------------------- MODULE HomeProofs -----------------------------
(***************************************************************************)
(* Proofs about the components of Home, for every value of the constants:  *)
(* the refetch of a repository (Fetch), database.json and the trees it     *)
(* names (Registry), the executable cache and `sim create` (ExeCache), the *)
(* builds in bin/ (Releases), and test runs (TestRuns), each with its own  *)
(* invariant; and that what holds of each holds of Home.                   *)
(***************************************************************************)
EXTENDS Home, TLAPS

(***************************************************************************)
(* Fetch, when the user does none of the upsets: no step of a refetch      *)
(* takes away what the user wrote unless it is kept elsewhere, and what is *)
(* adopted as fetched is the commit that was fetched.                      *)
(***************************************************************************)

Places == {"idle", "probe", "backup", "retarget", "receive", "mark", "refs",
           "checkout", "sweep", "report", "adopt", "orphan", "ask", "drop"}
Reasons == {"absent", "clean", "op", "url", "detached", "unfinished", "modified",
            "branch", "unborn", "commits", "unknown"}
CmdType ==
  [at : Places, force : BOOLEAN, intr : BOOLEAN, reason : Reasons, paths : SUBSET File,
   blind : SUBSET File, old : Tree, target : Tree, todo : SUBSET File, fetched : BOOLEAN]
Typing ==
  /\ TypeOK
  /\ cmd \in CmdType
  /\ odd \in {"no", "branch", "url"}
  /\ marker # None => marker \in [from : Tree, to : Commit]

\* A path that upstream never uses.
Foreign(f) == \A c \in Commit : c[f] = None
\* Nothing of the user's is at f that a checkout or a sweep could take away,
\* but for what a refetch missed.
Safe(f) == work[f] \in Own => Foreign(f) \/ work[f] \in kept \cup missed

\* While a refetch prepares to write and writes, it finds nothing unsaved.
Writing == {"retarget", "receive", "mark", "refs", "checkout", "sweep"}
\* Once it has the tip.
Aiming == {"mark", "refs", "checkout", "sweep"}

\* What holds of the repository whoever moves.
RepoInv ==
  /\ \A f \in File : Foreign(f) => head[f] = None /\ index[f] = None
  /\ \A f \in File : index[f] = None => Safe(f)
  /\ \A f \in File : head[f] \in Own => head[f] \in kept
  /\ marker # None => \A f \in File : marker.from[f] \in Own => marker.from[f] \in kept
  /\ ~here => head = Bare /\ index = Bare /\ work = Bare

\* What holds of the refetch.
CmdInv ==
  /\ cmd.at = "backup" =>
       here /\ \E looks \in Looks : /\ cmd.reason = Reason(looks) /\ cmd.paths = PathsOf(looks)
                                   /\ cmd.blind = Blind(looks)
  /\ cmd.at \in Writing => \A f \in File : Safe(f)
  /\ cmd.at \in Writing /\ Cloning => \A f \in File : work[f] \notin Own
  /\ cmd.at \in Aiming => cmd.target \in Commit
  /\ cmd.at \in {"refs", "checkout", "sweep"} => here
  /\ cmd.at \in {"mark", "refs", "checkout"} =>
       \A f \in cmd.todo : cmd.target[f] # None
  /\ cmd.at \in {"mark", "refs", "checkout"} =>
       \A f \in File : Foreign(f) => cmd.old[f] = None
  /\ cmd.at = "sweep" => \A f \in cmd.todo : ~Foreign(f)
  /\ cmd.at = "drop" => \A f \in File : work[f] \in Own => work[f] \in kept

Inv == Typing /\ RepoInv /\ CmdInv

-----------------------------------------------------------------------------
(* The user's texts are none of upstream's.                                *)
LEMMA OwnApart ==
  /\ Own \cap (Nat \cup {None}) = {}
  /\ \A c \in Commit, f \in File : c[f] \notin Own
  /\ Bare \in Tree /\ \A f \in File : Bare[f] = None
  /\ Commit \subseteq Tree
BY FetchAssumption DEF Own, Bare, Tree

(* Where git sees nothing modified, what is of the user's is committed or  *)
(* at a path that upstream never uses.                                     *)
LEMMA CleanSafe ==
  ASSUME RepoInv, Modified = {}
  PROVE  \A f \in File : Safe(f)
<1>. SUFFICES ASSUME NEW f \in File, index[f] # None PROVE Safe(f)
  BY DEF RepoInv
<1>1. head[f] = index[f] /\ work[f] = index[f]
  BY DEF Modified
<1>. QED BY <1>1 DEF RepoInv, Safe

(* What the probe may say of a repository that is not upset: it says so    *)
(* when what is modified is not in the paths it gives, or it was blind.    *)
LEMMA ReasonSays ==
  ASSUME odd \in {"no", "branch", "url"}, NEW looks \in Looks
  PROVE  /\ Reason(looks) \in Reasons \ {"absent", "op", "detached"}
         /\ PathsOf(looks) \subseteq File /\ Blind(looks) \subseteq File
         /\ \/ Blind(looks) = File
            \/ Modified = {}
            \/ Reason(looks) \in {"url", "modified"} /\ PathsOf(looks) = Modified
            \/ Reason(looks) = "unfinished" /\ LocalEdits(Modified, Blind(looks)) = {}
         /\ Reason(looks) = "clean" => odd = "no" /\ Modified = {}
<1>0. /\ looks.inspected \in BOOLEAN /\ looks.walked \in BOOLEAN
      /\ looks.unread \subseteq Modified /\ Modified \subseteq File
  BY DEF Looks, Modified
<1>1. CASE ~looks.inspected
  BY <1>0, <1>1 DEF Reason, Reasons, PathsOf, Blind
<1>2. CASE looks.inspected /\ odd = "url"
  BY <1>0, <1>2 DEF Reason, Reasons, PathsOf, Blind
<1>3. CASE looks.inspected /\ odd # "url" /\ ~looks.walked
  BY <1>0, <1>3 DEF Reason, Reasons, PathsOf, Blind
<1>4. CASE looks.inspected /\ odd # "url" /\ looks.walked /\ Modified # {}
  <2>1. Blind(looks) = looks.unread
    BY <1>4 DEF Blind
  <2>2. CASE CutAlign /\ LocalEdits(Modified, looks.unread) = {}
    <3>1. Reason(looks) = "unfinished"
      BY <1>4, <2>2 DEF Reason
    <3>. QED BY <1>0, <1>4, <2>1, <2>2, <3>1 DEF Reasons, PathsOf
  <2>3. CASE ~(CutAlign /\ LocalEdits(Modified, looks.unread) = {})
    <3>1. Reason(looks) = "modified"
      BY <1>4, <2>3 DEF Reason
    <3>. QED BY <1>0, <1>4, <2>1, <3>1 DEF Reasons, PathsOf
  <2>. QED BY <2>2, <2>3
<1>5. CASE looks.inspected /\ odd # "url" /\ looks.walked /\ Modified = {}
  BY <1>0, <1>5 DEF Reason, Reasons, PathsOf, Blind
<1>. QED BY <1>0, <1>1, <1>2, <1>3, <1>4, <1>5

(* A local edit is what is neither committed nor left of a cut align.      *)
LEMMA EditsOrKept ==
  ASSUME Typing, RepoInv, NEW unread, NEW f \in Modified \ unread,
         f \notin LocalEdits(Modified, unread), work[f] \in Own
  PROVE  work[f] \in kept
<1>1. f \in File /\ work[f] # None
  BY OwnApart DEF Modified
<1>2. work[f] = head[f] \/ (CutAlign /\ work[f] = marker.from[f])
  BY <1>1 DEF LocalEdits
<1>. QED BY <1>1, <1>2 DEF RepoInv, CutAlign

-----------------------------------------------------------------------------
LEMMA InitInv == Init => Inv
<1>. SUFFICES ASSUME Init PROVE Inv
  OBVIOUS
<1>0. Idle \in CmdType
  BY OwnApart DEF Idle, CmdType, Places, Reasons
<1>1. Typing
  <2>1. {head, index, work} \subseteq Tree
    BY OwnApart DEF Init
  <2>2. edits \in 0 .. MaxEdits /\ cuts \in 0 .. MaxCuts /\ kept \subseteq Own
    BY FetchAssumption DEF Init
  <2>3. cmd.at = "idle"
    BY DEF Init, Idle
  <2>. QED BY <1>0, <2>1, <2>2, <2>3 DEF Init, Typing, TypeOK
<1>2. RepoInv
  BY OwnApart DEF Init, RepoInv, Safe
<1>3. CmdInv
  BY DEF Init, CmdInv, Idle, Writing, Aiming
<1>. QED BY <1>1, <1>2, <1>3 DEF Inv

-----------------------------------------------------------------------------
(* Where a refetch is neither saving nor writing, nothing is asked of it.  *)
Resting == {"idle", "probe", "report", "adopt", "orphan", "ask"}
LEMMA AtRest == cmd'.at \in Resting => CmdInv'
BY DEF Resting, CmdInv, Writing, Aiming

(* A step that leaves the repository alone and loses no copy.              *)
LEMMA RepoStays ==
  /\ RepoInv /\ UNCHANGED repoVars /\ kept \subseteq kept' /\ missed \subseteq missed'
  => RepoInv'
BY DEF RepoInv, repoVars, Safe, Foreign

-----------------------------------------------------------------------------
(* The user.                                                               *)
UserStep ==
  \/ \E f \in File : Edit(f) \/ Remove(f) \/ Stage(f)
  \/ UserCommits \/ Reset \/ Turn

LEMMA UserKeepsInv ==
  ASSUME Upsets = {}, Inv, UserStep
  PROVE  Inv'
<1>1. /\ here /\ cmd.at \in {"idle", "ask"}
      /\ UNCHANGED <<here, marker, record, missed, cuts, cmd>>
  BY DEF UserStep, Edit, Remove, Stage, UserCommits, Reset, Turn, HandsOn, userFrame
<1>2. CmdInv'
  BY <1>1, AtRest DEF Resting
<1>3. ASSUME NEW f \in File, Edit(f) PROVE Inv'
  <2>1. index[f] # None \/ Foreign(f)
    BY <1>3 DEF Edit, Foreign
  <2>2. Typing'
    <3>1. -(edits + 1) \in Own /\ edits + 1 \in 0 .. MaxEdits
      BY <1>3, FetchAssumption DEF Edit, Inv, Typing, TypeOK, Own
    <3>2. work' \in Tree
      BY <1>3, <3>1 DEF Edit, Inv, Typing, TypeOK, Tree
    <3>. QED BY <1>1, <1>3, <3>1, <3>2 DEF Edit, Inv, Typing, TypeOK
  <2>3. RepoInv'
    <3>1. \A g \in File : index'[g] = None => Safe(g)'
      BY <1>3, <2>1 DEF Edit, userFrame, Inv, RepoInv, Typing, TypeOK, Tree, Safe, Foreign
    <3>. QED BY <1>1, <1>3, <3>1 DEF Edit, Inv, RepoInv, Foreign
  <2>. QED BY <1>2, <2>2, <2>3 DEF Inv
<1>4. ASSUME NEW f \in File, Remove(f) PROVE Inv'
  <2>1. work' \in Tree
    BY <1>4 DEF Remove, Inv, Typing, TypeOK, Tree
  <2>2. RepoInv'
    <3>1. \A g \in File : index'[g] = None => Safe(g)'
      BY <1>4, OwnApart DEF Remove, userFrame, Inv, RepoInv, Typing, TypeOK, Tree, Safe, Foreign
    <3>. QED BY <1>1, <1>4, <3>1 DEF Remove, Inv, RepoInv, Foreign
  <2>. QED BY <1>1, <1>2, <1>4, <2>1, <2>2 DEF Remove, Inv, Typing, TypeOK
<1>5. ASSUME NEW f \in File, Stage(f) PROVE Inv'
  <2>1. index' \in Tree
    BY <1>5 DEF Stage, Inv, Typing, TypeOK, Tree
  <2>2. RepoInv'
    <3>1. \A g \in File : index'[g] = None => Safe(g)'
      BY <1>5, OwnApart DEF Stage, userFrame, Inv, RepoInv, Typing, TypeOK, Tree, Safe, Foreign
    <3>2. \A g \in File : Foreign(g) => index'[g] = None
      BY <1>5 DEF Stage, Inv, RepoInv, Typing, TypeOK, Tree
    <3>. QED BY <1>1, <1>5, <3>1, <3>2 DEF Stage, Inv, RepoInv, Foreign
  <2>. QED BY <1>1, <1>2, <1>5, <2>1, <2>2 DEF Stage, Inv, Typing, TypeOK
<1>6. ASSUME UserCommits PROVE Inv'
  <2>. DEFINE all == [f \in File |-> IF index[f] # None THEN work[f] ELSE None]
  <2>1. all \in Tree /\ head' = all /\ index' = all
    BY <1>6 DEF UserCommits, Inv, Typing, TypeOK, Tree
  <2>2. /\ kept' = kept \cup ({all[f] : f \in File} \cap Own) /\ work' = work
        /\ missed' = missed
    BY <1>6 DEF UserCommits, userFrame
  <2>3. RepoInv'
    <3>1. \A g \in File : all[g] = None => Safe(g)'
      BY <2>1, <2>2, OwnApart DEF Inv, RepoInv, Safe, Foreign
    <3>2. \A g \in File : Foreign(g) => all[g] = None
      BY DEF Inv, RepoInv
    <3>3. \A g \in File : all[g] \in Own => all[g] \in kept'
      BY <2>2
    <3>. HIDE DEF all
    <3>. QED BY <1>1, <2>1, <2>2, <3>1, <3>2, <3>3 DEF Inv, RepoInv, Foreign
  <2>. HIDE DEF all
  <2>4. kept' \subseteq Own
    BY <2>2 DEF Inv, Typing, TypeOK
  <2>. QED BY <1>1, <1>2, <1>6, <2>1, <2>3, <2>4 DEF UserCommits, Inv, Typing, TypeOK
<1>7. ASSUME Reset PROVE Inv'
  <2>1. work' \in Tree /\ index' = head /\ UNCHANGED <<head, kept>>
    BY <1>7 DEF Reset, Inv, Typing, TypeOK, Tree
  <2>2. RepoInv'
    <3>1. \A g \in File : index'[g] = None => Safe(g)'
      BY <1>7, OwnApart DEF Reset, userFrame, Inv, RepoInv, Safe, Foreign
    <3>. QED BY <1>1, <2>1, <3>1 DEF Inv, RepoInv, Foreign
  <2>. QED BY <1>1, <1>2, <1>7, <2>1, <2>2 DEF Reset, Inv, Typing, TypeOK
<1>8. ASSUME Turn PROVE Inv'
  <2>1. odd' \in {"no", "branch", "url"}
    BY <1>8 DEF Turn
  <2>2. RepoInv'
    BY <1>1, <1>8 DEF Turn, Inv, RepoInv, Safe, Foreign
  <2>. QED BY <1>1, <1>2, <1>8, <2>1, <2>2 DEF Turn, Inv, Typing, TypeOK
<1>. QED BY <1>3, <1>4, <1>5, <1>6, <1>7, <1>8 DEF UserStep

-----------------------------------------------------------------------------
(* The refetch before it writes, and around a prune.                       *)
LookStep ==
  \/ \E force, listed \in BOOLEAN : Begin(force, listed)
  \/ Probe \/ ProbeMisses \/ Backup \/ Report \/ Adopt \/ Leave \/ PruneLook \/ PruneSave
  \/ Interrupt \/ Stops \/ Dies

LEMMA LookKeepsInv ==
  ASSUME Inv, LookStep
  PROVE  Inv'
<1>0. UNCHANGED repoVars /\ kept \subseteq kept' /\ missed \subseteq missed'
  BY DEF LookStep, Begin, Probe, ProbeMisses, Backup, Report, Adopt, Leave, PruneLook, PruneSave,
         Interrupt, Stops, Dies, frame
<1>1. RepoInv'
  BY <1>0, RepoStays DEF Inv
<1>2. cmd' \in CmdType
  <2>0. Idle \in CmdType
    BY OwnApart DEF Idle, CmdType, Places, Reasons
  <2>1. ASSUME NEW force \in BOOLEAN, NEW listed \in BOOLEAN, Begin(force, listed)
        PROVE  cmd' \in CmdType
    BY <2>0, <2>1 DEF Begin, CmdType, Places
  <2>2. CASE Probe
    <3>1. ~here => cmd' = [cmd EXCEPT !.reason = "absent", !.at = "receive"]
      BY <2>2 DEF Probe
    <3>3. CASE ~here
      BY <3>1, <3>3 DEF Inv, Typing, CmdType, Places, Reasons
    <3>4. CASE here
      <4>1. PICK looks \in Looks :
              \E at \in Places :
                cmd' = [cmd EXCEPT !.reason = Reason(looks), !.paths = PathsOf(looks),
                                   !.blind = Blind(looks), !.at = at]
        BY <2>2, <3>4 DEF Probe, Places
      <4>2. /\ Reason(looks) \in Reasons /\ PathsOf(looks) \subseteq File
            /\ Blind(looks) \subseteq File
        BY ReasonSays DEF Inv, Typing
      <4>. QED BY <4>1, <4>2 DEF Inv, Typing, CmdType
    <3>. QED BY <3>3, <3>4
  <2>3. CASE Backup
    BY <2>3 DEF Backup, Inv, Typing, CmdType, Places
  <2>4. CASE ProbeMisses \/ Report \/ Adopt
    BY <2>0, <2>4 DEF ProbeMisses, Report, Adopt, Goto, Inv, Typing, CmdType, Places
  <2>5. CASE Leave \/ PruneLook \/ PruneSave
    BY <2>5 DEF Leave, PruneLook, PruneSave, Goto, Inv, Typing, CmdType, Places
  <2>6. CASE Interrupt \/ Stops \/ Dies
    BY <2>0, <2>6 DEF Interrupt, Stops, Dies, Inv, Typing, CmdType
  <2>. QED BY <2>1, <2>2, <2>3, <2>4, <2>5, <2>6 DEF LookStep
<1>3. Typing'
  <2>1. record' \in BOOLEAN
    BY DEF LookStep, Begin, Probe, ProbeMisses, Backup, Report, Adopt, Leave, PruneLook, PruneSave,
           Interrupt, Stops, Dies, Inv, Typing, TypeOK, CmdType
  <2>2. kept' \subseteq Own /\ missed' \subseteq Own
    BY DEF LookStep, Begin, Probe, ProbeMisses, Backup, Report, Adopt, Leave, PruneLook, PruneSave,
           Interrupt, Stops, Dies, frame, Inv, Typing, TypeOK
  <2>3. edits' = edits /\ (cuts' = cuts \/ (cuts < MaxCuts /\ cuts' = cuts + 1))
    BY DEF LookStep, Begin, Probe, ProbeMisses, Backup, Report, Adopt, Leave, PruneLook, PruneSave,
           Interrupt, Stops, Dies, frame, Bounded
  <2>5. cuts' \in 0 .. MaxCuts
    BY <2>3, FetchAssumption DEF Inv, Typing, TypeOK
  <2>4. cmd'.at \in Places
    BY <1>2 DEF CmdType
  <2>. QED BY <1>0, <1>2, <2>1, <2>2, <2>3, <2>4, <2>5
       DEF repoVars, Inv, Typing, TypeOK, Places
<1>4. CmdInv'
  <2>1. ASSUME NEW force \in BOOLEAN, NEW listed \in BOOLEAN, Begin(force, listed)
        PROVE  CmdInv'
    BY <2>1, AtRest DEF Begin, Idle, Resting
  <2>2. CASE Probe
    <3>1. CASE ~here
      <4>1. cmd' = [cmd EXCEPT !.reason = "absent", !.at = "receive"]
        BY <2>2, <3>1 DEF Probe
      <4>2. \A f \in File : work'[f] \notin Own
        BY <1>0, <3>1, OwnApart DEF repoVars, Inv, RepoInv
      <4>3. \A f \in File : Safe(f)'
        BY <4>2 DEF Safe
      <4>. QED BY <4>1, <4>2, <4>3 DEF Inv, Typing, CmdType, CmdInv, Writing, Aiming
    <3>2. CASE here
      <4>1. PICK looks \in Looks :
              cmd' = [cmd EXCEPT !.reason = Reason(looks), !.paths = PathsOf(looks),
                                 !.blind = Blind(looks),
                                 !.at = IF Reason(looks) = "clean" THEN "receive"
                                        ELSE IF cmd.force THEN "backup" ELSE "report"]
        BY <2>2, <3>2 DEF Probe
      <4>2. CASE Reason(looks) = "clean"
        <5>1. \A f \in File : Safe(f)
          BY <4>2, ReasonSays, CleanSafe DEF Inv, Typing
        <5>2. \A f \in File : Safe(f)'
          BY <2>2, <5>1 DEF Probe, frame, repoVars, Safe, Foreign
        <5>3. cmd'.at = "receive" /\ cmd'.reason = "clean"
          BY <4>1, <4>2 DEF Inv, Typing, CmdType
        <5>. QED BY <5>2, <5>3 DEF CmdInv, Writing, Aiming, Cloning
      <4>3. CASE Reason(looks) # "clean" /\ cmd.force
        <5>1. /\ cmd'.at = "backup" /\ cmd'.reason = Reason(looks)
              /\ cmd'.paths = PathsOf(looks) /\ cmd'.blind = Blind(looks)
          BY <4>1, <4>3 DEF Inv, Typing, CmdType
        <5>2. Looks' = Looks /\ Reason(looks)' = Reason(looks) /\ PathsOf(looks)' = PathsOf(looks) /\ here'
          BY <1>0, <3>2 DEF repoVars, Looks, Reason, PathsOf, Modified, LocalEdits, CutAlign
        <5>3. Blind(looks)' = Blind(looks)
          BY DEF Blind
        <5>. QED BY <5>1, <5>2, <5>3 DEF CmdInv, Writing, Aiming
      <4>4. CASE Reason(looks) # "clean" /\ ~cmd.force
        BY <4>1, <4>4, AtRest DEF Inv, Typing, CmdType, Resting
      <4>. QED BY <4>2, <4>3, <4>4
    <3>. QED BY <3>1, <3>2
  <2>3. CASE Backup
    <3>1. cmd'.at = "retarget" /\ cmd'.reason = cmd.reason
      BY <2>3 DEF Backup, Inv, Typing, CmdType
    <3>2. PICK looks \in Looks : /\ cmd.reason = Reason(looks) /\ cmd.paths = PathsOf(looks)
                                 /\ cmd.blind = Blind(looks)
      BY <2>3 DEF Backup, Inv, CmdInv
    <3>5. PICK unread \in SUBSET {f \in cmd.paths : work[f] # None} :
            /\ kept' = IF cmd.reason \notin {"modified", "url"} THEN kept
                       ELSE kept \cup ({work[f] : f \in LocalEdits(cmd.paths, unread)} \cap Own)
            /\ missed' = missed \cup ({work[f] : f \in cmd.blind \cup unread} \cap Own)
      BY <2>3 DEF Backup
    <3>3. ASSUME NEW f \in File, work[f] \in Own
          PROVE  Foreign(f) \/ work[f] \in kept' \cup missed'
      <4>1. CASE f \in cmd.blind \cup unread
        BY <3>3, <3>5, <4>1
      <4>2. CASE f \notin Modified
        <5>1. index[f] = None \/ work[f] = head[f]
          BY <4>2 DEF Modified
        <5>. QED BY <3>3, <5>1, <1>0 DEF Inv, RepoInv, Safe
      <4>3. CASE f \in Modified \ (cmd.blind \cup unread) /\ cmd.reason \in {"url", "modified"} /\ cmd.paths = Modified
        <5>1. CASE f \in LocalEdits(Modified, unread)
          BY <3>3, <3>5, <4>3, <5>1
        <5>2. CASE f \notin LocalEdits(Modified, unread)
          BY <3>3, <4>3, <5>2, <1>0, EditsOrKept DEF Inv
        <5>. QED BY <5>1, <5>2
      <4>4. CASE f \in Modified \ (cmd.blind \cup unread) /\ LocalEdits(Modified, cmd.blind) = {}
        BY <3>3, <4>4, <1>0, EditsOrKept DEF Inv
      <4>. QED BY <3>2, <4>1, <4>2, <4>3, <4>4, ReasonSays DEF Inv, Typing
    <3>4. \A f \in File : Safe(f)'
      BY <1>0, <3>3 DEF repoVars, Safe, Foreign
    <3>6. cmd.reason # "absent"
      BY <3>2, ReasonSays DEF Inv, Typing
    <3>. QED BY <3>1, <3>4, <3>6 DEF CmdInv, Writing, Aiming, Cloning
  <2>4. CASE ProbeMisses \/ Report \/ Adopt
    BY <2>4, AtRest DEF ProbeMisses, Report, Adopt, Goto, Idle, Resting, Inv, Typing, CmdType
  <2>5. CASE Leave \/ PruneLook
    BY <2>5, AtRest DEF Leave, PruneLook, Goto, Resting, Inv, Typing, CmdType
  <2>6. CASE PruneSave
    <3>1. cmd'.at = "drop" /\ UNCHANGED work
      BY <2>6 DEF PruneSave, Goto, repoVars, Inv, Typing, CmdType
    <3>2. \A f \in File : work[f] \in Own => work[f] \in kept'
      <4>0. PICK looks \in Looks :
              kept' = IF Dirty(looks) THEN kept \cup ({work[f] : f \in File} \cap Own) ELSE kept
        BY <2>6 DEF PruneSave
      <4>1. CASE Dirty(looks)
        BY <4>0, <4>1
      <4>2. CASE ~Dirty(looks)
        <5>1. Modified = {} /\ Untracked = {}
          BY <4>2, ReasonSays DEF Dirty, Inv, Typing
        <5>2. \A f \in File : work[f] = None \/ work[f] = head[f]
          BY <5>1 DEF Modified, Untracked
        <5>. QED BY <5>2, <1>0, OwnApart DEF Inv, RepoInv
      <4>. QED BY <4>1, <4>2
    <3>. QED BY <3>1, <3>2 DEF CmdInv, Writing, Aiming
  <2>7. CASE Interrupt
    <3>1. /\ cmd' = [cmd EXCEPT !.intr = TRUE] /\ UNCHANGED <<repoVars, kept, missed>>
      BY <2>7 DEF Interrupt
    <3>2. /\ Looks' = Looks /\ Cloning' = Cloning
          /\ \A looks \in Looks : /\ Reason(looks)' = Reason(looks) /\ PathsOf(looks)' = PathsOf(looks)
                                /\ Blind(looks)' = Blind(looks)
          /\ \A f \in File : Safe(f)' = Safe(f) /\ Foreign(f)' = Foreign(f)
      BY <3>1 DEF repoVars, Looks, Blind, Reason, PathsOf, Modified, LocalEdits, CutAlign, Safe, Foreign,
                  Cloning, Inv, Typing, CmdType
    <3>. QED BY <3>1, <3>2 DEF repoVars, Inv, CmdInv, Typing, CmdType
  <2>8. CASE Stops \/ Dies
    BY <2>8, AtRest DEF Stops, Dies, Idle, Resting
  <2>. QED BY <2>1, <2>2, <2>3, <2>4, <2>5, <2>6, <2>7, <2>8 DEF LookStep
<1>. QED BY <1>1, <1>3, <1>4 DEF Inv

-----------------------------------------------------------------------------
(* The refetch while it writes, and the prune.                             *)
WriteStep ==
  \/ \E tip \in Commit : Receive(tip)
  \/ Retarget \/ Mark \/ MoveRefs \/ WriteIndex \/ Unmark \/ Fails \/ PruneDrop
  \/ \E f \in File : CheckOut(f) \/ Sweep(f)

LEMMA WriteTyped ==
  ASSUME Inv, WriteStep
  PROVE  Typing'
<1>1. \A at \in Places : Goto(at) => cmd' \in CmdType /\ cmd'.at = at
  BY DEF Goto, Inv, Typing, CmdType
<1>2. ASSUME NEW tip \in Commit, Receive(tip) PROVE Typing'
  <2>1. Written(tip) \subseteq File /\ tip \in Tree
    BY OwnApart DEF Written
  <2>2. cmd' \in CmdType
    <3>1. CASE AlreadyThere(tip)
      BY <1>2, <2>1, <3>1 DEF Receive, Inv, Typing, CmdType, Places
    <3>2. CASE ~AlreadyThere(tip)
      BY <1>2, <2>1, <3>2 DEF Receive, Inv, Typing, TypeOK, CmdType, Places
    <3>. QED BY <3>1, <3>2
  <2>3. cmd'.at \in Places /\ marker' \in {marker, None}
    BY <1>2, <2>2 DEF Receive, CmdType
  <2>. QED BY <1>2, <2>2, <2>3 DEF Receive, frame, Inv, Typing, TypeOK, Places
<1>3. CASE Retarget
  BY <1>1, <1>3 DEF Retarget, frame, Inv, Typing, TypeOK, Places
<1>4. CASE Mark
  <2>1. marker' # None => marker' \in [from : Tree, to : Commit]
    BY <1>4 DEF Mark, Inv, Typing, TypeOK, CmdInv, Aiming
  <2>2. cmd' \in CmdType /\ cmd'.at = "refs"
    BY <1>1, <1>4 DEF Mark, Places
  <2>. QED BY <1>4, <2>1, <2>2 DEF Mark, frame, Inv, Typing, TypeOK
<1>5. CASE MoveRefs
  <2>1. head' \in Tree
    BY <1>5 DEF MoveRefs, Inv, Typing, CmdType
  <2>2. cmd' \in CmdType /\ cmd'.at = "checkout"
    BY <1>1, <1>5 DEF MoveRefs, Places
  <2>. QED BY <1>5, <2>1, <2>2 DEF MoveRefs, frame, Inv, Typing, TypeOK
<1>6. CASE WriteIndex
  <2>1. index' \in Tree
    BY <1>6 DEF WriteIndex, Inv, Typing, CmdType
  <2>2. cmd' \in CmdType /\ cmd'.at = "sweep"
    BY <1>6, OwnApart DEF WriteIndex, Inv, Typing, CmdType, Places
  <2>. QED BY <1>6, <2>1, <2>2 DEF WriteIndex, frame, Inv, Typing, TypeOK
<1>7. CASE Unmark
  BY <1>7 DEF Unmark, frame, Inv, Typing, TypeOK, CmdType, Places
<1>8. CASE Fails
  <2>1. {head', index', work'} \subseteq Tree /\ here' \in BOOLEAN
    BY <1>8, OwnApart DEF Fails, Inv, Typing, TypeOK
  <2>2. cmd' \in CmdType /\ cmd'.at = "report"
    BY <1>1, <1>8 DEF Fails, Places
  <2>3. cuts' = cuts \/ (cuts < MaxCuts /\ cuts' = cuts + 1)
    BY <1>8 DEF Fails
  <2>4. cuts' \in 0 .. MaxCuts
    BY <2>3, FetchAssumption DEF Inv, Typing, TypeOK
  <2>. QED BY <1>8, <2>1, <2>2, <2>4 DEF Fails, Inv, Typing, TypeOK
<1>9. CASE PruneDrop
  <2>1. cmd' \in CmdType /\ cmd'.at = "adopt"
    BY <1>1, <1>9 DEF PruneDrop, Places
  <2>2. {head', index', work'} \subseteq Tree
    BY <1>9, OwnApart DEF PruneDrop
  <2>. QED BY <1>9, <2>1, <2>2 DEF PruneDrop, frame, Inv, Typing, TypeOK
<1>10. ASSUME NEW f \in File, CheckOut(f) \/ Sweep(f) PROVE Typing'
  <2>1. work' \in Tree
    BY <1>10 DEF CheckOut, Sweep, Inv, Typing, TypeOK, CmdType, Tree
  <2>2. cmd' \in CmdType /\ cmd'.at = cmd.at
    BY <1>10 DEF CheckOut, Sweep, Inv, Typing, CmdType
  <2>. QED BY <1>10, <2>1, <2>2 DEF CheckOut, Sweep, frame, Inv, Typing, TypeOK
<1>. QED BY <1>2, <1>3, <1>4, <1>5, <1>6, <1>7, <1>8, <1>9, <1>10 DEF WriteStep

LEMMA WriteKeepsRepo ==
  ASSUME Inv, WriteStep
  PROVE  RepoInv'
<1>1. ASSUME NEW tip \in Commit, Receive(tip) PROVE RepoInv'
  BY <1>1 DEF Receive, frame, Inv, RepoInv, Safe, Foreign
<1>2. CASE Retarget \/ Unmark
  BY <1>2 DEF Retarget, Unmark, frame, Inv, RepoInv, Safe, Foreign
<1>3. CASE Mark
  <2>1. marker' # None => marker'.from = head
    BY <1>3 DEF Mark
  <2>. QED BY <1>3, <2>1 DEF Mark, frame, Inv, RepoInv, Safe, Foreign
<1>4. CASE MoveRefs
  <2>1. cmd.target \in Commit
    BY <1>4 DEF MoveRefs, Inv, CmdInv, Aiming
  <2>2. /\ \A f \in File : head'[f] \notin Own
        /\ \A f \in File : Foreign(f) => head'[f] = None
    BY <1>4, <2>1, OwnApart DEF MoveRefs, Foreign
  <2>3. here
    BY <1>4 DEF MoveRefs, Inv, CmdInv
  <2>4. \A f \in File : Safe(f)' = Safe(f) /\ Foreign(f)' = Foreign(f)
    BY <1>4 DEF MoveRefs, frame, Safe, Foreign
  <2>. QED BY <1>4, <2>2, <2>3, <2>4 DEF MoveRefs, Inv, RepoInv
<1>5. CASE WriteIndex
  <2>1. cmd.target \in Commit /\ \A f \in File : Safe(f)
    BY <1>5 DEF WriteIndex, Inv, CmdInv, Aiming, Writing
  <2>2. \A f \in File : Foreign(f) => index'[f] = None
    BY <1>5, <2>1 DEF WriteIndex, Foreign
  <2>3. \A f \in File : Safe(f)' = Safe(f) /\ Foreign(f)' = Foreign(f)
    BY <1>5 DEF WriteIndex, frame, Safe, Foreign
  <2>4. here
    BY <1>5 DEF WriteIndex, Inv, CmdInv
  <2>. QED BY <1>5, <2>1, <2>2, <2>3, <2>4 DEF WriteIndex, Inv, RepoInv
<1>6. CASE Fails
  BY <1>6, OwnApart DEF Fails, frame, Inv, RepoInv, Safe, Foreign
<1>7. CASE PruneDrop
  BY <1>7, OwnApart DEF PruneDrop, frame, Inv, RepoInv, Safe, Foreign
<1>8. ASSUME NEW f \in File, CheckOut(f) \/ Sweep(f) PROVE RepoInv'
  <2>1. cmd.target \in Commit
    BY <1>8 DEF CheckOut, Sweep, Inv, CmdInv, Aiming
  <2>2. \E n \in Nat \cup {None} : work' = [work EXCEPT ![f] = n]
    BY <1>8, <2>1, FetchAssumption DEF CheckOut, Sweep
  <2>3. \A g \in File : work'[g] = work[g] \/ work'[g] \notin Own
    BY <2>2, OwnApart DEF Inv, Typing, TypeOK, Tree
  <2>4. here
    BY <1>8 DEF CheckOut, Sweep, Inv, CmdInv
  <2>5. UNCHANGED <<here, head, index, marker, kept, missed>>
    BY <1>8 DEF CheckOut, Sweep, frame
  <2>. QED BY <2>3, <2>4, <2>5 DEF frame, Inv, RepoInv, Safe, Foreign
<1>. QED BY <1>1, <1>2, <1>3, <1>4, <1>5, <1>6, <1>7, <1>8 DEF WriteStep

LEMMA WriteKeepsCmd ==
  ASSUME Inv, WriteStep
  PROVE  CmdInv'
<1>0. \A at : Goto(at) => cmd'.at = at /\ cmd'.reason = cmd.reason /\ cmd'.target = cmd.target
                           /\ cmd'.old = cmd.old /\ cmd'.todo = cmd.todo
  BY DEF Goto, Inv, Typing, CmdType
<1>1. ASSUME NEW tip \in Commit, Receive(tip) PROVE CmdInv'
  <2>1. CASE AlreadyThere(tip)
    <3>1. cmd'.at = "report"
      BY <1>1, <2>1 DEF Receive, Inv, Typing, CmdType
    <3>. QED BY <3>1, AtRest DEF Resting
  <2>2. CASE ~AlreadyThere(tip)
    <3>1. /\ cmd'.at = "mark" /\ cmd'.target = tip /\ cmd'.old = index
          /\ cmd'.todo = Written(tip) /\ cmd'.reason = cmd.reason
      BY <1>1, <2>2 DEF Receive, Inv, Typing, CmdType
    <3>2. \A f \in Written(tip) : tip[f] # None
      BY DEF Written
    <3>3. UNCHANGED <<here, head, index, work, kept, missed>> /\ cmd.at = "receive"
      BY <1>1 DEF Receive, frame
    <3>4. \A f \in File : Safe(f)' /\ (Foreign(f) => index[f] = None)
      BY <3>3 DEF frame, Inv, CmdInv, RepoInv, Writing, Safe, Foreign
    <3>5. Cloning' => \A f \in File : work'[f] \notin Own
      BY <3>1, <3>3 DEF Inv, CmdInv, Writing, Cloning
    <3>. QED BY <3>1, <3>2, <3>4, <3>5 DEF CmdInv, Writing, Aiming, Foreign
  <2>. QED BY <2>1, <2>2
<1>2. CASE Retarget \/ Mark \/ MoveRefs
  <2>1. UNCHANGED <<work, kept, missed>> /\ (Retarget \/ here')
    BY <1>2 DEF Retarget, Mark, MoveRefs, frame, Inv, CmdInv
  <2>2. /\ cmd'.reason = cmd.reason /\ cmd'.target = cmd.target
        /\ cmd'.old = cmd.old /\ cmd'.todo = cmd.todo
    BY <1>0, <1>2 DEF Retarget, Mark, MoveRefs
  <2>3. /\ cmd.at \in Writing
        /\ \/ cmd'.at = "receive"
           \/ cmd.at = "mark" /\ cmd'.at = "refs" /\ here'
           \/ cmd.at = "refs" /\ cmd'.at = "checkout" /\ here'
    BY <1>0, <1>2 DEF Retarget, Mark, MoveRefs, Writing, Inv, CmdInv
  <2>4. \A f \in File : Safe(f)' /\ Foreign(f)' = Foreign(f)
    BY <2>1, <2>3 DEF frame, Inv, CmdInv, Safe, Foreign
  <2>. QED BY <2>1, <2>2, <2>3, <2>4 DEF Inv, CmdInv, Writing, Aiming, Cloning
<1>3. CASE WriteIndex
  <2>1. /\ cmd'.at = "sweep" /\ cmd'.target = cmd.target /\ cmd'.reason = cmd.reason
        /\ cmd'.todo = {f \in File : cmd.old[f] # None /\ cmd.target[f] = None}
    BY <1>3 DEF WriteIndex, Inv, Typing, CmdType
  <2>2. /\ cmd.at = "checkout" /\ here' /\ UNCHANGED <<work, kept, missed>>
    BY <1>3 DEF WriteIndex, frame, Inv, CmdInv
  <2>3. \A f \in cmd'.todo : ~Foreign(f)
    BY <2>1, <2>2 DEF Inv, CmdInv
  <2>4. \A f \in File : Safe(f)' /\ Foreign(f)' = Foreign(f)
    BY <2>2 DEF frame, Inv, CmdInv, Writing, Safe, Foreign
  <2>. QED BY <2>1, <2>2, <2>3, <2>4 DEF Inv, Typing, CmdType, CmdInv, Writing, Aiming, Cloning
<1>4. CASE Unmark
  <2>1. cmd'.at = "report"
    BY <1>4 DEF Unmark, Inv, Typing, CmdType
  <2>. QED BY <2>1, AtRest DEF Resting
<1>5. CASE Fails \/ PruneDrop
  <2>1. cmd'.at \in {"report", "adopt"}
    BY <1>0, <1>5 DEF Fails, PruneDrop
  <2>. QED BY <2>1, AtRest DEF Resting
<1>6. ASSUME NEW f \in File, CheckOut(f) \/ Sweep(f) PROVE CmdInv'
  <2>1. /\ cmd'.at = cmd.at /\ cmd'.target = cmd.target /\ cmd'.reason = cmd.reason
        /\ cmd'.old = cmd.old /\ cmd'.todo = cmd.todo \ {f}
        /\ cmd.at \in {"checkout", "sweep"} /\ UNCHANGED <<here, kept, missed>>
    BY <1>6 DEF CheckOut, Sweep, frame, Inv, Typing, CmdType
  <2>2. \E n \in Nat \cup {None} : work' = [work EXCEPT ![f] = n]
    BY <1>6, <2>1, FetchAssumption DEF CheckOut, Sweep, Inv, CmdInv, Aiming
  <2>3. \A g \in File : work'[g] = work[g] \/ work'[g] \notin Own
    BY <2>2, OwnApart DEF Inv, Typing, TypeOK, Tree
  <2>4. /\ \A g \in File : Safe(g)' /\ Foreign(g)' = Foreign(g)
        /\ Cloning => \A g \in File : work'[g] \notin Own
    BY <2>1, <2>3 DEF frame, Inv, CmdInv, Writing, Safe, Foreign
  <2>. QED BY <2>1, <2>4 DEF Inv, CmdInv, Writing, Aiming, Cloning
<1>. QED BY <1>1, <1>2, <1>3, <1>4, <1>5, <1>6 DEF WriteStep

-----------------------------------------------------------------------------
(* The inductive invariant.                                                *)
THEOREM Invariance == ASSUME Upsets = {} PROVE Spec => []Inv
<1>1. ASSUME Inv, [Next]_vars PROVE Inv'
  <2>1. CASE UserStep
    BY <1>1, <2>1, UserKeepsInv
  <2>2. CASE LookStep
    BY <1>1, <2>2, LookKeepsInv
  <2>3. CASE WriteStep
    BY <1>1, <2>3, WriteTyped, WriteKeepsRepo, WriteKeepsCmd DEF Inv
  <2>4. CASE UNCHANGED vars
    <3>1. RepoInv'
      BY <1>1, <2>4, RepoStays DEF vars, Inv
    <3>2. /\ Looks' = Looks /\ Cloning' = Cloning
          /\ \A looks \in Looks : /\ Reason(looks)' = Reason(looks) /\ PathsOf(looks)' = PathsOf(looks)
                                /\ Blind(looks)' = Blind(looks)
          /\ \A f \in File : Safe(f)' = Safe(f) /\ Foreign(f)' = Foreign(f)
      BY <2>4 DEF vars, repoVars, Looks, Blind, Reason, PathsOf, Modified, LocalEdits, CutAlign,
                  Safe, Foreign, Cloning
    <3>3. CmdInv'
      BY <1>1, <2>4, <3>2 DEF vars, repoVars, Inv, CmdInv
    <3>. QED BY <1>1, <2>4, <3>1, <3>3 DEF vars, repoVars, Inv, Typing, TypeOK
  <2>. QED BY <1>1, <2>1, <2>2, <2>3, <2>4 DEF Next, UserStep, LookStep, WriteStep
<1>. QED BY <1>1, InitInv, PTL DEF Spec

(* Every variable keeps its type.                                          *)
THEOREM Typed == ASSUME Upsets = {} PROVE Spec => []TypeOK
<1>1. Inv => TypeOK
  BY DEF Inv, Typing
<1>. QED BY <1>1, Invariance, PTL

(* No refetch and no prune takes away what the user wrote and nothing else *)
(* keeps, but for what a refetch was told to fetch over and failed to look *)
(* at, however often aligns and clones were cut short before.              *)
THEOREM EditsSpared == ASSUME Upsets = {} PROVE Spec => EditsKept
<1>. DEFINE Spares == \A f \in File :
       work[f] \in Own /\ work'[f] # work[f] /\ cmd' # cmd => work[f] \in kept' \cup missed
<1>1. ASSUME Inv, [Next]_vars PROVE [Spares]_vars
  <2>. SUFFICES ASSUME NEW f \in File, work[f] \in Own, work'[f] # work[f], cmd' # cmd
               PROVE  work[f] \in kept' \cup missed
    BY DEF Spares
  <2>1. CASE UserStep
    BY <2>1 DEF UserStep, Edit, Remove, Stage, UserCommits, Reset, Turn, userFrame
  <2>2. CASE LookStep
    BY <2>2 DEF LookStep, Begin, Probe, ProbeMisses, Backup, Report, Adopt, Leave, PruneLook, PruneSave,
                Interrupt, Stops, Dies, repoVars
  <2>3. CASE PruneDrop
    BY <1>1, <2>3 DEF PruneDrop, Inv, CmdInv
  <2>4. CASE Fails
    <3>1. Cloning /\ cmd.at \in Writing
      BY <2>4 DEF Fails, Writing
    <3>. QED BY <1>1, <3>1 DEF Inv, CmdInv
  <2>5. ASSUME NEW g \in File, CheckOut(g) \/ Sweep(g) PROVE work[f] \in kept' \cup missed
    <3>1. f = g /\ kept' = kept
      BY <1>1, <2>5 DEF CheckOut, Sweep, Inv, Typing, TypeOK, Tree
    <3>2. ~Foreign(f)
      BY <1>1, <2>5, <3>1 DEF CheckOut, Sweep, Inv, CmdInv, Aiming, Foreign
    <3>3. Safe(f)
      BY <1>1, <2>5 DEF CheckOut, Sweep, Inv, CmdInv, Writing
    <3>. QED BY <3>1, <3>2, <3>3 DEF Safe
  <2>6. CASE WriteStep /\ UNCHANGED work
    BY <2>6
  <2>7. CASE UNCHANGED vars
    BY <2>7 DEF vars, repoVars
  <2>8. WriteStep => \/ UNCHANGED work \/ PruneDrop \/ Fails
                     \/ \E g \in File : CheckOut(g) \/ Sweep(g)
    BY DEF WriteStep, Receive, Retarget, Mark, MoveRefs, WriteIndex, Unmark
  <2>. QED BY <1>1, <2>1, <2>2, <2>3, <2>4, <2>5, <2>6, <2>7, <2>8
       DEF Next, UserStep, LookStep, WriteStep
<1>. QED BY <1>1, Invariance, PTL DEF Spec, EditsKept

-----------------------------------------------------------------------------
(* What the refetch knows of the directory, step by step.                  *)
OnDisk(to, todo) == \A f \in File : to[f] # None => f \in todo \/ work[f] = to[f]

Whole ==
  /\ head = cmd.target /\ index = head /\ marker = None
  /\ OnDisk(head, {})

WholeInv ==
  /\ cmd.at \in {"backup", "retarget"} => Forced
  /\ cmd.at = "receive" /\ cmd.reason = "clean" => Modified = {}
  /\ cmd.at = "receive" /\ Cloning => ~here
  /\ cmd.at \in {"mark", "refs", "checkout"} => OnDisk(cmd.target, cmd.todo)
  /\ cmd.at \in {"checkout", "sweep"} => head = cmd.target
  /\ cmd.at = "sweep" =>
       /\ index = cmd.target /\ OnDisk(cmd.target, {})
       /\ \A f \in cmd.todo : cmd.target[f] = None
  /\ cmd.fetched => cmd.at \in {"report", "adopt"} /\ Whole

(* A refetch that knows nothing.                                           *)
LEMMA KnowsNothing ==
  cmd'.at \in Resting \cup {"drop"} /\ cmd'.fetched = FALSE => WholeInv'
BY DEF WholeInv, Resting

LEMMA UserKeepsWhole ==
  ASSUME Upsets = {}, Inv, WholeInv, UserStep
  PROVE  WholeInv'
<1>1. cmd.at \in {"idle", "ask"} /\ cmd' = cmd
  BY DEF UserStep, Edit, Remove, Stage, UserCommits, Reset, Turn, HandsOn, userFrame
<1>2. cmd.fetched = FALSE
  BY <1>1 DEF Inv, Typing, CmdType, WholeInv
<1>. QED BY <1>1, <1>2, KnowsNothing DEF Resting

LEMMA LookKeepsWhole ==
  ASSUME Inv, WholeInv, LookStep
  PROVE  WholeInv'
<1>0. UNCHANGED repoVars
  BY DEF LookStep, Begin, Probe, ProbeMisses, Backup, Report, Adopt, Leave, PruneLook, PruneSave,
         Interrupt, Stops, Dies
<1>1. cmd.at \notin {"report", "adopt"} => cmd.fetched = FALSE
  BY DEF WholeInv, Inv, Typing, CmdType
<1>2. CASE Probe
  <2>1. CASE ~here
    <3>1. cmd'.at = "receive" /\ cmd'.reason = "absent" /\ cmd'.fetched = FALSE
      BY <1>1, <1>2, <2>1 DEF Probe, Inv, Typing, CmdType
    <3>2. here' = here
      BY <1>0 DEF repoVars
    <3>. QED BY <2>1, <3>1, <3>2 DEF WholeInv
  <2>2. CASE here
    <3>0. PICK looks \in Looks :
            cmd' = [cmd EXCEPT !.reason = Reason(looks), !.paths = PathsOf(looks),
                               !.blind = Blind(looks),
                               !.at = IF Reason(looks) = "clean" THEN "receive"
                                      ELSE IF cmd.force THEN "backup" ELSE "report"]
      BY <1>2, <2>2 DEF Probe
    <3>1. CASE Reason(looks) = "clean"
      <4>1. cmd'.at = "receive" /\ cmd'.reason = "clean" /\ cmd'.fetched = FALSE
        BY <1>1, <1>2, <3>0, <3>1 DEF Probe, Inv, Typing, CmdType
      <4>2. Modified' = {}
        BY <1>0, <3>1, ReasonSays DEF repoVars, Modified, Inv, Typing
      <4>. QED BY <4>1, <4>2 DEF WholeInv, Cloning
    <3>2. CASE Reason(looks) # "clean"
      <4>1. /\ cmd'.at \in {"backup", "report"} /\ cmd'.fetched = FALSE
            /\ cmd'.reason = Reason(looks)
        BY <1>1, <1>2, <3>0, <3>2 DEF Probe, Inv, Typing, CmdType
      <4>2. Reason(looks) # "absent"
        BY ReasonSays DEF Inv, Typing
      <4>. QED BY <3>2, <4>1, <4>2 DEF WholeInv, Forced
    <3>. QED BY <3>1, <3>2
  <2>. QED BY <2>1, <2>2
<1>3. CASE Interrupt
  <2>1. cmd' = [cmd EXCEPT !.intr = TRUE]
    BY <1>3 DEF Interrupt
  <2>. QED BY <1>0, <2>1
       DEF WholeInv, Whole, OnDisk, Modified, Cloning, Forced, repoVars, Inv, Typing, CmdType
<1>4. CASE Report
  <2>1. CASE cmd.intr
    <3>1. cmd'.at = "idle" /\ cmd'.fetched = FALSE
      BY <1>4, <2>1 DEF Report, Idle
    <3>. QED BY <3>1, KnowsNothing DEF Resting
  <2>2. CASE ~cmd.intr
    <3>1. cmd'.at = "adopt" /\ cmd'.fetched = cmd.fetched /\ cmd'.target = cmd.target
      BY <1>4, <2>2 DEF Report, Goto, Inv, Typing, CmdType
    <3>. QED BY <1>0, <3>1 DEF WholeInv, Whole, OnDisk, repoVars
  <2>. QED BY <2>1, <2>2
<1>5. CASE Adopt \/ Stops \/ Dies
  <2>1. cmd'.at = "idle" /\ cmd'.fetched = FALSE
    BY <1>5 DEF Adopt, Stops, Dies, Idle
  <2>. QED BY <2>1, KnowsNothing DEF Resting
<1>6. ASSUME NEW force \in BOOLEAN, NEW listed \in BOOLEAN, Begin(force, listed)
      PROVE  WholeInv'
  <2>1. cmd'.at \in {"probe", "orphan"} /\ cmd'.fetched = FALSE
    BY <1>6 DEF Begin, Idle
  <2>. QED BY <2>1, KnowsNothing DEF Resting
<1>7. CASE ProbeMisses \/ Leave \/ PruneLook \/ PruneSave
  <2>1. cmd'.at \in {"report", "adopt", "ask", "drop"} /\ cmd'.fetched = FALSE
    BY <1>1, <1>7 DEF ProbeMisses, Leave, PruneLook, PruneSave, Goto, Inv, Typing, CmdType
  <2>. QED BY <2>1, KnowsNothing DEF Resting
<1>8. CASE Backup
  <2>1. cmd'.at = "retarget" /\ cmd'.fetched = FALSE /\ cmd'.reason = cmd.reason
    BY <1>1, <1>8 DEF Backup, Inv, Typing, CmdType
  <2>2. Forced
    BY <1>8 DEF Backup, WholeInv
  <2>. QED BY <2>1, <2>2 DEF WholeInv, Forced
<1>. QED BY <1>2, <1>3, <1>4, <1>5, <1>6, <1>7, <1>8 DEF LookStep

LEMMA WriteKeepsWhole ==
  ASSUME Inv, WholeInv, WriteStep
  PROVE  WholeInv'
<1>0. /\ \A at : Goto(at) => /\ cmd'.at = at /\ cmd'.reason = cmd.reason
                             /\ cmd'.target = cmd.target /\ cmd'.todo = cmd.todo
                             /\ cmd'.fetched = cmd.fetched
      /\ cmd.at \notin {"report", "adopt"} => cmd.fetched = FALSE
  BY DEF Goto, WholeInv, Inv, Typing, CmdType
<1>1. ASSUME NEW tip \in Commit, Receive(tip) PROVE WholeInv'
  <2>0. UNCHANGED <<here, head, index, work>> /\ cmd.at = "receive" /\ cmd.fetched = FALSE
    BY <1>0, <1>1 DEF Receive
  <2>1. ~Forced => \/ cmd.reason = "clean" /\ Modified = {}
                   \/ Cloning /\ ~here /\ index = Bare
    BY <2>0 DEF Forced, Cloning, WholeInv, Inv, RepoInv
  <2>2. CASE AlreadyThere(tip)
    <3>1. cmd'.at = "report" /\ cmd'.target = tip /\ marker' = None
      BY <1>1, <2>2 DEF Receive, Inv, Typing, CmdType
    <3>2. head = tip /\ Modified = {}
      BY <2>1, <2>2 DEF AlreadyThere
    <3>3. \A f \in File : head[f] = index[f] /\ (index[f] # None => work[f] = index[f])
      BY <3>2 DEF Modified
    <3>4. index = head
      BY <3>3 DEF Inv, Typing, TypeOK, Tree
    <3>. QED BY <2>0, <3>1, <3>2, <3>3, <3>4 DEF WholeInv, Whole, OnDisk
  <2>3. CASE ~AlreadyThere(tip)
    <3>1. /\ cmd'.at = "mark" /\ cmd'.target = tip /\ cmd'.todo = Written(tip)
          /\ cmd'.fetched = FALSE
      BY <1>1, <2>0, <2>3 DEF Receive, Inv, Typing, CmdType
    <3>2. ASSUME NEW f \in File, tip[f] # None, f \notin Written(tip)
          PROVE  work[f] = tip[f]
      <4>1. ~Forced /\ index[f] = tip[f]
        BY <3>2 DEF Written
      <4>2. Modified = {}
        BY <2>1, <3>2, <4>1, OwnApart
      <4>. QED BY <3>2, <4>1, <4>2 DEF Modified
    <3>. QED BY <2>0, <3>1, <3>2 DEF WholeInv, OnDisk
  <2>. QED BY <2>2, <2>3
<1>2. CASE Retarget
  <2>1. cmd'.at = "receive" /\ cmd'.fetched = FALSE /\ cmd'.reason = cmd.reason
    BY <1>0, <1>2 DEF Retarget
  <2>2. Forced
    BY <1>2 DEF Retarget, WholeInv
  <2>. QED BY <2>1, <2>2 DEF WholeInv, Forced, Cloning
<1>3. CASE Mark \/ MoveRefs
  <2>1. /\ cmd.at \in {"mark", "refs"} /\ cmd'.at \in {"refs", "checkout"}
        /\ cmd'.fetched = FALSE /\ cmd'.target = cmd.target /\ cmd'.todo = cmd.todo
        /\ work' = work /\ (cmd'.at = "checkout" => head' = cmd.target)
    BY <1>0, <1>3 DEF Mark, MoveRefs
  <2>. QED BY <2>1 DEF WholeInv, OnDisk
<1>4. CASE WriteIndex
  <2>1. /\ cmd'.at = "sweep" /\ cmd'.fetched = FALSE /\ cmd'.target = cmd.target
        /\ cmd'.todo = {f \in File : cmd.old[f] # None /\ cmd.target[f] = None}
        /\ index' = cmd.target /\ UNCHANGED <<head, work>> /\ cmd.todo = {}
        /\ cmd.at = "checkout"
    BY <1>0, <1>4 DEF WriteIndex, Inv, Typing, CmdType
  <2>. QED BY <2>1 DEF WholeInv, OnDisk
<1>5. CASE Unmark
  <2>1. /\ cmd'.at = "report" /\ cmd'.target = cmd.target /\ marker' = None
        /\ UNCHANGED <<head, index, work>> /\ cmd.at = "sweep"
    BY <1>5 DEF Unmark, Inv, Typing, CmdType
  <2>. QED BY <2>1 DEF WholeInv, Whole, OnDisk
<1>6. CASE Fails \/ PruneDrop
  <2>1. cmd'.at \in {"report", "adopt"} /\ cmd'.fetched = FALSE
    BY <1>0, <1>6 DEF Fails, PruneDrop
  <2>. QED BY <2>1, KnowsNothing DEF Resting
<1>7. ASSUME NEW f \in File, CheckOut(f) PROVE WholeInv'
  <2>1. /\ cmd'.at = "checkout" /\ cmd.at = "checkout" /\ cmd'.fetched = FALSE
        /\ cmd'.target = cmd.target /\ cmd'.todo = cmd.todo \ {f}
        /\ work' = [work EXCEPT ![f] = cmd.target[f]] /\ head' = head
    BY <1>0, <1>7 DEF CheckOut, Inv, Typing, CmdType
  <2>2. OnDisk(cmd.target, cmd.todo)
    BY <2>1 DEF WholeInv
  <2>3. OnDisk(cmd.target, cmd.todo \ {f})'
    BY <2>1, <2>2 DEF OnDisk, Inv, Typing, TypeOK, Tree
  <2>. QED BY <2>1, <2>3 DEF WholeInv, OnDisk
<1>8. ASSUME NEW f \in File, Sweep(f) PROVE WholeInv'
  <2>1. /\ cmd'.at = "sweep" /\ cmd.at = "sweep" /\ cmd'.fetched = FALSE
        /\ cmd'.target = cmd.target /\ cmd'.todo = cmd.todo \ {f} /\ f \in cmd.todo
        /\ work' = [work EXCEPT ![f] = None] /\ UNCHANGED <<head, index>>
    BY <1>0, <1>8 DEF Sweep, Inv, Typing, CmdType
  <2>2. cmd.target[f] = None /\ OnDisk(cmd.target, {})
    BY <2>1 DEF WholeInv
  <2>3. \A g \in File : cmd.target[g] # None => work'[g] = cmd.target[g]
    BY <2>1, <2>2 DEF OnDisk, Inv, Typing, TypeOK, Tree
  <2>. QED BY <2>1, <2>3 DEF WholeInv, OnDisk
<1>. QED BY <1>1, <1>2, <1>3, <1>4, <1>5, <1>6, <1>7, <1>8 DEF WriteStep

(* What a refetch adopts as fetched is in HEAD, in the index and on disk.  *)
THEOREM FetchedWhole == ASSUME Upsets = {} PROVE Spec => []FetchedIsWhole
<1>1. Init => WholeInv
  BY KnowsNothing DEF Init, Idle, WholeInv, Aiming
<1>2. ASSUME Inv, WholeInv, [Next]_vars PROVE WholeInv'
  <2>1. CASE UNCHANGED vars
    BY <1>2, <2>1
       DEF vars, repoVars, WholeInv, Whole, OnDisk, Modified, Cloning, Forced
  <2>. QED BY <1>2, <2>1, UserKeepsWhole, LookKeepsWhole, WriteKeepsWhole
       DEF Next, UserStep, LookStep, WriteStep
<1>3. WholeInv => FetchedIsWhole
  BY DEF WholeInv, Whole, OnDisk, FetchedIsWhole
<1>. QED BY <1>1, <1>2, <1>3, Invariance, PTL DEF Spec

-----------------------------------------------------------------------------
(***************************************************************************)
(* Registry: one command at a time rewrites the file, from the file as it  *)
(* is, and an alias that two commands do not install or remove at once is  *)
(* registered with the tree its install finished.                          *)
(***************************************************************************)

(* At most one command has the database's lock, and it writes from the     *)
(* file as it is.                                                          *)
LockInv ==
  /\ \A c, d \in Cmd : regCmd[c].at = "write" /\ regCmd[d].at = "write" => c = d
  /\ \A c \in Cmd : regCmd[c].at = "write" => regCmd[c].db = disk /\ ~Reg!Refuses(c, disk)

(* Which command takes which steps, and what it holds.                     *)
Installer(c) == regCmd[c].op \in Reg!Installing
PlaceInv ==
  \A c \in Cmd :
    /\ regCmd[c].at \in {"update", "write"} => regCmd[c].op # "none"
    /\ regCmd[c].at \in {"seed", "ask", "fetch", "meta"} => regCmd[c].op = "install"
    /\ regCmd[c].at \in {"confirm", "remove"} => regCmd[c].op = "uninstall"
    /\ regCmd[c].at = "work" => regCmd[c].op \in {"install", "refetch"}
    /\ regCmd[c].op \in Reg!KnobOps => regCmd[c].at \in {"update", "write"}
    /\ regCmd[c].op \notin {"none", "knob"} => regCmd[c].alias \in Alias
    /\ Installer(c) => regCmd[c].root \in Root

(* An alias that no two install or remove at once.                         *)
SoleInv ==
  \A a \in Alias \ Shared : \A c, d \in Cmd :
    /\ regCmd[c].alias = a /\ (Installer(c) \/ regCmd[c].op = "uninstall")
    /\ regCmd[d].alias = a /\ (Installer(d) \/ regCmd[d].op = "uninstall")
    => c = d
(* The tree of such an alias, at each step of its install.                 *)
InstallInv ==
  \A a \in Alias \ Shared :
    /\ tree[a].meta # None => tree[a].meta \in tree[a].part
    /\ \A c \in Cmd : regCmd[c].alias = a /\ Installer(c) =>
         /\ disk.inst[a] = None
         /\ tree[a].part \subseteq {regCmd[c].root}
         /\ regCmd[c].at = "meta" => regCmd[c].root \in tree[a].whole
         /\ regCmd[c].op = "install" /\ regCmd[c].at \in {"update", "write"} =>
              tree[a].meta = regCmd[c].root /\ regCmd[c].root \in tree[a].whole

RegInv ==
  /\ Reg!TypeOK /\ LockInv /\ PlaceInv /\ SoleInv /\ InstallInv
  /\ Reg!ActiveRegistered /\ Reg!RegisteredWhole


LEMMA RegConsts ==
  /\ Reg!Empty \in Reg!Database /\ None \notin Alias /\ None \notin Root /\ None \notin Reg!Entry
  /\ Reg!Idle \in [op : Reg!Ops, alias : Alias \cup {None}, root : Root \cup {None},
                   at : Reg!Places, db : Reg!Database \cup {None}]
  /\ Reg!NoTree \in [part : SUBSET Root, whole : SUBSET Root,
                     meta : Root \cup {None}, torn : BOOLEAN]
  /\ None \notin Reg!Database /\ Shared \subseteq Alias /\ MaxStarts \in Nat
BY HomeAssumption DEF Reg!RegistryAssumption, Reg!Empty, Reg!Database, Reg!Idle, Reg!NoTree,
   Reg!Ops, Reg!Places

LEMMA RegInit == Reg!Init => RegInv
<1>. SUFFICES ASSUME Reg!Init PROVE RegInv
  OBVIOUS
<1>. USE RegConsts DEF Reg!Init
<1>1. Reg!TypeOK
  BY DEF Reg!TypeOK, Reg!Idle, Reg!NoTree
<1>2. LockInv /\ PlaceInv /\ SoleInv /\ InstallInv
  BY DEF LockInv, PlaceInv, SoleInv, InstallInv, Reg!Idle, Reg!NoTree, Reg!Empty, Installer, Reg!Installing, Reg!KnobOps,
     Reg!Refuses
<1>3. Reg!ActiveRegistered /\ Reg!RegisteredWhole
  BY DEF Reg!ActiveRegistered, Reg!RegisteredWhole, Reg!Empty
<1>. QED BY <1>1, <1>2, <1>3 DEF RegInv

LEMMA EntryTyped ==
  ASSUME NEW r \in Root, NEW u \in BOOLEAN
  PROVE  [root |-> r, unfetched |-> u] \in Reg!Entry /\ [root |-> r, unfetched |-> u] # None
<1>1. [root |-> r, unfetched |-> u] \in Reg!Entry
  BY DEF Reg!Entry
<1>. QED BY <1>1, RegConsts

(* A database and what an update makes of it. *)
LEMMA ResultTyped ==
  ASSUME NEW db \in Reg!Database, Reg!TypeOK, PlaceInv, NEW c \in Cmd, regCmd[c].at = "write",
         NEW new \in Reg!Results(c, db), ~Reg!Refuses(c, db)
  PROVE  /\ new \in Reg!Database
         /\ (db.active # None => db.inst[db.active] # None)
              => (new.active # None => new.inst[new.active] # None)
         /\ \A a \in Alias : IF a = regCmd[c].alias THEN Reg!Owned(c, a, db, new)
                             ELSE new.inst[a] = db.inst[a]
         /\ new.active # db.active =>
              \/ regCmd[c].op = "use" /\ new.active = regCmd[c].alias
              \/ regCmd[c].op = "uninstall" /\ db.active = regCmd[c].alias
              \/ regCmd[c].op = "install" /\ db.active = None
         /\ new.user # db.user =>
              \/ regCmd[c].op \in {"knob", "answer"}
              \/ regCmd[c].op = "seed" /\ db.user = "unset"
         /\ regCmd[c].op = "install" =>
              new.inst[regCmd[c].alias] = [root |-> regCmd[c].root, unfetched |-> FALSE]
<1>. USE RegConsts DEF Reg!Database, Reg!Entry
<1>0. regCmd[c].op \in {"use", "knob", "seed", "answer", "noanswer", "uninstall", "install", "refetch"}
  BY DEF Reg!TypeOK, PlaceInv, Reg!Ops, Reg!Installing, Reg!KnobOps
<1>1. CASE regCmd[c].op = "use"
  <2>1. new = Reg!Used(db, regCmd[c].alias) /\ regCmd[c].alias \in Alias
    BY <1>1 DEF Reg!Results, PlaceInv
  <2>. QED BY <1>1, <2>1 DEF Reg!Used, Reg!Owned
<1>2. CASE regCmd[c].op = "knob"
  <2>1. new = [db EXCEPT !.user = "set"]
    BY <1>2 DEF Reg!Results
  <2>. QED BY <1>2, <2>1 DEF Reg!Owned
<1>3. CASE regCmd[c].op = "seed"
  <2>1. new = [db EXCEPT !.user = IF @ = "unset" THEN "derived" ELSE @]
    BY <1>3 DEF Reg!Results
  <2>. QED BY <1>3, <2>1 DEF Reg!Owned
<1>4. CASE regCmd[c].op = "uninstall"
  <2>1. new = Reg!Unregister(db, regCmd[c].alias) /\ regCmd[c].alias \in Alias
    BY <1>4 DEF Reg!Results, PlaceInv
  <2>. QED BY <1>4, <2>1 DEF Reg!Owned, Reg!Unregister
<1>5. CASE regCmd[c].op = "install"
  <2>1. /\ new = Reg!Register(db, regCmd[c].alias, regCmd[c].root) /\ regCmd[c].alias \in Alias
        /\ regCmd[c].root \in Root /\ db.inst[regCmd[c].alias] = None
    BY <1>5 DEF Reg!Results, PlaceInv, Reg!Refuses, Installer, Reg!Installing, Reg!KnobOps
  <2>2. /\ new \in Reg!Database /\ new.user = db.user
        /\ new.inst = [db.inst EXCEPT ![regCmd[c].alias] =
                         [root |-> regCmd[c].root, unfetched |-> FALSE]]
        /\ new.active = IF db.active = None THEN regCmd[c].alias ELSE db.active
    BY <2>1 DEF Reg!Register
  <2>3. [root |-> regCmd[c].root, unfetched |-> FALSE] # None
    BY <2>1, EntryTyped
  <2>7. db.inst \in [Alias -> Reg!Entry \cup {None}]
    OBVIOUS
  <2>4. /\ new.inst[regCmd[c].alias] = [root |-> regCmd[c].root, unfetched |-> FALSE]
        /\ new.inst[regCmd[c].alias] # None
        /\ \A a \in Alias \ {regCmd[c].alias} : new.inst[a] = db.inst[a]
    BY <2>1, <2>2, <2>3, <2>7
  <2>5. (db.active # None => db.inst[db.active] # None)
           => (new.active # None => new.inst[new.active] # None)
    BY <2>1, <2>2, <2>4
  <2>6. \A a \in Alias : IF a = regCmd[c].alias THEN Reg!Owned(c, a, db, new)
                         ELSE new.inst[a] = db.inst[a]
    BY <1>5, <2>1, <2>4 DEF Reg!Owned
  <2>. QED BY <1>5, <2>2, <2>4, <2>5, <2>6
<1>6. CASE regCmd[c].op = "refetch"
  <2>1. PICK u \in BOOLEAN : new = [db EXCEPT !.inst[regCmd[c].alias].unfetched = u]
    BY <1>6 DEF Reg!Results
  <2>2. regCmd[c].alias \in Alias /\ db.inst[regCmd[c].alias] \in Reg!Entry
    BY <1>6 DEF PlaceInv, Reg!Refuses
  <2>. QED BY <1>6, <2>1, <2>2 DEF Reg!Owned
<1>7. CASE regCmd[c].op = "answer"
  <2>1. new = [db EXCEPT !.user = "answered"]
    BY <1>7 DEF Reg!Results
  <2>. QED BY <1>7, <2>1 DEF Reg!Owned
<1>8. CASE regCmd[c].op = "noanswer"
  <2>1. new = db
    BY <1>8 DEF Reg!Results
  <2>. QED BY <1>8, <2>1 DEF Reg!Owned
<1>. QED BY <1>0, <1>1, <1>2, <1>3, <1>4, <1>5, <1>6, <1>7, <1>8

(* A step that moves one command. *)
RegMoves(c) == \A d \in Cmd \ {c} : regCmd'[d] = regCmd[d]

(* Who is at work on an alias. *)
WorksOn(c, a) == regCmd[c].alias = a /\ (Installer(c) \/ regCmd[c].op = "uninstall")

LEMMA StartEff ==
  ASSUME Reg!TypeOK, NEW c \in Cmd, NEW op \in Reg!Ops, NEW a \in Alias \cup {None},
         NEW r \in Root \cup {None}, NEW at \in Reg!Places \ {"write"},
         Reg!Start(c, op, a, r, at)
  PROVE  /\ Reg!TypeOK' /\ RegMoves(c) /\ UNCHANGED <<disk, tree>>
         /\ regCmd'[c] = [op |-> op, alias |-> a, root |-> r, at |-> at, db |-> None]
BY RegConsts DEF Reg!TypeOK, Reg!Start, RegMoves

LEMMA CommandKeeps ==
  ASSUME RegInv, NEW c \in Cmd, NEW op \in {"use", "knob", "uninstall", "install", "refetch"},
         NEW a \in Alias \cup {None}, NEW r \in Root \cup {None},
         NEW at \in {"update", "seed", "confirm", "work"},
         Reg!Start(c, op, a, r, at),
         at = CASE op \in {"use", "knob"} -> "update" [] op = "install" -> "seed"
                [] op = "uninstall" -> "confirm" [] op = "refetch" -> "work",
         op # "knob" => a \in Alias,
         op \in {"install", "uninstall"} => Reg!Apart(a),
         op = "install" => r \in Root /\ disk.inst[a] = None /\ tree[a].part \subseteq {r}
  PROVE  RegInv'
<1>1. /\ Reg!TypeOK' /\ RegMoves(c) /\ UNCHANGED <<disk, tree>>
      /\ regCmd'[c] = [op |-> op, alias |-> a, root |-> r, at |-> at, db |-> None]
  <2>1. op \in Reg!Ops /\ at \in Reg!Places \ {"write"} /\ Reg!TypeOK
    BY DEF RegInv, Reg!Ops, Reg!Installing, Reg!KnobOps, Reg!Places
  <2>. QED BY <2>1, StartEff
<1>2. /\ regCmd'[c].op = op /\ regCmd'[c].alias = a /\ regCmd'[c].root = r /\ regCmd'[c].at = at
      /\ at \notin {"write", "meta"} /\ op # "seed"
  BY <1>1
<1>3. LockInv'
  BY <1>1, <1>2 DEF RegInv, LockInv, RegMoves, Reg!Refuses
<1>4. PlaceInv'
  BY <1>1, <1>2 DEF RegInv, PlaceInv, RegMoves, Installer, Reg!Installing, Reg!KnobOps
<1>5. SoleInv'
  <2>0. \A d \in Cmd \ {c}, b \in Alias : WorksOn(d, b)' <=> WorksOn(d, b)
    BY <1>1 DEF WorksOn, RegMoves, Installer, Reg!Installing, Reg!KnobOps
  <2>. SUFFICES ASSUME NEW b \in Alias \ Shared, NEW d \in Cmd, d # c,
                       WorksOn(c, b)', WorksOn(d, b)'
                PROVE  FALSE
    BY <2>0 DEF RegInv, SoleInv, WorksOn
  <2>1. b = a /\ op \in {"install", "uninstall"}
    BY <1>2 DEF WorksOn, Installer, Reg!Installing, Reg!KnobOps
  <2>2. WorksOn(d, b)
    BY <1>1 DEF WorksOn, RegMoves, Installer, Reg!Installing, Reg!KnobOps
  <2>. QED BY <2>1, <2>2 DEF Reg!Apart, WorksOn, Installer, Reg!Installing, Reg!KnobOps
<1>6. InstallInv'
  <2>. SUFFICES ASSUME NEW b \in Alias \ Shared, NEW d \in Cmd, regCmd'[d].alias = b,
                       Installer(d)', d = c
                PROVE  /\ disk.inst[b] = None
                       /\ tree[b].part \subseteq {regCmd'[d].root}
                       /\ regCmd'[d].at \notin {"meta", "update", "write"}
    BY <1>1 DEF RegInv, InstallInv, RegMoves, Installer, Reg!Installing, Reg!KnobOps
  <2>. QED BY <1>2 DEF Installer, Reg!Installing, Reg!KnobOps
<1>7. Reg!ActiveRegistered' /\ Reg!RegisteredWhole'
  BY <1>1 DEF RegInv, Reg!ActiveRegistered, Reg!RegisteredWhole
<1>. QED BY <1>1, <1>3, <1>4, <1>5, <1>6, <1>7 DEF RegInv

LEMMA LockEff ==
  ASSUME NEW c \in Cmd, Reg!TakeLock(c)
  PROVE  /\ regCmd[c].at = "update" /\ ~Reg!Locked /\ UNCHANGED <<disk, tree, starts>>
         /\ \/ regCmd' = [regCmd EXCEPT ![c] = Reg!Idle]
            \/ /\ ~Reg!Refuses(c, disk)
               /\ regCmd' = [regCmd EXCEPT ![c] = [regCmd[c] EXCEPT !.at = "write", !.db = disk]]
<1>1. Reg!Readings = {disk}
  BY HomeAssumption DEF Reg!Readings
<1>. QED BY <1>1 DEF Reg!TakeLock

(* What a step does to the command that takes it. *)
RegRec == [op : Reg!Ops, alias : Alias \cup {None}, root : Root \cup {None},
           at : Reg!Places, db : Reg!Database \cup {None}]
RegTakes(c, op, at, db) ==
  /\ regCmd' \in [Cmd -> RegRec] /\ RegMoves(c)
  /\ regCmd'[c].op = op /\ regCmd'[c].at = at /\ regCmd'[c].db = db
  /\ regCmd'[c].alias = regCmd[c].alias /\ regCmd'[c].root = regCmd[c].root
RegLeaves(c) ==
  /\ regCmd' \in [Cmd -> RegRec] /\ RegMoves(c)
  /\ regCmd'[c].op = "none" /\ regCmd'[c].at = "idle" /\ regCmd'[c].db = None

LEMMA RegOneMoves ==
  ASSUME NEW c \in Cmd, NEW x \in RegRec, regCmd \in [Cmd -> RegRec], regCmd' = [regCmd EXCEPT ![c] = x]
  PROVE  regCmd' \in [Cmd -> RegRec] /\ RegMoves(c) /\ regCmd'[c] = x
BY DEF RegMoves

LEMMA LeavesEff ==
  ASSUME Reg!TypeOK, NEW c \in Cmd, regCmd' = [regCmd EXCEPT ![c] = Reg!Idle]
  PROVE  RegLeaves(c)
<1>1. regCmd \in [Cmd -> RegRec] /\ regCmd[c] \in RegRec
  BY DEF RegRec, Reg!TypeOK
<1>2. Reg!Idle \in RegRec /\ Reg!Idle.op = "none" /\ Reg!Idle.at = "idle" /\ Reg!Idle.db = None
  BY DEF RegRec, Reg!Idle, Reg!Ops, Reg!Installing, Reg!KnobOps, Reg!Places
<1>. QED BY <1>1, <1>2, RegOneMoves DEF RegLeaves

LEMMA TakesEff ==
  ASSUME Reg!TypeOK, NEW c \in Cmd, NEW p \in Reg!Places, NEW o \in Reg!Ops,
         NEW db \in Reg!Database \cup {None}
  PROVE  /\ regCmd' = [regCmd EXCEPT ![c] = [regCmd[c] EXCEPT !.at = p]] => RegTakes(c, regCmd[c].op, p, regCmd[c].db)
         /\ regCmd' = [regCmd EXCEPT ![c] = [regCmd[c] EXCEPT !.op = o, !.at = p]]
              => RegTakes(c, o, p, regCmd[c].db)
         /\ regCmd' = [regCmd EXCEPT ![c] = [regCmd[c] EXCEPT !.at = p, !.db = db]]
              => RegTakes(c, regCmd[c].op, p, db)
         /\ regCmd' = [regCmd EXCEPT ![c] = [regCmd[c] EXCEPT !.op = o, !.at = p, !.db = db]]
              => RegTakes(c, o, p, db)
<1>1. regCmd \in [Cmd -> RegRec] /\ regCmd[c] \in RegRec
  BY DEF RegRec, Reg!TypeOK
<1>3. regCmd' = [regCmd EXCEPT ![c] = [regCmd[c] EXCEPT !.at = p]] => RegTakes(c, regCmd[c].op, p, regCmd[c].db)
  <2>. DEFINE y == [regCmd[c] EXCEPT !.at = p]
  <2>1. /\ y \in RegRec /\ y.op = regCmd[c].op /\ y.alias = regCmd[c].alias /\ y.root = regCmd[c].root
        /\ y.at = p /\ y.db = regCmd[c].db
    BY <1>1 DEF RegRec
  <2>. HIDE DEF y
  <2>2. regCmd' = [regCmd EXCEPT ![c] = y] => RegTakes(c, regCmd[c].op, p, regCmd[c].db)
    BY <1>1, <2>1, RegOneMoves DEF RegTakes
  <2>. QED BY <2>2 DEF y
<1>4. regCmd' = [regCmd EXCEPT ![c] = [regCmd[c] EXCEPT !.op = o, !.at = p]]
        => RegTakes(c, o, p, regCmd[c].db)
  <2>. DEFINE y == [regCmd[c] EXCEPT !.op = o, !.at = p]
  <2>1. /\ y \in RegRec /\ y.op = o /\ y.alias = regCmd[c].alias /\ y.root = regCmd[c].root
        /\ y.at = p /\ y.db = regCmd[c].db
    BY <1>1 DEF RegRec
  <2>. HIDE DEF y
  <2>2. regCmd' = [regCmd EXCEPT ![c] = y] => RegTakes(c, o, p, regCmd[c].db)
    BY <1>1, <2>1, RegOneMoves DEF RegTakes
  <2>. QED BY <2>2 DEF y
<1>5. regCmd' = [regCmd EXCEPT ![c] = [regCmd[c] EXCEPT !.at = p, !.db = db]]
        => RegTakes(c, regCmd[c].op, p, db)
  <2>. DEFINE y == [regCmd[c] EXCEPT !.at = p, !.db = db]
  <2>1. /\ y \in RegRec /\ y.op = regCmd[c].op /\ y.alias = regCmd[c].alias /\ y.root = regCmd[c].root
        /\ y.at = p /\ y.db = db
    BY <1>1 DEF RegRec
  <2>. HIDE DEF y
  <2>2. regCmd' = [regCmd EXCEPT ![c] = y] => RegTakes(c, regCmd[c].op, p, db)
    BY <1>1, <2>1, RegOneMoves DEF RegTakes
  <2>. QED BY <2>2 DEF y
<1>6. regCmd' = [regCmd EXCEPT ![c] = [regCmd[c] EXCEPT !.op = o, !.at = p, !.db = db]]
        => RegTakes(c, o, p, db)
  <2>. DEFINE y == [regCmd[c] EXCEPT !.op = o, !.at = p, !.db = db]
  <2>1. /\ y \in RegRec /\ y.op = o /\ y.alias = regCmd[c].alias /\ y.root = regCmd[c].root
        /\ y.at = p /\ y.db = db
    BY <1>1 DEF RegRec
  <2>. HIDE DEF y
  <2>2. regCmd' = [regCmd EXCEPT ![c] = y] => RegTakes(c, o, p, db)
    BY <1>1, <2>1, RegOneMoves DEF RegTakes
  <2>. QED BY <2>2 DEF y
<1>. QED BY <1>3, <1>4, <1>5, <1>6

(* A step of one command keeps the types of the commands. *)
LEMMA RegTyped ==
  ASSUME Reg!TypeOK, NEW c \in Cmd, regCmd' \in [Cmd -> RegRec], RegMoves(c),
         regCmd'[c].at = "write" <=> regCmd'[c].db # None,
         UNCHANGED starts, disk' \in Reg!Database,
         tree' \in [Alias -> [part : SUBSET Root, whole : SUBSET Root,
                              meta : Root \cup {None}, torn : BOOLEAN]],
         \A a \in Alias : tree'[a].whole \subseteq tree'[a].part
  PROVE  Reg!TypeOK'
BY DEF Reg!TypeOK, RegRec, RegMoves

(* A step of one command that leaves the files and its name alone. *)
LEMMA StepsOn ==
  ASSUME RegInv, NEW c \in Cmd, Reg!SeedKnob(c) \/ Reg!Ask(c) \/ Reg!RefetchEnds(c) \/ Reg!Die(c) \/ Reg!TakeLock(c)
  PROVE  RegInv'
<1>. USE DEF RegInv
<1>0. /\ UNCHANGED <<disk, tree, starts>>
      /\ \/ RegLeaves(c)
         \/ /\ regCmd[c].at \in {"seed", "ask"}
            /\ \E o \in Reg!KnobOps : RegTakes(c, o, "update", None)
         \/ /\ regCmd[c].at = "seed"
            /\ \E p \in {"ask", "fetch"} : RegTakes(c, "install", p, None)
         \/ /\ regCmd[c].at = "work" /\ regCmd[c].op = "refetch"
            /\ RegTakes(c, "refetch", "update", None)
         \/ /\ regCmd[c].at = "update" /\ ~Reg!Locked /\ ~Reg!Refuses(c, disk)
            /\ RegTakes(c, regCmd[c].op, "write", disk)
  <2>0. disk \in Reg!Database /\ (regCmd[c].at # "write" => regCmd[c].db = None)
    BY DEF Reg!TypeOK
  <2>p. "update" \in Reg!Places /\ "fetch" \in Reg!Places /\ "write" \in Reg!Places /\ "seed" \in Reg!Ops
    BY DEF Reg!Places, Reg!Ops, Reg!Installing, Reg!KnobOps
  <2>k. /\ Reg!KnobOps = {"seed", "answer", "noanswer"} /\ "ask" \in Reg!Places
        /\ \A o \in Reg!KnobOps : o \in Reg!Ops
    BY DEF Reg!Places, Reg!Ops, Reg!KnobOps, Reg!Installing
  <2>1. CASE Reg!SeedKnob(c)
    <3>1. regCmd[c].at = "seed" /\ regCmd[c].op = "install" /\ regCmd[c].db = None
          /\ UNCHANGED <<disk, tree, starts>>
      BY <2>0, <2>1 DEF Reg!SeedKnob, PlaceInv
    <3>2. CASE regCmd' = [regCmd EXCEPT ![c].op = "seed", ![c].at = "update"]
      <4>1. regCmd' = [regCmd EXCEPT ![c] = [regCmd[c] EXCEPT !.op = "seed", !.at = "update"]]
        BY <3>2
      <4>. QED BY <2>p, <2>k, <3>1, <4>1, TakesEff
    <3>3. ASSUME NEW p \in {"ask", "fetch"}, regCmd' = [regCmd EXCEPT ![c].at = p]
          PROVE  RegTakes(c, "install", p, None)
      <4>1. regCmd' = [regCmd EXCEPT ![c] = [regCmd[c] EXCEPT !.at = p]]
        BY <3>3
      <4>2. p \in Reg!Places /\ "install" \in Reg!Ops
        BY DEF Reg!Places, Reg!Ops, Reg!Installing
      <4>3. RegTakes(c, regCmd[c].op, p, regCmd[c].db)
        BY <2>0, <4>1, <4>2, TakesEff
      <4>. QED BY <3>1, <4>3
    <3>. QED BY <2>1, <3>1, <3>2, <3>3 DEF Reg!SeedKnob
  <2>5. CASE Reg!Ask(c)
    <3>1. PICK o \in Reg!KnobOps : regCmd' = [regCmd EXCEPT ![c].op = o, ![c].at = "update"]
      BY <2>5, <2>k DEF Reg!Ask
    <3>2. regCmd' = [regCmd EXCEPT ![c] = [regCmd[c] EXCEPT !.op = o, !.at = "update"]]
      BY <3>1
    <3>3. regCmd[c].at = "ask" /\ regCmd[c].db = None /\ UNCHANGED <<disk, tree, starts>>
      BY <2>0, <2>5 DEF Reg!Ask
    <3>. QED BY <2>p, <2>k, <3>2, <3>3, TakesEff
  <2>2. CASE Reg!RefetchEnds(c)
    BY <2>0, <2>p, <2>2, TakesEff DEF Reg!RefetchEnds
  <2>3. CASE Reg!Die(c)
    BY <2>0, <2>3, LeavesEff DEF Reg!Die
  <2>4. CASE Reg!TakeLock(c)
    <3>1. CASE regCmd' = [regCmd EXCEPT ![c] = Reg!Idle]
      BY <2>0, <2>4, <3>1, LockEff, TakesEff, LeavesEff
    <3>2. CASE /\ ~Reg!Refuses(c, disk)
               /\ regCmd' = [regCmd EXCEPT ![c] = [regCmd[c] EXCEPT !.at = "write", !.db = disk]]
      BY <2>0, <2>p, <2>4, <3>2, LockEff, TakesEff, LeavesEff
    <3>. QED BY <2>4, <3>1, <3>2, LockEff
  <2>. QED BY <2>1, <2>2, <2>3, <2>4, <2>5
<1>1. Reg!TypeOK'
  BY <1>0, RegConsts, RegTyped DEF Reg!TypeOK, RegTakes, RegLeaves
<1>2. RegMoves(c) /\ UNCHANGED <<disk, tree>>
  BY <1>0 DEF RegTakes, RegLeaves
<1>. USE DEF RegTakes, RegLeaves
<1>3. LockInv'
  BY <1>0, <1>2 DEF LockInv, RegMoves, Reg!Refuses, Reg!Locked
<1>4. PlaceInv'
  BY <1>0, <1>2, RegConsts DEF PlaceInv, RegMoves, Installer, Reg!Installing, Reg!KnobOps
<1>5. SoleInv'
  BY <1>0, <1>2, RegConsts DEF SoleInv, PlaceInv, RegMoves, Installer, Reg!Installing, Reg!KnobOps
<1>6. InstallInv'
  <2>. SUFFICES ASSUME NEW b \in Alias \ Shared, NEW d \in Cmd, regCmd'[d].alias = b,
                       Installer(d)'
                PROVE  /\ disk.inst[b] = None
                       /\ tree[b].part \subseteq {regCmd'[d].root}
                       /\ regCmd'[d].at = "meta" => regCmd'[d].root \in tree[b].whole
                       /\ regCmd'[d].op = "install" /\ regCmd'[d].at \in {"update", "write"} =>
                            tree[b].meta = regCmd'[d].root /\ regCmd'[d].root \in tree[b].whole
    BY <1>2 DEF InstallInv
  <2>1. CASE d # c
    BY <1>2, <2>1 DEF InstallInv, RegMoves, Installer, Reg!Installing, Reg!KnobOps
  <2>2. CASE d = c
    BY <1>0, <1>2, <2>2 DEF InstallInv, PlaceInv, Installer, Reg!Installing, Reg!KnobOps
  <2>. QED BY <2>1, <2>2
<1>7. Reg!ActiveRegistered' /\ Reg!RegisteredWhole'
  BY <1>2 DEF Reg!ActiveRegistered, Reg!RegisteredWhole
<1>. QED BY <1>1, <1>3, <1>4, <1>5, <1>6, <1>7

(* The trees, alias by alias. *)
RegTrees == [part : SUBSET Root, whole : SUBSET Root, meta : Root \cup {None}, torn : BOOLEAN]
OtherTrees(a) == \A b \in Alias \ {a} : tree'[b] = tree[b]

LEMMA TreeEff ==
  ASSUME Reg!TypeOK, NEW a \in Alias, NEW t \in RegTrees, tree' = [tree EXCEPT ![a] = t],
         t.whole \subseteq t.part
  PROVE  /\ tree' \in [Alias -> RegTrees] /\ tree'[a] = t /\ OtherTrees(a)
         /\ \A b \in Alias : tree'[b].whole \subseteq tree'[b].part
BY DEF Reg!TypeOK, RegTrees, OtherTrees

(* A step of the one command at work on an alias that changes its tree:     *)
(* what has to hold of the tree then.                                       *)
LEMMA TreeSteps ==
  ASSUME RegInv, NEW c \in Cmd, NEW a \in Alias, a = regCmd[c].alias,
         NEW at \in {"work", "meta", "update", "remove"}, RegTakes(c, regCmd[c].op, at, None),
         regCmd[c].op \in {"install", "uninstall"},
         at \in {"work", "meta"} => regCmd[c].op = "install",
         at = "remove" => regCmd[c].op = "uninstall",
         UNCHANGED <<disk, starts>>,
         tree' \in [Alias -> RegTrees], OtherTrees(a),
         \A b \in Alias : tree'[b].whole \subseteq tree'[b].part,
         a \notin Shared =>
           /\ tree'[a].meta # None => tree'[a].meta \in tree'[a].part
           /\ regCmd[c].op = "install" => tree'[a].part \subseteq {regCmd[c].root}
           /\ at = "meta" => regCmd[c].root \in tree'[a].whole
           /\ regCmd[c].op = "install" /\ at = "update" =>
                tree'[a].meta = regCmd[c].root /\ regCmd[c].root \in tree'[a].whole
           /\ regCmd[c].op = "uninstall" => tree'[a].torn \/ tree'[a] = Reg!NoTree
  PROVE  RegInv'
<1>. USE DEF RegInv
<1>1. Reg!TypeOK'
  <2>1. regCmd' \in [Cmd -> RegRec] /\ RegMoves(c) /\ regCmd'[c].at # "write" /\ regCmd'[c].db = None
    BY DEF RegTakes
  <2>. QED BY <2>1, RegConsts, RegTyped DEF Reg!TypeOK, RegTrees
<1>2. /\ RegMoves(c) /\ UNCHANGED disk /\ regCmd'[c].alias = a /\ regCmd'[c].root = regCmd[c].root
      /\ regCmd'[c].op = regCmd[c].op /\ regCmd'[c].at = at
  BY DEF RegTakes
<1>3. LockInv'
  BY <1>2 DEF LockInv, RegMoves, Reg!Refuses
<1>4. PlaceInv'
  <2>. SUFFICES ASSUME NEW d \in Cmd
                PROVE  /\ regCmd'[d].at \in {"update", "write"} => regCmd'[d].op # "none"
                       /\ regCmd'[d].at \in {"seed", "ask", "fetch", "meta"} =>
                            regCmd'[d].op = "install"
                       /\ regCmd'[d].at \in {"confirm", "remove"} => regCmd'[d].op = "uninstall"
                       /\ regCmd'[d].at = "work" => regCmd'[d].op \in {"install", "refetch"}
                       /\ regCmd'[d].op \in Reg!KnobOps => regCmd'[d].at \in {"update", "write"}
                       /\ regCmd'[d].op \notin {"none", "knob"} => regCmd'[d].alias \in Alias
                       /\ regCmd'[d].op \in Reg!Installing => regCmd'[d].root \in Root
    BY DEF PlaceInv, Installer, Reg!Installing, Reg!KnobOps
  <2>1. CASE d = c
    BY <1>2, <2>1 DEF PlaceInv, Installer, Reg!Installing, Reg!KnobOps
  <2>2. CASE d # c
    <3>1. regCmd'[d] = regCmd[d]
      BY <1>2, <2>2 DEF RegMoves
    <3>. QED BY <3>1 DEF PlaceInv, Installer, Reg!Installing, Reg!KnobOps
  <2>. QED BY <2>1, <2>2
<1>5. \A d \in Cmd, b \in Alias : WorksOn(d, b)' <=> WorksOn(d, b)
  BY <1>2 DEF WorksOn, RegMoves, Installer, Reg!Installing, Reg!KnobOps
<1>6. SoleInv'
  BY <1>5 DEF SoleInv, WorksOn
<1>7. ASSUME NEW b \in Alias \ Shared
      PROVE  /\ tree'[b].meta # None => tree'[b].meta \in tree'[b].part
             /\ \A d \in Cmd : regCmd'[d].alias = b /\ Installer(d)' =>
                  /\ disk.inst[b] = None
                  /\ tree'[b].part \subseteq {regCmd'[d].root}
                  /\ regCmd'[d].at = "meta" => regCmd'[d].root \in tree'[b].whole
                  /\ regCmd'[d].op = "install" /\ regCmd'[d].at \in {"update", "write"} =>
                       tree'[b].meta = regCmd'[d].root /\ regCmd'[d].root \in tree'[b].whole
             /\ disk.inst[b] # None =>
                  \/ tree'[b].torn \/ tree'[b] = Reg!NoTree
                  \/ tree'[b].meta = disk.inst[b].root /\ tree'[b].meta \in tree'[b].whole
  <2>1. CASE b # a
    <3>1. tree'[b] = tree[b]
      BY <2>1 DEF OtherTrees
    <3>2. \A d \in Cmd : regCmd'[d].alias = b => regCmd'[d] = regCmd[d]
      BY <1>2, <2>1 DEF RegMoves
    <3>. QED BY <3>1, <3>2 DEF InstallInv, Reg!RegisteredWhole, Installer, Reg!Installing, Reg!KnobOps
  <2>2. CASE b = a
    <3>1. \A d \in Cmd : WorksOn(d, a) => d = c
      BY <2>2 DEF SoleInv, WorksOn, Installer, Reg!Installing, Reg!KnobOps
    <3>2. \A d \in Cmd : regCmd'[d].alias = a /\ Installer(d)' => d = c
      BY <1>5, <3>1 DEF WorksOn
    <3>3. regCmd[c].op = "install" => disk.inst[a] = None
      BY <2>2 DEF InstallInv, Installer, Reg!Installing, Reg!KnobOps
    <3>. QED BY <1>2, <2>2, <3>2, <3>3 DEF Installer, Reg!Installing, Reg!KnobOps
  <2>. QED BY <2>1, <2>2
<1>8. InstallInv' /\ Reg!RegisteredWhole'
  BY <1>2, <1>7 DEF InstallInv, Reg!RegisteredWhole
<1>9. Reg!ActiveRegistered'
  BY <1>2 DEF Reg!ActiveRegistered
<1>. QED BY <1>1, <1>3, <1>4, <1>6, <1>8, <1>9

(* A command that leaves. *)
LEMMA LeavesKeeps ==
  ASSUME RegInv, NEW c \in Cmd, RegLeaves(c), UNCHANGED <<disk, tree, starts>>
  PROVE  RegInv'
<1>. USE DEF RegInv, RegLeaves
<1>1. Reg!TypeOK'
  BY RegConsts, RegTyped DEF Reg!TypeOK, RegTrees
<1>2. LockInv' /\ PlaceInv'
  BY DEF LockInv, PlaceInv, RegMoves, Reg!Refuses, Installer, Reg!Installing, Reg!KnobOps
<1>3. \A d \in Cmd, b \in Alias : WorksOn(d, b)' => WorksOn(d, b) /\ regCmd'[d] = regCmd[d]
  BY DEF WorksOn, RegMoves, Installer, Reg!Installing, Reg!KnobOps
<1>4. SoleInv'
  BY <1>3 DEF SoleInv, WorksOn
<1>5. InstallInv'
  BY <1>3 DEF InstallInv, WorksOn, Installer, Reg!Installing, Reg!KnobOps
<1>. QED BY <1>1, <1>2, <1>4, <1>5 DEF Reg!ActiveRegistered, Reg!RegisteredWhole

LEMMA UpdateEff ==
  ASSUME RegInv, NEW c \in Cmd, Reg!Write(c)
  PROVE  /\ regCmd[c].at = "write" /\ disk' \in Reg!Results(c, disk) /\ ~Reg!Refuses(c, disk)
         /\ UNCHANGED <<tree, starts>>
         /\ \/ RegLeaves(c) /\ regCmd[c].op \notin Reg!KnobOps
            \/ /\ regCmd[c].op \in Reg!KnobOps
               /\ \E p \in {"ask", "fetch"} : RegTakes(c, "install", p, None)
<1>1. regCmd[c].at = "write" /\ regCmd[c].db = disk /\ ~Reg!Refuses(c, disk)
  BY DEF RegInv, LockInv, Reg!Write
<1>2. CASE regCmd[c].op \in Reg!KnobOps
  <2>1. PICK p \in {"ask", "fetch"} :
          regCmd' = [regCmd EXCEPT ![c] = [regCmd[c] EXCEPT !.op = "install", !.at = p, !.db = None]]
    BY <1>2 DEF Reg!Write, Reg!GoesOnAt
  <2>2. "install" \in Reg!Ops /\ p \in Reg!Places
    BY DEF Reg!Ops, Reg!Places, Reg!Installing
  <2>. QED BY <1>1, <1>2, <2>1, <2>2, TakesEff DEF Reg!Write, RegInv
<1>3. CASE regCmd[c].op \notin Reg!KnobOps
  <2>1. regCmd' = [regCmd EXCEPT ![c] = Reg!Idle]
    BY <1>3 DEF Reg!Write
  <2>. QED BY <1>1, <1>3, <2>1, LeavesEff DEF Reg!Write, RegInv
<1>. QED BY <1>2, <1>3

LEMMA UpdateKeeps ==
  ASSUME RegInv, NEW c \in Cmd, Reg!Write(c)
  PROVE  RegInv'
<1>. USE DEF RegInv
<1>1. /\ regCmd[c].at = "write" /\ disk' \in Reg!Results(c, disk) /\ ~Reg!Refuses(c, disk)
      /\ UNCHANGED <<tree, starts>>
      /\ \/ RegLeaves(c) /\ regCmd[c].op \notin Reg!KnobOps
         \/ /\ regCmd[c].op \in Reg!KnobOps
            /\ \E p \in {"ask", "fetch"} : RegTakes(c, "install", p, None)
  BY UpdateEff
<1>2. /\ disk \in Reg!Database /\ disk' \in Reg!Database
      /\ (disk.active # None => disk.inst[disk.active] # None)
           => (disk'.active # None => disk'.inst[disk'.active] # None)
      /\ \A a \in Alias : IF a = regCmd[c].alias THEN Reg!Owned(c, a, disk, disk')
                          ELSE disk'.inst[a] = disk.inst[a]
      /\ regCmd[c].op = "install" =>
           disk'.inst[regCmd[c].alias] = [root |-> regCmd[c].root, unfetched |-> FALSE]
  BY <1>1, ResultTyped DEF Reg!TypeOK
<1>3. /\ regCmd' \in [Cmd -> RegRec] /\ RegMoves(c) /\ regCmd'[c].at \in {"idle", "ask", "fetch"} /\ regCmd'[c].db = None
      /\ \/ regCmd'[c].op = "none"
         \/ /\ regCmd[c].op \in Reg!KnobOps /\ regCmd'[c].op = "install"
            /\ regCmd'[c].alias = regCmd[c].alias
            /\ regCmd'[c].root = regCmd[c].root /\ regCmd'[c].at \in {"ask", "fetch"}
  BY <1>1 DEF RegLeaves, RegTakes
<1>4. Reg!TypeOK'
  BY <1>1, <1>2, <1>3, RegTyped DEF Reg!TypeOK, RegTrees
<1>5. LockInv'
  BY <1>1, <1>3 DEF LockInv, RegMoves
<1>6. PlaceInv'
  <2>. SUFFICES ASSUME NEW d \in Cmd
                PROVE  /\ regCmd'[d].at \in {"update", "write"} => regCmd'[d].op # "none"
                       /\ regCmd'[d].at \in {"seed", "ask", "fetch", "meta"} =>
                            regCmd'[d].op = "install"
                       /\ regCmd'[d].at \in {"confirm", "remove"} => regCmd'[d].op = "uninstall"
                       /\ regCmd'[d].at = "work" => regCmd'[d].op \in {"install", "refetch"}
                       /\ regCmd'[d].op \in Reg!KnobOps => regCmd'[d].at \in {"update", "write"}
                       /\ regCmd'[d].op \notin {"none", "knob"} => regCmd'[d].alias \in Alias
                       /\ regCmd'[d].op \in Reg!Installing => regCmd'[d].root \in Root
    BY DEF PlaceInv, Installer, Reg!Installing, Reg!KnobOps
  <2>1. CASE d = c
    <3>1. CASE RegLeaves(c)
      BY <2>1, <3>1 DEF RegLeaves, Reg!Installing, Reg!KnobOps
    <3>2. ASSUME regCmd[c].op \in Reg!KnobOps, NEW p \in {"ask", "fetch"},
                 RegTakes(c, "install", p, None)
          PROVE  Installer(c) /\ regCmd'[c].at = p /\ regCmd'[c].op = "install"
                 /\ regCmd'[c].alias = regCmd[c].alias /\ regCmd'[c].root = regCmd[c].root
      BY <3>2 DEF RegTakes, Installer, Reg!Installing
    <3>. QED BY <1>1, <2>1, <3>1, <3>2 DEF PlaceInv, Installer, Reg!Installing, Reg!KnobOps
  <2>2. CASE d # c
    <3>1. regCmd'[d] = regCmd[d]
      BY <1>3, <2>2 DEF RegMoves
    <3>. QED BY <3>1 DEF PlaceInv, Installer, Reg!Installing, Reg!KnobOps
  <2>. QED BY <2>1, <2>2
<1>7. \A d \in Cmd, b \in Alias : WorksOn(d, b)' => WorksOn(d, b) /\ (d # c => regCmd'[d] = regCmd[d])
  BY <1>3 DEF WorksOn, RegMoves, Installer, Reg!Installing, Reg!KnobOps
<1>8. SoleInv'
  BY <1>7 DEF SoleInv, WorksOn
<1>9. Reg!ActiveRegistered'
  BY <1>2 DEF Reg!ActiveRegistered
<1>10. ASSUME NEW b \in Alias \ Shared, NEW d \in Cmd, regCmd'[d].alias = b, Installer(d)'
       PROVE  /\ disk'.inst[b] = None
              /\ tree[b].part \subseteq {regCmd'[d].root}
              /\ regCmd'[d].at = "meta" => regCmd'[d].root \in tree[b].whole
              /\ regCmd'[d].op = "install" /\ regCmd'[d].at \in {"update", "write"} =>
                   tree[b].meta = regCmd'[d].root /\ regCmd'[d].root \in tree[b].whole
  <2>1. WorksOn(d, b) /\ Installer(d) /\ regCmd'[d].root = regCmd[d].root
    BY <1>3, <1>10 DEF WorksOn, RegMoves, Installer, Reg!Installing, Reg!KnobOps
  <2>2. disk.inst[b] = None /\ tree[b].part \subseteq {regCmd[d].root}
    BY <1>10, <2>1 DEF InstallInv, WorksOn
  <2>3. d = c \/ ~WorksOn(c, b)
    BY <2>1 DEF SoleInv, WorksOn
  <2>4. disk'.inst[b] = None
    <3>1. CASE b # regCmd[c].alias
      BY <1>2, <2>2, <3>1
    <3>2. CASE b = regCmd[c].alias
      <4>1. Reg!Owned(c, b, disk, disk')
        BY <1>2, <3>2
      <4>2. regCmd[c].op # "install" /\ regCmd[c].op # "uninstall"
        BY <1>3, <1>10, <2>3, <3>2 DEF WorksOn, Installer, Reg!Installing, Reg!KnobOps
      <4>3. regCmd[c].op # "refetch"
        BY <1>1, <2>2, <3>2 DEF Reg!Refuses
      <4>. QED BY <2>2, <4>1, <4>2, <4>3 DEF Reg!Owned
    <3>. QED BY <3>1, <3>2
  <2>5. d # c => regCmd'[d] = regCmd[d]
    BY <1>3 DEF RegMoves
  <2>6. d = c => regCmd'[d].at \in {"ask", "fetch"}
    BY <1>3, <1>10 DEF Installer, Reg!Installing, Reg!KnobOps
  <2>. QED BY <1>10, <2>1, <2>2, <2>4, <2>5, <2>6 DEF InstallInv, Installer, Reg!Installing, Reg!KnobOps
<1>11. InstallInv'
  BY <1>1, <1>10 DEF InstallInv
<1>12. ASSUME NEW b \in Alias \ Shared, disk'.inst[b] # None
       PROVE  \/ tree[b].torn \/ tree[b] = Reg!NoTree
              \/ tree[b].meta = disk'.inst[b].root /\ tree[b].meta \in tree[b].whole
  <2>1. CASE b # regCmd[c].alias
    BY <1>2, <1>12, <2>1 DEF Reg!RegisteredWhole
  <2>2. CASE b = regCmd[c].alias
    <3>1. Reg!Owned(c, b, disk, disk')
      BY <1>2, <2>2
    <3>2. CASE regCmd[c].op = "install"
      <4>1. disk'.inst[b].root = regCmd[c].root
        BY <1>2, <2>2, <3>2
      <4>2. tree[b].meta = regCmd[c].root /\ regCmd[c].root \in tree[b].whole
        BY <1>1, <2>2, <3>2 DEF InstallInv, Installer, Reg!Installing, Reg!KnobOps
      <4>. QED BY <4>1, <4>2
    <3>3. CASE regCmd[c].op # "install"
      <4>1. disk.inst[b] # None /\ disk'.inst[b].root = disk.inst[b].root
        BY <1>12, <3>1, <3>3 DEF Reg!Owned
      <4>. QED BY <4>1 DEF Reg!RegisteredWhole
    <3>. QED BY <3>2, <3>3
  <2>. QED BY <2>1, <2>2
<1>13. Reg!RegisteredWhole'
  BY <1>1, <1>12 DEF Reg!RegisteredWhole
<1>. QED BY <1>4, <1>5, <1>6, <1>8, <1>9, <1>11, <1>13

LEMMA TreesTyped ==
  ASSUME Reg!TypeOK
  PROVE  /\ tree \in [Alias -> RegTrees] /\ Reg!NoTree \in RegTrees /\ regCmd \in [Cmd -> RegRec]
         /\ \A c \in Cmd : regCmd[c].at # "write" => regCmd[c].db = None
BY RegConsts DEF Reg!TypeOK, RegTrees, RegRec

LEMMA FetchBeginsKeeps ==
  ASSUME RegInv, NEW c \in Cmd, Reg!FetchBegins(c)
  PROVE  RegInv'
<1>. DEFINE a == regCmd[c].alias
            r == regCmd[c].root
            t == [tree[a] EXCEPT !.part = @ \cup {r}]
<1>. USE DEF RegInv
<1>1. /\ regCmd[c].at = "fetch" /\ UNCHANGED <<disk, starts>> /\ regCmd[c].op = "install"
      /\ a \in Alias /\ r \in Root /\ regCmd[c].db = None
  BY TreesTyped DEF Reg!FetchBegins, PlaceInv, Installer, Reg!Installing, Reg!KnobOps
<1>2. CASE regCmd' = [regCmd EXCEPT ![c] = Reg!Idle] /\ UNCHANGED tree
  BY <1>1, <1>2, LeavesEff, LeavesKeeps
<1>3. CASE tree' = [tree EXCEPT ![a].part = @ \cup {r}] /\ regCmd' = [regCmd EXCEPT ![c].at = "work"]
  <2>1. RegTakes(c, "install", "work", None)
    <3>1. regCmd' = [regCmd EXCEPT ![c] = [regCmd[c] EXCEPT !.at = "work"]]
      BY <1>3
    <3>2. "work" \in Reg!Places /\ "install" \in Reg!Ops
      BY DEF Reg!Places, Reg!Ops, Reg!Installing, Reg!KnobOps
    <3>. QED BY <1>1, <3>1, <3>2, TakesEff
  <2>2. /\ t \in RegTrees /\ t.whole \subseteq t.part /\ t.part = tree[a].part \cup {r}
        /\ t.whole = tree[a].whole /\ t.meta = tree[a].meta /\ t.torn = tree[a].torn
    <3>1. tree[a] \in RegTrees /\ tree[a].whole \subseteq tree[a].part
      BY <1>1, TreesTyped DEF Reg!TypeOK
    <3>. QED BY <1>1, <3>1 DEF RegTrees
  <2>3. tree' = [tree EXCEPT ![a] = t]
    BY <1>3
  <2>. HIDE DEF t
  <2>4. /\ tree' \in [Alias -> RegTrees] /\ tree'[a] = t /\ OtherTrees(a)
        /\ \A b \in Alias : tree'[b].whole \subseteq tree'[b].part
    BY <1>1, <2>2, <2>3, TreeEff
  <2>5. a \notin Shared =>
          /\ tree[a].meta # None => tree[a].meta \in tree[a].part
          /\ tree[a].part \subseteq {r}
    BY <1>1 DEF InstallInv, Installer, Reg!Installing, Reg!KnobOps
  <2>. QED BY <1>1, <2>1, <2>2, <2>4, <2>5, TreeSteps
<1>. QED BY <1>2, <1>3 DEF Reg!FetchBegins

LEMMA FetchEndsKeeps ==
  ASSUME RegInv, NEW c \in Cmd, Reg!FetchEnds(c)
  PROVE  RegInv'
<1>. DEFINE a == regCmd[c].alias
            r == regCmd[c].root
            t == [tree[a] EXCEPT !.whole = @ \cup {r}]
<1>. USE DEF RegInv
<1>1. /\ regCmd[c].at = "work" /\ UNCHANGED <<disk, starts>> /\ regCmd[c].op = "install"
      /\ a \in Alias /\ r \in Root /\ regCmd[c].db = None
  BY TreesTyped DEF Reg!FetchEnds, PlaceInv, Installer, Reg!Installing, Reg!KnobOps
<1>2. CASE regCmd' = [regCmd EXCEPT ![c] = Reg!Idle] /\ UNCHANGED tree
  BY <1>1, <1>2, LeavesEff, LeavesKeeps
<1>3. CASE /\ r \in tree[a].part
           /\ tree' = [tree EXCEPT ![a].whole = @ \cup {r}] /\ regCmd' = [regCmd EXCEPT ![c].at = "meta"]
  <2>1. RegTakes(c, "install", "meta", None)
    <3>1. regCmd' = [regCmd EXCEPT ![c] = [regCmd[c] EXCEPT !.at = "meta"]]
      BY <1>3
    <3>2. "meta" \in Reg!Places /\ "install" \in Reg!Ops
      BY DEF Reg!Places, Reg!Ops, Reg!Installing, Reg!KnobOps
    <3>. QED BY <1>1, <3>1, <3>2, TakesEff
  <2>2. /\ t \in RegTrees /\ t.whole \subseteq t.part /\ t.part = tree[a].part
        /\ t.whole = tree[a].whole \cup {r} /\ t.meta = tree[a].meta /\ t.torn = tree[a].torn
    <3>1. tree[a] \in RegTrees /\ tree[a].whole \subseteq tree[a].part
      BY <1>1, TreesTyped DEF Reg!TypeOK
    <3>. QED BY <1>1, <1>3, <3>1 DEF RegTrees
  <2>3. tree' = [tree EXCEPT ![a] = t]
    BY <1>3
  <2>. HIDE DEF t
  <2>4. /\ tree' \in [Alias -> RegTrees] /\ tree'[a] = t /\ OtherTrees(a)
        /\ \A b \in Alias : tree'[b].whole \subseteq tree'[b].part
    BY <1>1, <2>2, <2>3, TreeEff
  <2>5. a \notin Shared =>
          /\ tree[a].meta # None => tree[a].meta \in tree[a].part
          /\ tree[a].part \subseteq {r}
    BY <1>1 DEF InstallInv, Installer, Reg!Installing, Reg!KnobOps
  <2>. QED BY <1>1, <2>1, <2>2, <2>4, <2>5, TreeSteps
<1>. QED BY <1>2, <1>3 DEF Reg!FetchEnds

LEMMA EnsureMetaKeeps ==
  ASSUME RegInv, NEW c \in Cmd, Reg!EnsureMeta(c)
  PROVE  RegInv'
<1>. DEFINE a == regCmd[c].alias
            r == regCmd[c].root
            t == [tree[a] EXCEPT !.meta = IF @ = None THEN r ELSE @]
<1>. USE DEF RegInv
<1>1. /\ regCmd[c].at = "meta" /\ UNCHANGED <<disk, starts>> /\ regCmd[c].op = "install"
      /\ a \in Alias /\ r \in Root /\ regCmd[c].db = None
  BY TreesTyped DEF Reg!EnsureMeta, PlaceInv, Installer, Reg!Installing, Reg!KnobOps
<1>2. RegTakes(c, "install", "update", None)
  <2>1. regCmd' = [regCmd EXCEPT ![c] = [regCmd[c] EXCEPT !.at = "update"]]
    BY DEF Reg!EnsureMeta
  <2>2. "update" \in Reg!Places /\ "install" \in Reg!Ops
    BY DEF Reg!Places, Reg!Ops, Reg!Installing, Reg!KnobOps
  <2>. QED BY <1>1, <2>1, <2>2, TakesEff
<1>3. tree[a] \in RegTrees /\ tree[a].whole \subseteq tree[a].part
  BY <1>1, TreesTyped DEF Reg!TypeOK
<1>4. /\ t \in RegTrees /\ t.whole \subseteq t.part /\ t.part = tree[a].part
      /\ t.whole = tree[a].whole /\ t.torn = tree[a].torn
      /\ t.meta = IF tree[a].meta = None THEN r ELSE tree[a].meta
  BY <1>1, <1>3 DEF RegTrees
<1>5. tree' = [tree EXCEPT ![a] = t]
  BY DEF Reg!EnsureMeta
<1>. HIDE DEF t
<1>6. /\ tree' \in [Alias -> RegTrees] /\ tree'[a] = t /\ OtherTrees(a)
      /\ \A b \in Alias : tree'[b].whole \subseteq tree'[b].part
  BY <1>1, <1>4, <1>5, TreeEff
<1>7. a \notin Shared =>
        /\ tree[a].meta # None => tree[a].meta \in tree[a].part
        /\ tree[a].part \subseteq {r} /\ r \in tree[a].whole
  BY <1>1 DEF InstallInv, Installer, Reg!Installing, Reg!KnobOps
<1>8. a \notin Shared => t.meta = r /\ r \in t.whole /\ t.part \subseteq {r} /\ r \in t.part
  BY <1>3, <1>4, <1>7
<1>. QED BY <1>1, <1>2, <1>6, <1>8, TreeSteps

LEMMA ConfirmKeeps ==
  ASSUME RegInv, NEW c \in Cmd, Reg!Confirm(c)
  PROVE  RegInv'
<1>. DEFINE a == regCmd[c].alias
            t == IF tree[a] = Reg!NoTree THEN tree[a]
                 ELSE [tree[a] EXCEPT !.torn = TRUE, !.whole = {}]
<1>. USE DEF RegInv
<1>1. /\ regCmd[c].at = "confirm" /\ UNCHANGED <<disk, starts>> /\ regCmd[c].op = "uninstall"
      /\ a \in Alias /\ regCmd[c].db = None
  BY TreesTyped DEF Reg!Confirm, PlaceInv
<1>2. RegTakes(c, "uninstall", "remove", None)
  <2>1. regCmd' = [regCmd EXCEPT ![c] = [regCmd[c] EXCEPT !.at = "remove"]]
    BY DEF Reg!Confirm
  <2>2. "remove" \in Reg!Places /\ "uninstall" \in Reg!Ops
    BY DEF Reg!Places, Reg!Ops, Reg!Installing, Reg!KnobOps
  <2>. QED BY <1>1, <2>1, <2>2, TakesEff
<1>3. tree[a] \in RegTrees /\ tree[a].whole \subseteq tree[a].part
  BY <1>1, TreesTyped DEF Reg!TypeOK
<1>4. /\ t \in RegTrees /\ t.whole \subseteq t.part /\ t.part = tree[a].part
      /\ t.meta = tree[a].meta /\ (t.torn \/ t = Reg!NoTree)
  BY <1>1, <1>3 DEF RegTrees
<1>5. tree' = [tree EXCEPT ![a] = t]
  BY DEF Reg!Confirm
<1>. HIDE DEF t
<1>6. /\ tree' \in [Alias -> RegTrees] /\ tree'[a] = t /\ OtherTrees(a)
      /\ \A b \in Alias : tree'[b].whole \subseteq tree'[b].part
  BY <1>1, <1>4, <1>5, TreeEff
<1>7. a \notin Shared => (tree[a].meta # None => tree[a].meta \in tree[a].part)
  BY <1>1 DEF InstallInv
<1>. QED BY <1>1, <1>2, <1>4, <1>6, <1>7, TreeSteps

LEMMA RemoveTreeKeeps ==
  ASSUME RegInv, NEW c \in Cmd, Reg!RemoveTree(c)
  PROVE  RegInv'
<1>. DEFINE a == regCmd[c].alias
<1>. USE DEF RegInv
<1>1. /\ regCmd[c].at = "remove" /\ UNCHANGED <<disk, starts>> /\ regCmd[c].op = "uninstall"
      /\ a \in Alias /\ regCmd[c].db = None
  BY TreesTyped DEF Reg!RemoveTree, PlaceInv
<1>2. RegTakes(c, "uninstall", "update", None)
  <2>1. regCmd' = [regCmd EXCEPT ![c] = [regCmd[c] EXCEPT !.at = "update"]]
    BY DEF Reg!RemoveTree
  <2>2. "update" \in Reg!Places /\ "uninstall" \in Reg!Ops
    BY DEF Reg!Places, Reg!Ops, Reg!Installing, Reg!KnobOps
  <2>. QED BY <1>1, <2>1, <2>2, TakesEff
<1>3. Reg!NoTree \in RegTrees /\ Reg!NoTree.whole = {} /\ Reg!NoTree.meta = None
  BY TreesTyped DEF Reg!NoTree
<1>4. tree' = [tree EXCEPT ![a] = Reg!NoTree]
  BY DEF Reg!RemoveTree
<1>5. /\ tree' \in [Alias -> RegTrees] /\ tree'[a] = Reg!NoTree /\ OtherTrees(a)
      /\ \A b \in Alias : tree'[b].whole \subseteq tree'[b].part
  BY <1>1, <1>3, <1>4, TreeEff
<1>. QED BY <1>1, <1>2, <1>3, <1>5, TreeSteps

LEMMA RegStep == RegInv /\ [Reg!Next]_(Reg!vars) => RegInv'
<1>. SUFFICES ASSUME RegInv, [Reg!Next]_(Reg!vars) PROVE RegInv'
  OBVIOUS
<1>1. CASE UNCHANGED Reg!vars
  BY <1>1 DEF Reg!vars, RegInv, Reg!TypeOK, LockInv, PlaceInv, SoleInv, InstallInv,
     Reg!ActiveRegistered,
              Reg!RegisteredWhole, Reg!Refuses, Installer, Reg!Installing, Reg!KnobOps
<1>2. ASSUME NEW c \in Cmd, NEW a \in Alias, NEW r \in Root,
             Reg!KnobSet(c) \/ Reg!Use(c, a) \/ Reg!Uninstall(c, a) \/ Reg!Refetch(c,
             a) \/ Reg!Install(c, a, r)
      PROVE  RegInv'
  <2>1. CASE Reg!KnobSet(c)
    BY <2>1, CommandKeeps DEF Reg!KnobSet
  <2>2. CASE Reg!Use(c, a)
    BY <2>2, CommandKeeps DEF Reg!Use
  <2>3. CASE Reg!Uninstall(c, a)
    BY <2>3, CommandKeeps DEF Reg!Uninstall
  <2>4. CASE Reg!Refetch(c, a)
    BY <2>4, CommandKeeps DEF Reg!Refetch
  <2>5. CASE Reg!Install(c, a, r)
    <3>1. /\ tree[a].part \subseteq {r} /\ disk.inst[a] = None /\ Reg!Apart(a)
          /\ Reg!Start(c, "install", a, r, "seed")
      BY <2>5, HomeAssumption DEF Reg!Install
    <3>. QED BY <3>1, CommandKeeps
  <2>. QED BY <1>2, <2>1, <2>2, <2>3, <2>4, <2>5
<1>3. ASSUME NEW c \in Cmd, Reg!KnobSet(c) PROVE RegInv'
  BY <1>3, CommandKeeps DEF Reg!KnobSet
<1>4. ASSUME NEW c \in Cmd,
             NEW a \in Alias, Reg!Use(c, a) \/ Reg!Uninstall(c, a) \/ Reg!Refetch(c,
             a) PROVE RegInv'
  <2>2. CASE Reg!Use(c, a)
    BY <2>2, CommandKeeps DEF Reg!Use
  <2>3. CASE Reg!Uninstall(c, a)
    BY <2>3, CommandKeeps DEF Reg!Uninstall
  <2>4. CASE Reg!Refetch(c, a)
    BY <2>4, CommandKeeps DEF Reg!Refetch
  <2>. QED BY <1>4, <2>2, <2>3, <2>4
<1>5. ASSUME NEW c \in Cmd,
             \/ Reg!SeedKnob(c) \/ Reg!Ask(c) \/ Reg!FetchBegins(c) \/ Reg!FetchEnds(c) \/ Reg!EnsureMeta(c)
             \/ Reg!Confirm(c) \/ Reg!RemoveTree(c) \/ Reg!RefetchEnds(c)
             \/ Reg!TakeLock(c) \/ Reg!Write(c) \/ Reg!Die(c)
      PROVE  RegInv'
  BY <1>5, StepsOn, FetchBeginsKeeps, FetchEndsKeeps, EnsureMetaKeeps, ConfirmKeeps,
     RemoveTreeKeeps, UpdateKeeps
<1>. QED BY <1>1, <1>2, <1>3, <1>4, <1>5 DEF Reg!Next

(* The invariant of the file, the trees and the commands (RegInv).         *)
THEOREM RegistryHolds == Reg!Spec => []RegInv
BY RegInit, RegStep, PTL DEF Reg!Spec

(* The file changes by the step of the command that has the lock. *)
LEMMA UpdateStep ==
  ASSUME RegInv, [Reg!Next]_(Reg!vars), NEW c \in Cmd, regCmd[c].at = "write", disk' # disk
  PROVE  Reg!Write(c)
<1>1. PICK d \in Cmd : Reg!Write(d)
  BY DEF Reg!vars, Reg!Next, Reg!KnobSet, Reg!Use, Reg!Uninstall, Reg!Refetch, Reg!Install,
     Reg!Start, Reg!SeedKnob, Reg!Ask, Reg!FetchBegins, Reg!FetchEnds, Reg!EnsureMeta, Reg!Confirm,
     Reg!RemoveTree, Reg!RefetchEnds, Reg!TakeLock, Reg!Die
<1>. QED BY <1>1 DEF Reg!Write, RegInv, LockInv

(* A step that changes the file, as UpdatesKeep has it. *)
LEMMA UpdatesOwn ==
  ASSUME RegInv, [Reg!Next]_(Reg!vars), NEW c \in Cmd, regCmd[c].at = "write", disk' # disk
  PROVE  /\ \A a \in Alias : IF a = regCmd[c].alias THEN Reg!Owned(c, a, disk, disk')
                             ELSE disk'.inst[a] = disk.inst[a]
         /\ disk'.active # disk.active =>
              \/ regCmd[c].op = "use" /\ disk'.active = regCmd[c].alias
              \/ regCmd[c].op = "uninstall" /\ disk.active = regCmd[c].alias
              \/ regCmd[c].op = "install" /\ disk.active = None
         /\ disk'.user # disk.user =>
              \/ regCmd[c].op \in {"knob", "answer"}
              \/ regCmd[c].op = "seed" /\ disk.user = "unset"
<1>1. /\ disk \in Reg!Database /\ Reg!TypeOK /\ PlaceInv
      /\ disk' \in Reg!Results(c, disk) /\ ~Reg!Refuses(c, disk)
  BY UpdateStep, UpdateEff DEF RegInv, Reg!TypeOK
<1>. QED BY <1>1, ResultTyped

-----------------------------------------------------------------------------
(***************************************************************************)
(* ExeCache: where creates and builds do not overlap and a build that      *)
(* fails does so before it links, every name of an inode promises the      *)
(* build it holds.                                                         *)
(***************************************************************************)

(* Where a create has the installation's lock, and where it is on its way. *)
Holding == {"gc", "ensure", "link", "store"}
Making == Holding \cup {"lock"}

(* A create goes with no build, on the build-id of the record.             *)
CreateInv ==
  \A c \in Cmd : creating[c].at \in Making =>
    /\ build.at = "idle" /\ built # None /\ exe # None
    /\ creating[c].id = built /\ creating[c].sim \in Sim
HoldInv ==
  /\ \A c, d \in Cmd : creating[c].at \in Holding /\ creating[d].at \in Holding => c = d
  /\ \A c \in Cmd : creating[c].at \in Holding => sim[creating[c].sim].st = "bare"
  /\ \A c \in Cmd : creating[c].at = "store" =>
       /\ sim[creating[c].sim].ino # None
       /\ file[sim[creating[c].sim].ino] = creating[c].id
(* What the tree's executable is while a build runs; while it is being     *)
(* linked it has no other name.                                            *)
TreeInv ==
  /\ build.at \in {"idle", "make"} /\ exe # None => file[exe] = built
  /\ build.at = "copy" => exe = None
  /\ build.at = "link" =>
       /\ exe # None
       /\ \A k \in Exes!Id : cache[k] # exe
       /\ \A s \in Sim : sim[s].ino # exe
  /\ build.at \in {"utils", "made"} => exe # None /\ file[exe] = build.id
  /\ build.at # "idle" => build.id \in Exes!Id
(* What an entry and a simulation promise of their inode.                  *)
EntryInv == \A k \in Exes!Id : cache[k] # None => file[cache[k]] = k
SimsFrozen ==
  \A s \in Sim : sim[s].st \in {"live", "trash"} =>
    sim[s].ino # None /\ file[sim[s].ino] = sim[s].id

ExeInv == Exes!TypeOK /\ CreateInv /\ HoldInv /\ TreeInv /\ EntryInv /\ SimsFrozen

ExeRec == [at : {"idle", "lock", "gc", "ensure", "link", "store", "tidy"},
           sim : Sim \cup {None}, id : Exes!Id \cup {None}, todo : SUBSET Exes!Id, reap : Exes!Id \cup {None}]
SimRec == [st : {"none", "bare", "live", "trash"}, id : Exes!Id \cup {None}, ino : Ino \cup {None}]

LEMMA ExeConsts ==
  /\ MaxId \in Nat /\ None \notin Ino /\ None \notin Exes!Id /\ Exes!Half \notin Exes!Id
  /\ Exes!NoSim \in SimRec /\ Exes!Idle \in ExeRec /\ Exes!NoBuild.at = "idle"
BY HomeAssumption DEF Exes!ExeCacheAssumption, Exes!Id, Exes!Half, Exes!NoSim, SimRec,
   Exes!Idle, ExeRec, Exes!NoBuild

LEMMA ExeInit == Exes!Init => ExeInv
<1>. SUFFICES ASSUME Exes!Init PROVE ExeInv
  OBVIOUS
<1>. USE ExeConsts DEF Exes!Init
<1>1. Exes!TypeOK
  BY DEF Exes!TypeOK, Exes!NoBuild, Exes!NoSim, Exes!Idle
<1>2. CreateInv /\ HoldInv
  BY DEF CreateInv, HoldInv, Exes!Idle, Holding, Making
<1>3. TreeInv /\ EntryInv /\ SimsFrozen
  BY DEF TreeInv, EntryInv, SimsFrozen, Exes!NoSim, Exes!NoBuild
<1>. QED BY <1>1, <1>2, <1>3 DEF ExeInv

(* A free inode has no name. *)
LEMMA FreeUnnamed ==
  ASSUME Exes!TypeOK, NEW i \in Exes!Free
  PROVE  /\ i \in Ino /\ exe # i
         /\ \A k \in Exes!Id : cache[k] # i
         /\ \A s \in Sim : sim[s].ino # i
BY DEF Exes!Free, Exes!Unnamed

(* A step that moves one command. *)
ExeMoves(c) == \A d \in Cmd \ {c} : creating'[d] = creating[d]
LEMMA ExeOneMoves ==
  ASSUME NEW c \in Cmd, NEW x \in ExeRec, creating \in [Cmd -> ExeRec], creating' = [creating EXCEPT ![c] = x]
  PROVE  creating' \in [Cmd -> ExeRec] /\ ExeMoves(c) /\ creating'[c] = x
BY DEF ExeMoves

LEMMA ExeTyped ==
  ASSUME Exes!TypeOK
  PROVE  /\ creating \in [Cmd -> ExeRec] /\ sim \in [Sim -> SimRec]
BY DEF Exes!TypeOK, ExeRec, SimRec

(* A command ends, or collects. *)
LEMMA IdleEff ==
  ASSUME Exes!TypeOK, NEW c \in Cmd, creating' = [creating EXCEPT ![c] = Exes!Idle]
  PROVE  creating' \in [Cmd -> ExeRec] /\ ExeMoves(c) /\ creating'[c].at = "idle"
<1>1. Exes!Idle \in ExeRec /\ Exes!Idle.at = "idle"
  BY ExeConsts DEF Exes!Idle
<1>. QED BY <1>1, ExeTyped, ExeOneMoves

(* Steps that write no file and give no name: what goes on is a command    *)
(* that is not making anything, or the same create as before.              *)
LEMMA QuietKeeps ==
  ASSUME ExeInv, NEW c \in Cmd, creating' \in [Cmd -> ExeRec], ExeMoves(c),
         UNCHANGED <<file, exe, built, build, sim>>,
         cache' \in [Exes!Id -> Ino \cup {None}],
         \A k \in Exes!Id : cache'[k] \in {cache[k], None},
         \/ creating'[c].at \in {"idle", "tidy"}
         \/ /\ creating[c].at = "gc" /\ creating'[c].at \in {"gc", "ensure"}
            /\ creating'[c].id = creating[c].id /\ creating'[c].sim = creating[c].sim
         \/ /\ creating'[c].at = "lock" /\ creating'[c].id = built /\ creating'[c].sim \in Sim
            /\ build.at = "idle" /\ built # None /\ exe # None
  PROVE  ExeInv'
<1>. USE DEF ExeInv
<1>1. Exes!TypeOK'
  BY DEF Exes!TypeOK, ExeRec
<1>2. CreateInv'
  BY DEF CreateInv, ExeMoves, Making, Holding
<1>3. HoldInv'
  <2>1. \A d \in Cmd : creating'[d].at \in Holding =>
          /\ creating[d].at \in Holding /\ creating'[d].sim = creating[d].sim /\ creating'[d].id = creating[d].id
          /\ creating'[d].at = "store" => creating[d].at = "store"
    BY DEF ExeMoves, Holding
  <2>. QED BY <2>1 DEF HoldInv, Holding
<1>4. TreeInv' /\ EntryInv' /\ SimsFrozen'
  BY ExeConsts DEF TreeInv, EntryInv, SimsFrozen, Exes!TypeOK
<1>. QED BY <1>1, <1>2, <1>3, <1>4

LEMMA CreateLookKeeps ==
  ASSUME ExeInv, NEW c \in Cmd, NEW s \in Sim, Exes!Look(c, s)
  PROVE  ExeInv'
<1>. DEFINE y == [Exes!Idle EXCEPT !.at = "lock", !.sim = s, !.id = built]
<1>1. y \in ExeRec /\ y.at = "lock" /\ y.id = built /\ y.sim = s
  BY ExeConsts DEF Exes!Idle, ExeRec, ExeInv, Exes!TypeOK
<1>2. creating' = [creating EXCEPT ![c] = y]
  BY DEF Exes!Look
<1>. HIDE DEF y
<1>3. creating' \in [Cmd -> ExeRec] /\ ExeMoves(c) /\ creating'[c] = y
  BY <1>1, <1>2, ExeTyped, ExeOneMoves DEF ExeInv
<1>. QED BY <1>1, <1>3, QuietKeeps, ExeConsts DEF Exes!Look, ExeInv, Exes!TypeOK

LEMMA TidyKeeps ==
  ASSUME ExeInv, NEW c \in Cmd, Exes!Tidy(c)
  PROVE  ExeInv'
<1>. DEFINE y == [Exes!Idle EXCEPT !.at = "tidy", !.todo = {k \in Exes!Id : cache[k] # None}]
<1>1. y \in ExeRec /\ y.at = "tidy"
  BY ExeConsts DEF Exes!Idle, ExeRec
<1>2. creating' = [creating EXCEPT ![c] = y]
  BY DEF Exes!Tidy
<1>. HIDE DEF y
<1>3. creating' \in [Cmd -> ExeRec] /\ ExeMoves(c) /\ creating'[c] = y
  BY <1>1, <1>2, ExeTyped, ExeOneMoves DEF ExeInv
<1>. QED BY <1>1, <1>3, QuietKeeps DEF Exes!Tidy, ExeInv, Exes!TypeOK

LEMMA DieKeeps ==
  ASSUME ExeInv, NEW c \in Cmd, Exes!Die(c)
  PROVE  ExeInv'
<1>1. creating' \in [Cmd -> ExeRec] /\ ExeMoves(c) /\ creating'[c].at = "idle"
  BY IdleEff DEF ExeInv, Exes!Die
<1>. QED BY <1>1, QuietKeeps DEF Exes!Die, ExeInv, Exes!TypeOK

LEMMA StatKeeps ==
  ASSUME ExeInv, NEW c \in Cmd, Exes!Stat(c)
  PROVE  ExeInv'
<1>1. PICK k \in creating[c].todo :
        creating' = [creating EXCEPT ![c] =
                      IF k \in Exes!Kept(c) THEN [creating[c] EXCEPT !.todo = @ \ {k}]
                      ELSE IF cache[k] = None THEN Exes!Idle
                      ELSE [creating[c] EXCEPT !.todo = @ \ {k},
                                               !.reap = IF Exes!Orphan(k) THEN k ELSE None]]
  BY DEF Exes!Stat
<1>. DEFINE y == IF k \in Exes!Kept(c) THEN [creating[c] EXCEPT !.todo = @ \ {k}]
                 ELSE IF cache[k] = None THEN Exes!Idle
                 ELSE [creating[c] EXCEPT !.todo = @ \ {k},
                                          !.reap = IF Exes!Orphan(k) THEN k ELSE None]
<1>2. creating[c] \in ExeRec
  BY ExeTyped DEF ExeInv
<1>3. /\ y \in ExeRec
      /\ \/ y.at = "idle"
         \/ y.at = creating[c].at /\ y.id = creating[c].id /\ y.sim = creating[c].sim
  <2>1. k \in Exes!Id
    BY <1>2 DEF ExeRec
  <2>2. CASE k \in Exes!Kept(c)
    BY <1>2, <2>2 DEF ExeRec
  <2>3. CASE k \notin Exes!Kept(c) /\ cache[k] = None
    BY <2>3, ExeConsts DEF Exes!Idle
  <2>4. CASE k \notin Exes!Kept(c) /\ cache[k] # None
    BY <1>2, <2>1, <2>4 DEF ExeRec
  <2>. QED BY <2>2, <2>3, <2>4
<1>4. creating' = [creating EXCEPT ![c] = y]
  BY <1>1
<1>. HIDE DEF y
<1>5. creating' \in [Cmd -> ExeRec] /\ ExeMoves(c) /\ creating'[c] = y
  BY <1>3, <1>4, ExeTyped, ExeOneMoves DEF ExeInv
<1>. QED BY <1>3, <1>5, QuietKeeps DEF Exes!Stat, ExeInv, Exes!TypeOK

LEMMA ReapKeeps ==
  ASSUME ExeInv, NEW c \in Cmd, Exes!Reap(c)
  PROVE  ExeInv'
<1>. DEFINE y == IF cache[creating[c].reap] = None THEN Exes!Idle ELSE [creating[c] EXCEPT !.reap = None]
<1>1. creating[c] \in ExeRec
  BY ExeTyped DEF ExeInv
<1>2. /\ y \in ExeRec
      /\ \/ y.at = "idle"
         \/ y.at = creating[c].at /\ y.id = creating[c].id /\ y.sim = creating[c].sim
  BY <1>1, ExeConsts DEF ExeRec, Exes!Idle
<1>3. creating' = [creating EXCEPT ![c] = y]
  BY DEF Exes!Reap
<1>. HIDE DEF y
<1>4. creating' \in [Cmd -> ExeRec] /\ ExeMoves(c) /\ creating'[c] = y
  BY <1>2, <1>3, ExeTyped, ExeOneMoves DEF ExeInv
<1>5. cache' \in [Exes!Id -> Ino \cup {None}] /\ \A k \in Exes!Id : cache'[k] \in {cache[k], None}
  BY DEF Exes!Reap, ExeInv, Exes!TypeOK
<1>. QED BY <1>2, <1>4, <1>5, QuietKeeps DEF Exes!Reap, ExeInv

LEMMA CollectedKeeps ==
  ASSUME ExeInv, NEW c \in Cmd, Exes!Collected(c)
  PROVE  ExeInv'
<1>. DEFINE y == IF creating[c].at = "gc" THEN [creating[c] EXCEPT !.at = "ensure"] ELSE Exes!Idle
<1>1. creating[c] \in ExeRec
  BY ExeTyped DEF ExeInv
<1>2. /\ y \in ExeRec
      /\ \/ y.at = "idle"
         \/ /\ creating[c].at = "gc" /\ y.at = "ensure" /\ y.id = creating[c].id
            /\ y.sim = creating[c].sim
  BY <1>1, ExeConsts DEF ExeRec, Exes!Idle
<1>3. creating' = [creating EXCEPT ![c] = y]
  BY DEF Exes!Collected
<1>. HIDE DEF y
<1>4. creating' \in [Cmd -> ExeRec] /\ ExeMoves(c) /\ creating'[c] = y
  BY <1>2, <1>3, ExeTyped, ExeOneMoves DEF ExeInv
<1>. QED BY <1>2, <1>4, QuietKeeps DEF Exes!Collected, ExeInv, Exes!TypeOK

(* The directory of a simulation that a create makes, or remakes.          *)
LEMMA TakeLockKeeps ==
  ASSUME ExeInv, NEW c \in Cmd, Exes!TakeLock(c)
  PROVE  ExeInv'
<1>. USE DEF ExeInv
<1>. DEFINE s == creating[c].sim
            y == [creating[c] EXCEPT !.at = "gc", !.todo = {k \in Exes!Id : cache[k] # None}]
<1>0. /\ creating[c].at = "lock" /\ ~Exes!Locked /\ UNCHANGED <<file, exe, built, build, cache>>
      /\ s \in Sim /\ creating[c].id = built /\ creating[c] \in ExeRec
  BY ExeTyped DEF Exes!TakeLock, CreateInv, Making
<1>1. CASE creating' = [creating EXCEPT ![c] = Exes!Idle] /\ UNCHANGED sim
  <2>1. creating' \in [Cmd -> ExeRec] /\ ExeMoves(c) /\ creating'[c].at = "idle"
    BY <1>1, IdleEff
  <2>. QED BY <1>0, <1>1, <2>1, QuietKeeps DEF Exes!TypeOK
<1>2. CASE /\ \E z \in {[sim[s] EXCEPT !.st = "bare", !.id = None, !.ino = None],
                        [Exes!NoSim EXCEPT !.st = "bare"]} : sim' = [sim EXCEPT ![s] = z]
           /\ creating' = [creating EXCEPT ![c] = y]
  <2>1. y \in ExeRec /\ y.at = "gc" /\ y.id = creating[c].id /\ y.sim = s
    BY <1>0 DEF ExeRec
  <2>. HIDE DEF y
  <2>2. creating' \in [Cmd -> ExeRec] /\ ExeMoves(c) /\ creating'[c] = y
    BY <1>2, <2>1, ExeTyped, ExeOneMoves
  <2>3. PICK z \in SimRec : z.st = "bare" /\ z.ino = None /\ sim' = [sim EXCEPT ![s] = z]
    <3>1. sim[s] \in SimRec
      BY <1>0, ExeTyped
    <3>2. \A z \in {[sim[s] EXCEPT !.st = "bare", !.id = None, !.ino = None],
                    [Exes!NoSim EXCEPT !.st = "bare"]} :
            z \in SimRec /\ z.st = "bare" /\ z.ino = None
      BY <3>1, ExeConsts DEF SimRec, Exes!NoSim
    <3>. QED BY <1>2, <3>2
  <2>4. /\ sim' \in [Sim -> SimRec] /\ sim'[s].st = "bare" /\ sim'[s].ino = None
        /\ \A u \in Sim \ {s} : sim'[u] = sim[u]
    BY <1>0, <2>3, ExeTyped
  <2>5. Exes!TypeOK'
    BY <1>0, <2>2, <2>4 DEF Exes!TypeOK, ExeRec, SimRec
  <2>6. CreateInv'
    BY <1>0, <2>1, <2>2 DEF CreateInv, ExeMoves, Making, Holding
  <2>7. \A d \in Cmd : creating'[d].at \in Holding => d = c
    BY <1>0, <2>2 DEF ExeMoves, Exes!Locked, Holding
  <2>8. HoldInv'
    BY <2>1, <2>2, <2>4, <2>7 DEF HoldInv, Holding
  <2>9. TreeInv' /\ EntryInv' /\ SimsFrozen'
    BY <1>0, <2>4 DEF TreeInv, EntryInv, SimsFrozen
  <2>. QED BY <2>5, <2>6, <2>8, <2>9
<1>3. CASE /\ sim[s].st \in {"none", "trash"}
           /\ sim' = [sim EXCEPT ![s].st = "bare", ![s].id = None, ![s].ino = None]
           /\ creating' = [creating EXCEPT ![c].at = "gc", ![c].todo = {k \in Exes!Id : cache[k] # None}]
  <2>1. sim' = [sim EXCEPT ![s] = [sim[s] EXCEPT !.st = "bare", !.id = None, !.ino = None]]
    BY <1>0, <1>3, ExeTyped
  <2>2. creating' = [creating EXCEPT ![c] = y]
    BY <1>0, <1>3, ExeTyped
  <2>. QED BY <1>2, <2>1, <2>2
<1>4. CASE /\ sim[s].st \in {"live", "bare"}
           /\ sim' = [sim EXCEPT ![s] = [Exes!NoSim EXCEPT !.st = "bare"]]
           /\ creating' = [creating EXCEPT ![c].at = "gc", ![c].todo = {k \in Exes!Id : cache[k] # None}]
  <2>2. creating' = [creating EXCEPT ![c] = y]
    BY <1>0, <1>4, ExeTyped
  <2>. QED BY <1>2, <1>4, <2>2
<1>. QED BY <1>1, <1>3, <1>4 DEF Exes!TakeLock

(* A file is written only at an inode without a name. *)
LEMMA Named ==
  ASSUME ExeInv, NEW i \in Exes!Free, NEW x, file' = [file EXCEPT ![i] = x]
  PROVE  /\ exe # None => file'[exe] = file[exe]
         /\ \A k \in Exes!Id : cache[k] # None => file'[cache[k]] = file[cache[k]]
         /\ \A s \in Sim : sim[s].ino # None => file'[sim[s].ino] = file[sim[s].ino]
         /\ i \in Ino /\ file'[i] = x
BY FreeUnnamed DEF ExeInv, Exes!TypeOK

(* A create with the lock that goes on. *)
LEMMA OnEff ==
  ASSUME ExeInv, NEW c \in Cmd, creating[c].at \in Holding, NEW p \in {"link", "store"},
         creating' = [creating EXCEPT ![c].at = p]
  PROVE  /\ creating' \in [Cmd -> ExeRec] /\ ExeMoves(c)
         /\ creating'[c].at = p /\ creating'[c].id = creating[c].id /\ creating'[c].sim = creating[c].sim
         /\ CreateInv => CreateInv' \/ ~UNCHANGED <<exe, built, build>>
         /\ \A d \in Cmd : creating'[d].at \in Holding => d = c
<1>. DEFINE y == [creating[c] EXCEPT !.at = p]
<1>1. creating \in [Cmd -> ExeRec] /\ creating[c] \in ExeRec
  BY ExeTyped DEF ExeInv
<1>2. y \in ExeRec /\ y.at = p /\ y.id = creating[c].id /\ y.sim = creating[c].sim
  BY <1>1 DEF ExeRec
<1>3. creating' = [creating EXCEPT ![c] = y]
  OBVIOUS
<1>. HIDE DEF y
<1>4. creating' \in [Cmd -> ExeRec] /\ ExeMoves(c) /\ creating'[c] = y
  BY <1>1, <1>2, <1>3, ExeOneMoves
<1>5. UNCHANGED <<exe, built, build>> => CreateInv'
  BY <1>2, <1>4 DEF ExeInv, CreateInv, ExeMoves, Making
<1>6. \A d \in Cmd : creating'[d].at \in Holding => d = c
  BY <1>4 DEF ExeInv, HoldInv, ExeMoves
<1>. QED BY <1>2, <1>4, <1>5, <1>6

LEMMA EnsureKeeps ==
  ASSUME ExeInv, NEW c \in Cmd, Exes!Ensure(c)
  PROVE  ExeInv'
<1>. USE DEF ExeInv
<1>. DEFINE k == creating[c].id
<1>0. /\ creating[c].at = "ensure" /\ UNCHANGED <<exe, built, build, sim>>
      /\ creating' = [creating EXCEPT ![c].at = "link"]
      /\ build.at = "idle" /\ k = built /\ k \in Exes!Id /\ exe \in Ino /\ file[exe] = k
  BY DEF Exes!Ensure, CreateInv, Making, Holding, Exes!TypeOK, TreeInv
<1>1. /\ creating' \in [Cmd -> ExeRec] /\ ExeMoves(c)
      /\ creating'[c].at = "link" /\ creating'[c].id = k /\ creating'[c].sim = creating[c].sim /\ CreateInv'
      /\ \A d \in Cmd : creating'[d].at \in Holding => d = c
  BY <1>0, OnEff DEF Holding
<1>2. /\ cache' \in [Exes!Id -> Ino \cup {None}] /\ file' \in [Ino -> Exes!Id \cup {Exes!Half}]
      /\ exe # None => file'[exe] = file[exe]
      /\ \A j \in Exes!Id : cache'[j] # None => file'[cache'[j]] = j
      /\ \A s \in Sim : sim[s].ino # None => file'[sim[s].ino] = file[sim[s].ino]
  <2>1. CASE UNCHANGED <<cache, file>>
    BY <2>1 DEF Exes!TypeOK, EntryInv
  <2>2. CASE cache[k] = None /\ cache' = [cache EXCEPT ![k] = exe] /\ UNCHANGED file
    BY <1>0, <2>2 DEF Exes!TypeOK, EntryInv
  <2>3. CASE cache[k] = None /\ \E i \in Exes!Free : /\ cache' = [cache EXCEPT ![k] = i]
                                                     /\ file' = [file EXCEPT ![i] = file[exe]]
    <3>1. PICK i \in Exes!Free : /\ cache' = [cache EXCEPT ![k] = i]
                                 /\ file' = [file EXCEPT ![i] = k]
      BY <1>0, <2>3
    <3>2. /\ exe # None => file'[exe] = file[exe]
          /\ \A j \in Exes!Id : cache[j] # None => file'[cache[j]] = file[cache[j]]
          /\ \A s \in Sim : sim[s].ino # None => file'[sim[s].ino] = file[sim[s].ino]
          /\ i \in Ino /\ file'[i] = k
      BY <3>1, Named
    <3>3. /\ cache' \in [Exes!Id -> Ino \cup {None}] /\ file' \in [Ino -> Exes!Id \cup {Exes!Half}]
          /\ cache'[k] = i /\ \A j \in Exes!Id \ {k} : cache'[j] = cache[j]
      BY <1>0, <3>1, <3>2 DEF Exes!TypeOK
    <3>4. \A j \in Exes!Id : cache'[j] # None => file'[cache'[j]] = j
      BY <3>2, <3>3 DEF EntryInv
    <3>. QED BY <3>2, <3>3, <3>4
  <2>. QED BY <2>1, <2>2, <2>3 DEF Exes!Ensure
<1>3. Exes!TypeOK'
  BY <1>0, <1>1, <1>2 DEF Exes!TypeOK, ExeRec
<1>4. HoldInv'
  BY <1>0, <1>1 DEF HoldInv, Holding
<1>5. TreeInv' /\ EntryInv' /\ SimsFrozen'
  BY <1>0, <1>2 DEF TreeInv, EntryInv, SimsFrozen
<1>. QED BY <1>1, <1>3, <1>4, <1>5

LEMMA LinkIntoKeeps ==
  ASSUME ExeInv, NEW c \in Cmd, Exes!LinkInto(c)
  PROVE  ExeInv'
<1>. USE DEF ExeInv
<1>. DEFINE e == cache[creating[c].id]
            s == creating[c].sim
<1>0. /\ creating[c].at = "link" /\ UNCHANGED <<exe, built, build, cache>>
      /\ build.at = "idle" /\ creating[c].id = built /\ built \in Exes!Id /\ s \in Sim
      /\ sim[s].st = "bare" /\ e \in Ino \cup {None}
  BY DEF Exes!LinkInto, CreateInv, HoldInv, Making, Holding, Exes!TypeOK
<1>1. CASE creating' = [creating EXCEPT ![c] = Exes!Idle] /\ UNCHANGED <<file, sim>>
  <2>1. creating' \in [Cmd -> ExeRec] /\ ExeMoves(c) /\ creating'[c].at = "idle"
    BY <1>1, IdleEff
  <2>. QED BY <1>0, <1>1, <2>1, QuietKeeps DEF Exes!TypeOK
<1>2. CASE /\ e # None /\ creating' = [creating EXCEPT ![c].at = "store"]
           /\ \/ sim' = [sim EXCEPT ![s].ino = e] /\ UNCHANGED file
              \/ \E i \in Exes!Free : /\ sim' = [sim EXCEPT ![s].ino = i]
                                      /\ file' = [file EXCEPT ![i] = file[e]]
  <2>1. /\ creating' \in [Cmd -> ExeRec] /\ ExeMoves(c)
        /\ creating'[c].at = "store" /\ creating'[c].id = creating[c].id /\ creating'[c].sim = s /\ CreateInv'
        /\ \A d \in Cmd : creating'[d].at \in Holding => d = c
    BY <1>0, <1>2, OnEff DEF Holding
  <2>2. file[e] = built
    BY <1>0, <1>2 DEF EntryInv
  <2>3. PICK i \in Ino :
          /\ sim' = [sim EXCEPT ![s].ino = i]
          /\ file' \in [Ino -> Exes!Id \cup {Exes!Half}] /\ file'[i] = built
          /\ exe # None => file'[exe] = file[exe]
          /\ \A j \in Exes!Id : cache[j] # None => file'[cache[j]] = file[cache[j]]
          /\ \A u \in Sim : sim[u].ino # None => file'[sim[u].ino] = file[sim[u].ino]
    <3>1. CASE sim' = [sim EXCEPT ![s].ino = e] /\ UNCHANGED file
      BY <1>0, <1>2, <2>2, <3>1 DEF Exes!TypeOK
    <3>2. CASE \E i \in Exes!Free : /\ sim' = [sim EXCEPT ![s].ino = i]
                                    /\ file' = [file EXCEPT ![i] = file[e]]
      <4>1. PICK i \in Exes!Free : /\ sim' = [sim EXCEPT ![s].ino = i]
                                   /\ file' = [file EXCEPT ![i] = built]
        BY <2>2, <3>2
      <4>2. /\ exe # None => file'[exe] = file[exe]
            /\ \A j \in Exes!Id : cache[j] # None => file'[cache[j]] = file[cache[j]]
            /\ \A u \in Sim : sim[u].ino # None => file'[sim[u].ino] = file[sim[u].ino]
            /\ i \in Ino /\ file'[i] = built
        BY <4>1, Named
      <4>3. file' \in [Ino -> Exes!Id \cup {Exes!Half}]
        BY <1>0, <4>1, <4>2 DEF Exes!TypeOK
      <4>. QED BY <4>1, <4>2, <4>3
    <3>. QED BY <1>2, <3>1, <3>2
  <2>4. /\ sim' \in [Sim -> SimRec] /\ sim'[s].st = "bare" /\ sim'[s].ino = i
        /\ \A u \in Sim \ {s} : sim'[u] = sim[u]
    <3>1. sim \in [Sim -> SimRec] /\ sim[s] \in SimRec
      BY <1>0, ExeTyped
    <3>. QED BY <1>0, <2>3, <3>1 DEF SimRec
  <2>5. Exes!TypeOK'
    BY <1>0, <2>1, <2>3, <2>4 DEF Exes!TypeOK, ExeRec, SimRec
  <2>6. HoldInv'
    BY <1>0, <2>1, <2>3, <2>4, ExeConsts DEF HoldInv, Holding
  <2>7. TreeInv' /\ EntryInv' /\ SimsFrozen'
    BY <1>0, <2>3, <2>4 DEF TreeInv, EntryInv, SimsFrozen
  <2>. QED BY <2>1, <2>5, <2>6, <2>7
<1>. QED BY <1>1, <1>2 DEF Exes!LinkInto

LEMMA RegisterKeeps ==
  ASSUME ExeInv, NEW c \in Cmd, Exes!Register(c)
  PROVE  ExeInv'
<1>. USE DEF ExeInv
<1>. DEFINE s == creating[c].sim
            z == [sim[s] EXCEPT !.st = "live", !.id = creating[c].id]
<1>0. /\ creating[c].at = "store" /\ UNCHANGED <<file, exe, built, build, cache>>
      /\ creating[c].id \in Exes!Id /\ s \in Sim
      /\ sim[s].ino # None /\ file[sim[s].ino] = creating[c].id
  BY DEF Exes!Register, CreateInv, HoldInv, Making, Holding, Exes!TypeOK
<1>1. creating' \in [Cmd -> ExeRec] /\ ExeMoves(c) /\ creating'[c].at = "idle"
  BY IdleEff DEF Exes!Register
<1>2. z \in SimRec /\ z.st = "live" /\ z.id = creating[c].id /\ z.ino = sim[s].ino
  BY <1>0, ExeTyped DEF SimRec
<1>3. sim' = [sim EXCEPT ![s] = z]
  BY <1>0, ExeTyped DEF Exes!Register
<1>. HIDE DEF z
<1>4. sim' \in [Sim -> SimRec] /\ sim'[s] = z /\ \A u \in Sim \ {s} : sim'[u] = sim[u]
  BY <1>0, <1>2, <1>3, ExeTyped
<1>5. \A d \in Cmd : creating'[d].at \notin Holding
  BY <1>0, <1>1 DEF HoldInv, Holding, ExeMoves
<1>6. Exes!TypeOK'
  BY <1>0, <1>1, <1>4 DEF Exes!TypeOK, ExeRec, SimRec
<1>7. CreateInv'
  BY <1>0, <1>1 DEF CreateInv, Making, Holding, ExeMoves
<1>8. HoldInv'
  BY <1>5 DEF HoldInv, Holding
<1>9. TreeInv' /\ EntryInv' /\ SimsFrozen'
  BY <1>0, <1>2, <1>4 DEF TreeInv, EntryInv, SimsFrozen
<1>. QED BY <1>6, <1>7, <1>8, <1>9

(* A simulation goes to the trash, or for good. *)
LEMMA DeleteKeeps ==
  ASSUME ExeInv, NEW s \in Sim, Exes!Delete(s) \/ Exes!EmptyTrash(s)
  PROVE  ExeInv'
<1>. USE DEF ExeInv
<1>1. UNCHANGED <<file, exe, built, build, cache, creating>> /\ sim[s].st \in {"live", "trash"}
  BY DEF Exes!Delete, Exes!EmptyTrash
<1>. DEFINE t == [sim[s] EXCEPT !.st = "trash"]
<1>2. t \in SimRec /\ t.st = "trash" /\ t.id = sim[s].id /\ t.ino = sim[s].ino
  BY ExeTyped DEF SimRec
<1>3. /\ sim' \in [Sim -> SimRec] /\ \A u \in Sim \ {s} : sim'[u] = sim[u]
      /\ \/ sim'[s] = Exes!NoSim
         \/ sim'[s] = t /\ sim[s].st = "live"
  <2>1. \/ sim' = [sim EXCEPT ![s] = Exes!NoSim]
        \/ sim' = [sim EXCEPT ![s] = t] /\ sim[s].st = "live"
    BY DEF Exes!Delete, Exes!EmptyTrash
  <2>. HIDE DEF t
  <2>. QED BY <1>2, <2>1, ExeTyped, ExeConsts
<1>. HIDE DEF t
<1>4. Exes!TypeOK'
  BY <1>1, <1>3 DEF Exes!TypeOK, SimRec
<1>5. CreateInv'
  BY <1>1 DEF CreateInv
<1>6. HoldInv'
  BY <1>1, <1>3 DEF HoldInv, CreateInv, Making, Holding
<1>7. TreeInv' /\ EntryInv' /\ SimsFrozen'
  <2>1. \A u \in Sim : sim'[u].ino \in {sim[u].ino, None}
    BY <1>2, <1>3 DEF Exes!NoSim
  <2>2. TreeInv'
    BY <1>1, <2>1 DEF TreeInv
  <2>3. \A u \in Sim : sim'[u].st \in {"live", "trash"} =>
          /\ sim[u].st \in {"live", "trash"}
          /\ sim'[u].ino = sim[u].ino /\ sim'[u].id = sim[u].id
    BY <1>1, <1>2, <1>3 DEF Exes!NoSim
  <2>4. EntryInv' /\ SimsFrozen'
    BY <1>1, <2>3 DEF EntryInv, SimsFrozen
  <2>. QED BY <2>2, <2>4
<1>. QED BY <1>4, <1>5, <1>6, <1>7

LEMMA BuildKeeps ==
  ASSUME ExeInv, Exes!Build
  PROVE  ExeInv'
<1>. USE DEF ExeInv
<1>0. UNCHANGED <<cache, sim, creating>>
  BY DEF Exes!Build, Exes!BuildStarts, Exes!LinkBegins, Exes!LinkEnds, Exes!CopyBuild,
     Exes!MakeEnds, Exes!Record, Exes!BuildFails
<1>1. \A c \in Cmd : creating[c].at \notin Making
  <2>1. CASE Exes!BuildStarts
    BY <2>1, HomeAssumption DEF Exes!BuildStarts, Exes!Creating, Making, Holding
  <2>2. CASE ~Exes!BuildStarts
    BY <2>2 DEF Exes!Build, Exes!LinkBegins, Exes!LinkEnds, Exes!CopyBuild, Exes!MakeEnds,
       Exes!Record, Exes!BuildFails, Exes!FailsAt, CreateInv
  <2>. QED BY <2>1, <2>2
<1>2. CreateInv' /\ HoldInv'
  BY <1>0, <1>1 DEF CreateInv, HoldInv, Making, Holding
<1>3. /\ file' \in [Ino -> Exes!Id \cup {Exes!Half}] /\ exe' \in Ino \cup {None} /\ built' \in Exes!Id \cup {None}
      /\ build' \in [at : {"idle", "make", "link", "copy", "utils", "made"}, id : 0..MaxId]
      /\ TreeInv'
      /\ \A k \in Exes!Id : cache[k] # None => file'[cache[k]] = file[cache[k]]
      /\ \A s \in Sim : sim[s].ino # None => file'[sim[s].ino] = file[sim[s].ino]
  <2>. USE ExeConsts DEF Exes!Id, Exes!TypeOK
  <2>0. /\ build.at \in {"idle", "make", "link", "copy", "utils", "made"} /\ build.id \in 0..MaxId
        /\ build = [at |-> build.at, id |-> build.id]
    OBVIOUS
  <2>1. CASE Exes!BuildStarts
    BY <1>0, <2>0, <2>1 DEF Exes!BuildStarts, TreeInv
  <2>2. CASE Exes!LinkBegins
    <3>1. PICK i \in Exes!Free : exe' = i /\ file' = [file EXCEPT ![i] = Exes!Half]
      BY <2>2 DEF Exes!LinkBegins
    <3>2. build' = [at |-> "link", id |-> build.id] /\ build.id \in Exes!Id /\ UNCHANGED built
      BY <2>0, <2>2 DEF Exes!LinkBegins, TreeInv
    <3>3. i \in Ino /\ (\A k \in Exes!Id : cache[k] # i) /\ (\A s \in Sim : sim[s].ino # i)
      BY <3>1, FreeUnnamed
    <3>. QED BY <1>0, <3>1, <3>2, <3>3 DEF TreeInv
  <2>3. CASE Exes!LinkEnds
    <3>1. /\ file' = [file EXCEPT ![exe] = build.id] /\ UNCHANGED <<exe, built>> /\ exe \in Ino
          /\ build' = [at |-> "utils", id |-> build.id] /\ build.id \in Exes!Id
          /\ (\A k \in Exes!Id : cache[k] # exe) /\ (\A s \in Sim : sim[s].ino # exe)
      BY <2>0, <2>3 DEF Exes!LinkEnds, TreeInv
    <3>. QED BY <1>0, <3>1 DEF TreeInv
  <2>4. CASE Exes!CopyBuild
    <3>1. PICK i \in Exes!Free : exe' = i /\ file' = [file EXCEPT ![i] = build.id]
      BY <2>4 DEF Exes!CopyBuild, Exes!CopyInto, TreeInv
    <3>2. build' = [at |-> "made", id |-> build.id] /\ build.id \in Exes!Id /\ UNCHANGED built
      BY <2>0, <2>4 DEF Exes!CopyBuild, TreeInv
    <3>3. i \in Ino /\ (\A k \in Exes!Id : cache[k] # i) /\ (\A s \in Sim : sim[s].ino # i)
      BY <3>1, FreeUnnamed
    <3>. QED BY <1>0, <3>1, <3>2, <3>3 DEF TreeInv
  <2>5. CASE Exes!MakeEnds
    BY <1>0, <2>0, <2>5 DEF Exes!MakeEnds, TreeInv
  <2>6. CASE Exes!Record
    BY <1>0, <2>0, <2>6 DEF Exes!Record, TreeInv
  <2>7. CASE Exes!BuildFails
    <3>1. build.at = "make" /\ build' = [at |-> "idle", id |-> build.id]
          /\ UNCHANGED <<file, exe, built>>
      BY <2>0, <2>7 DEF Exes!BuildFails, Exes!FailsAt
    <3>. QED BY <1>0, <3>1 DEF TreeInv
  <2>. QED BY <2>1, <2>2, <2>3, <2>4, <2>5, <2>6, <2>7 DEF Exes!Build
<1>4. Exes!TypeOK' /\ EntryInv' /\ SimsFrozen'
  BY <1>0, <1>3 DEF Exes!TypeOK, EntryInv, SimsFrozen
<1>. QED BY <1>2, <1>3, <1>4

LEMMA ExeStep == ExeInv /\ [Exes!Next]_(Exes!vars) => ExeInv'
<1>. SUFFICES ASSUME ExeInv, [Exes!Next]_(Exes!vars) PROVE ExeInv'
  OBVIOUS
<1>1. CASE UNCHANGED Exes!vars
  BY <1>1 DEF Exes!vars, ExeInv, Exes!TypeOK, CreateInv, HoldInv, TreeInv, EntryInv, SimsFrozen
<1>2. CASE Exes!Build
  BY <1>2, BuildKeeps
<1>3. ASSUME NEW c \in Cmd, NEW s \in Sim, Exes!Look(c, s) PROVE ExeInv'
  BY <1>3, CreateLookKeeps
<1>4. ASSUME NEW c \in Cmd,
             \/ Exes!TakeLock(c) \/ Exes!Ensure(c) \/ Exes!LinkInto(c) \/ Exes!Register(c)
             \/ Exes!Die(c) \/ Exes!Tidy(c) \/ Exes!Stat(c) \/ Exes!Reap(c) \/ Exes!Collected(c)
      PROVE  ExeInv'
  BY <1>4, TakeLockKeeps, EnsureKeeps, LinkIntoKeeps, RegisterKeeps, DieKeeps, TidyKeeps,
     StatKeeps, ReapKeeps, CollectedKeeps
<1>5. ASSUME NEW s \in Sim, Exes!Delete(s) \/ Exes!EmptyTrash(s) PROVE ExeInv'
  BY <1>5, DeleteKeeps
<1>. QED BY <1>1, <1>2, <1>3, <1>4, <1>5 DEF Exes!Next

(* The invariant of builds, cached entries and simulations (ExeInv).       *)
THEOREM ExesHold == Exes!Spec => []ExeInv
BY ExeInit, ExeStep, PTL DEF Exes!Spec

-----------------------------------------------------------------------------
(***************************************************************************)
(* Releases: updates, prunes and installations exclude each other; a build *)
(* with a young job is current, being retired, or was retired before the   *)
(* job's age.                                                              *)
(***************************************************************************)

Busy(c) == binCmd[c].at \notin {"idle", "run"}
(* One update, prune or installation at a time. *)
OneBusy == \A c, d \in Cmd : Busy(c) /\ Busy(d) => c = d

(* What each holds of bin/. *)
StepInv ==
  \A c \in Cmd :
    /\ binCmd[c].at \notin {"idle", "ln"} => binCmd[c].me \in Bin!Build
    /\ binCmd[c].at \in {"persist", "swap"} => binCmd[c].new \in Bin!Build /\ binCmd[c].prev = binLink.build
    /\ binCmd[c].at = "swap" => binCmd[c].new \in binFiles
    /\ binCmd[c].at \in {"unstamp", "stamp"} =>
         /\ binCmd[c].prev \in Bin!Build /\ binLink = [build |-> binCmd[c].new, plain |-> FALSE]
         /\ binCmd[c].prev # binCmd[c].new => binLeft[binCmd[c].prev] # None
    /\ binCmd[c].at \in {"prune", "drop"} =>
         IF binLink.plain THEN binCmd[c].todo = {} ELSE binCmd[c].prev = binLink.build
    /\ binCmd[c].at = "drop" => binCmd[c].new \in Bin!Build
    /\ binCmd[c].at = "ln" =>
         binCmd[c].new \in binFiles /\ binStamp[binCmd[c].new] = None /\ binStamp[binLink.build] = None

(* Before the first update.                                                *)
PlainInv ==
  binLink.plain =>
    /\ binLink.build = 1
    /\ \A b \in Bin!Build : binStamp[b] = None /\ binLeft[b] = None
    /\ binJobs \subseteq {1}
    /\ \A c \in Cmd : binCmd[c].me \in {None, 1}

(* The current build has a stamp only after a death, or before its update  *)
(* takes it off.                                                           *)
StampInv ==
  /\ binStamp[binLink.build] # None => binDeaths # 0 \/ \E c \in Cmd : binCmd[c].at = "unstamp"
  /\ \A c \in Cmd :
       binCmd[c].at \in {"unstamp", "stamp"} /\ binStamp[binCmd[c].prev] # None => binDeaths # 0

(* A stamp older than its build's retirement: of the current build, or of  *)
(* the one that is being retired.                                          *)
Younger(b) == binStamp[b] # None /\ (binLeft[b] = None \/ binLeft[b] < binStamp[b])
AgeInv ==
  \A b \in Bin!Build : Younger(b) =>
    b = binLink.build \/ \E c \in Cmd : binCmd[c].at \in {"unstamp", "stamp"} /\ binCmd[c].prev = b

(* A build that is current or was retired less than Keep ago: what runs    *)
(* from its file has the file, and what has named it is among the jobs'.   *)
InTime(b) == binLeft[b] = None \/ binLeft[b] < Keep
RunInv ==
  \A c \in Cmd : binCmd[c].at = "run" =>
    /\ ~binCmd[c].plain /\ InTime(binCmd[c].me) => binCmd[c].me \in binFiles
    /\ binCmd[c].frozen => binCmd[c].me \in binJobs

JobInv == MaxDeaths <= 1 => AgeInv /\ RunInv /\ Bin!JobsStart

BinInv == Bin!TypeOK /\ OneBusy /\ StepInv /\ PlainInv /\ Bin!LinkRuns /\ StampInv /\ JobInv

BinRec == [at : {"idle", "run", "persist", "swap", "unstamp", "stamp", "prune", "drop", "ln"},
           me : Bin!Build \cup {None}, plain : BOOLEAN, frozen : BOOLEAN, new : Bin!Build \cup {None},
           prev : Bin!Build \cup {None}, todo : SUBSET Bin!Build]
BinMoves(c) == \A d \in Cmd \ {c} : binCmd'[d] = binCmd[d]

LEMMA BinConsts ==
  /\ Keep \in Nat /\ Keep > 0 /\ MaxDeaths \in Nat /\ None \notin Nat /\ None \notin Bin!Build
  /\ 1 \in Bin!Build /\ Bin!Build \subseteq Nat
  /\ Bin!Idle \in BinRec /\ Bin!Idle.at = "idle" /\ Bin!Idle.me = None
BY HomeAssumption DEF Bin!ReleasesAssumption, Bin!Build, Bin!Idle, BinRec

LEMMA BinInit == Bin!Init => BinInv
<1>. SUFFICES ASSUME Bin!Init PROVE BinInv
  OBVIOUS
<1>. USE BinConsts DEF Bin!Init, Bin!Idle
<1>1. Bin!TypeOK
  <2>1. binLink \in [build : Bin!Build, plain : BOOLEAN] /\ binFiles \subseteq Bin!Build
    OBVIOUS
  <2>2. None \in Bin!Ages
    BY DEF Bin!Ages
  <2>. QED BY <2>1, <2>2 DEF Bin!TypeOK
<1>2. OneBusy /\ StepInv /\ PlainInv /\ Bin!LinkRuns
  BY DEF OneBusy, Busy, StepInv, PlainInv, Bin!LinkRuns
<1>3. StampInv /\ JobInv
  BY DEF StampInv, JobInv, AgeInv, Younger, RunInv, InTime, Bin!JobsStart
<1>. QED BY <1>1, <1>2, <1>3 DEF BinInv

LEMMA BinOneMoves ==
  ASSUME Bin!TypeOK, NEW c \in Cmd, NEW x \in BinRec, binCmd' = [binCmd EXCEPT ![c] = x]
  PROVE  binCmd' \in [Cmd -> BinRec] /\ BinMoves(c) /\ binCmd'[c] = x
BY DEF BinMoves, Bin!TypeOK, BinRec

LEMMA BinTyped ==
  ASSUME Bin!TypeOK
  PROVE  /\ \A c \in Cmd : binCmd[c] \in BinRec
         /\ binLink.build \in Bin!Build /\ binLink.plain \in BOOLEAN
BY DEF Bin!TypeOK, BinRec

(* A process that is at no step of an update, prune or installation, or    *)
(* leaves it.                                                              *)
LEMMA RestKeeps ==
  ASSUME BinInv, NEW c \in Cmd, binCmd' \in [Cmd -> BinRec], BinMoves(c),
         binCmd'[c].at \in {"idle", "run"}, binCmd'[c].at = "run" => binCmd'[c].me \in Bin!Build,
         binLink.plain => binCmd'[c].me \in {None, 1},
         binCmd'[c].at = "run" =>
           /\ ~binCmd'[c].frozen
           /\ binCmd'[c].plain \/ binCmd'[c].me \in binFiles,
         UNCHANGED <<binLink, binFiles, binStamp, binLeft, binJobs>>,
         binDeaths' \in 0..MaxDeaths, binDeaths # 0 => binDeaths' # 0,
         binCmd[c].at \in {"unstamp", "stamp"} =>
           /\ binCmd[c].at = "unstamp" => binDeaths' # 0
           /\ MaxDeaths <= 1 => binStamp[binCmd[c].prev] = None
  PROVE  BinInv'
<1>. USE DEF BinInv
<1>1. Bin!TypeOK'
  BY DEF Bin!TypeOK, BinRec
<1>2. OneBusy'
  BY DEF OneBusy, Busy, BinMoves
<1>3. StepInv'
  <2>. SUFFICES ASSUME NEW d \in Cmd, d # c, binCmd'[d] = binCmd[d] PROVE
          /\ binCmd[d].at \notin {"idle", "ln"} => binCmd[d].me \in Bin!Build
          /\ binCmd[d].at \in {"persist", "swap"} => binCmd[d].new \in Bin!Build /\ binCmd[d].prev = binLink.build
          /\ binCmd[d].at = "swap" => binCmd[d].new \in binFiles
          /\ binCmd[d].at \in {"unstamp", "stamp"} =>
               /\ binCmd[d].prev \in Bin!Build /\ binLink = [build |-> binCmd[d].new, plain |-> FALSE]
               /\ binCmd[d].prev # binCmd[d].new => binLeft[binCmd[d].prev] # None
          /\ binCmd[d].at \in {"prune", "drop"} =>
               IF binLink.plain THEN binCmd[d].todo = {} ELSE binCmd[d].prev = binLink.build
          /\ binCmd[d].at = "drop" => binCmd[d].new \in Bin!Build
          /\ binCmd[d].at = "ln" =>
               binCmd[d].new \in binFiles /\ binStamp[binCmd[d].new] = None /\ binStamp[binLink.build] = None
    BY DEF StepInv, BinMoves
  <2>. QED BY DEF StepInv
<1>4. PlainInv' /\ Bin!LinkRuns'
  BY DEF PlainInv, Bin!LinkRuns, BinMoves
<1>5. StampInv'
  BY DEF StampInv, BinMoves
<1>6. JobInv'
  <2>1. MaxDeaths <= 1 => AgeInv'
    BY DEF JobInv, AgeInv, Younger, BinMoves
  <2>2. MaxDeaths <= 1 => RunInv' /\ Bin!JobsStart'
    BY DEF JobInv, RunInv, InTime, Bin!JobsStart, BinMoves
  <2>. QED BY <2>1, <2>2 DEF JobInv
<1>. QED BY <1>1, <1>2, <1>3, <1>4, <1>5, <1>6

LEMMA RestSteps ==
  ASSUME BinInv, NEW c \in Cmd, Bin!Run(c) \/ Bin!Exit(c) \/ Bin!Pruned(c) \/ Bin!Die(c)
  PROVE  BinInv'
<1>. USE DEF BinInv
<1>1. CASE Bin!Run(c)
  <2>. DEFINE x == [Bin!Idle EXCEPT !.at = "run", !.me = binLink.build, !.plain = binLink.plain]
              z(b) == [Bin!Idle EXCEPT !.at = "run", !.me = b]
              Runs(y) == /\ y \in BinRec /\ y.at = "run" /\ y.me \in Bin!Build /\ y.frozen = FALSE
                         /\ binLink.plain => y.me = 1
                         /\ y.plain \/ y.me \in binFiles
  <2>1. Runs(x)
    BY BinConsts, BinTyped DEF BinRec, Bin!Idle, PlainInv, Bin!LinkRuns
  <2>2. ASSUME NEW b \in binJobs \cap binFiles PROVE Runs(z(b))
    BY BinConsts DEF BinRec, Bin!Idle, PlainInv, Bin!TypeOK
  <2>3. PICK y : Runs(y) /\ binCmd' = [binCmd EXCEPT ![c] = y]
    BY <1>1, <2>1, <2>2 DEF Bin!Run
  <2>4. binCmd' \in [Cmd -> BinRec] /\ BinMoves(c) /\ binCmd'[c] = y
    BY <2>3, BinOneMoves
  <2>. QED BY <1>1, <2>3, <2>4, RestKeeps DEF Bin!Run, Bin!TypeOK
<1>2. ASSUME binCmd' = [binCmd EXCEPT ![c] = Bin!Idle]
      PROVE  binCmd' \in [Cmd -> BinRec] /\ BinMoves(c) /\ binCmd'[c].at = "idle" /\ binCmd'[c].me = None
  BY <1>2, BinOneMoves, BinConsts
<1>3. CASE Bin!Exit(c) \/ Bin!Pruned(c)
  BY <1>2, <1>3, RestKeeps DEF Bin!Exit, Bin!Pruned, Bin!TypeOK
<1>4. CASE Bin!Die(c)
  <2>1. /\ binCmd' \in [Cmd -> BinRec] /\ BinMoves(c) /\ binCmd'[c].at = "idle" /\ binCmd'[c].me = None
        /\ binDeaths' = binDeaths + 1 /\ binDeaths < MaxDeaths /\ binDeaths \in Nat /\ MaxDeaths \in Nat
        /\ UNCHANGED <<binLink, binFiles, binStamp, binLeft, binJobs>>
    BY <1>2, <1>4, BinConsts DEF Bin!Die, Bin!TypeOK
  <2>2. binCmd[c].at \in {"unstamp", "stamp"} /\ MaxDeaths <= 1 => binStamp[binCmd[c].prev] = None
    BY <2>1 DEF StampInv
  <2>3. binDeaths' \in 0..MaxDeaths /\ binDeaths' # 0
    BY <2>1
  <2>. QED BY <2>1, <2>2, <2>3, RestKeeps
<1>. QED BY <1>1, <1>3, <1>4

LEMMA SubmitKeeps ==
  ASSUME BinInv, NEW c \in Cmd, Bin!Submit(c)
  PROVE  BinInv'
<1>. USE DEF BinInv
<1>. DEFINE y == [binCmd[c] EXCEPT !.frozen = TRUE]
<1>1. /\ binCmd[c].at = "run" /\ binCmd[c].me \in Bin!Build /\ binCmd[c] \in BinRec /\ ~Busy(c)
      /\ UNCHANGED <<binLink, binStamp, binLeft, binDeaths>>
      /\ binJobs' = binJobs \cup {binCmd[c].me}
      /\ binFiles \subseteq binFiles' /\ binFiles' \subseteq binFiles \cup {binCmd[c].me}
      /\ \/ binCmd[c].frozen \/ ~binCmd[c].plain \/ binCmd[c].me \in binFiles'
  BY BinTyped DEF Bin!Submit, Bin!Frozen, StepInv, Busy, BinRec
<1>2. /\ y \in BinRec /\ y.at = "run" /\ y.me = binCmd[c].me /\ y.plain = binCmd[c].plain
  BY <1>1 DEF BinRec
<1>3. binCmd' = [binCmd EXCEPT ![c] = y]
  BY DEF Bin!Submit
<1>. HIDE DEF y
<1>4. binCmd' \in [Cmd -> BinRec] /\ BinMoves(c) /\ binCmd'[c] = y
  BY <1>2, <1>3, BinOneMoves
<1>5. Bin!TypeOK'
  BY <1>1, <1>4 DEF Bin!TypeOK, BinRec
<1>6. OneBusy'
  BY <1>1, <1>2, <1>4 DEF OneBusy, Busy, BinMoves
<1>7. StepInv'
  <2>1. \A d \in Cmd \ {c} : binCmd'[d] = binCmd[d]
    BY <1>4 DEF BinMoves
  <2>. QED BY <1>1, <1>2, <1>4, <2>1 DEF StepInv
<1>8. PlainInv' /\ Bin!LinkRuns'
  BY <1>1, <1>2, <1>4, BinConsts DEF PlainInv, Bin!LinkRuns, BinMoves
<1>9. StampInv'
  BY <1>1, <1>2, <1>4 DEF StampInv, BinMoves
<1>10. MaxDeaths <= 1 => AgeInv'
  BY <1>1, <1>2, <1>4 DEF JobInv, AgeInv, Younger, BinMoves
<1>11. MaxDeaths <= 1 /\ InTime(binCmd[c].me) => binCmd[c].me \in binFiles'
  <2>. SUFFICES ASSUME MaxDeaths <= 1, InTime(binCmd[c].me), binCmd[c].me \notin binFiles'
                PROVE  FALSE
    OBVIOUS
  <2>1. binCmd[c].frozen /\ binCmd[c].plain
    BY <1>1 DEF JobInv, RunInv
  <2>. QED BY <1>1, <2>1 DEF JobInv, RunInv, InTime, Bin!JobsStart
<1>12. MaxDeaths <= 1 => RunInv' /\ Bin!JobsStart'
  BY <1>1, <1>2, <1>4, <1>11 DEF JobInv, RunInv, InTime, Bin!JobsStart, BinMoves
<1>. QED BY <1>5, <1>6, <1>7, <1>8, <1>9, <1>10, <1>12 DEF JobInv

(* A process that begins or goes on with an update, prune or installation. *)
LEMMA OneBusyStays ==
  ASSUME BinInv, NEW c \in Cmd, BinMoves(c), Busy(c) \/ \A d \in Cmd : ~Busy(d)
  PROVE  /\ OneBusy'
         /\ \A d \in Cmd \ {c} : binCmd'[d] = binCmd[d] /\ binCmd[d].at \in {"idle", "run"}
BY DEF BinInv, OneBusy, Busy, BinMoves

LEMMA AllFree ==
  ASSUME BinInv, ~Bin!Locked, ~Bin!Installing
  PROVE  \A d \in Cmd : ~Busy(d)
BY BinTyped, BinConsts DEF BinInv, Bin!Locked, Bin!Installing, Bin!Updating, Bin!Pruning, Busy,
   BinRec

LEMMA ApplyKeeps ==
  ASSUME BinInv, NEW c \in Cmd, NEW b \in Bin!Build, Bin!Apply(c, b)
  PROVE  BinInv'
<1>. USE DEF BinInv
<1>0. /\ binCmd[c].at = "run" /\ binCmd[c].me \in Bin!Build /\ b > binCmd[c].me /\ binCmd[c] \in BinRec
      /\ \A d \in Cmd : ~Busy(d)
      /\ UNCHANGED <<binLink, binFiles, binStamp, binLeft, binJobs, binDeaths>>
  BY AllFree, BinTyped DEF Bin!Apply, StepInv
<1>1. CASE Bin!Current(b)
  <2>. DEFINE y == [Bin!Idle EXCEPT !.at = "run", !.me = b]
  <2>1. y \in BinRec /\ y.at = "run" /\ y.me = b /\ y.plain = FALSE /\ y.frozen = FALSE
    BY BinConsts DEF BinRec, Bin!Idle
  <2>2. binCmd' = [binCmd EXCEPT ![c] = y]
    BY <1>1 DEF Bin!Apply, Bin!GoOn
  <2>. HIDE DEF y
  <2>3. binCmd' \in [Cmd -> BinRec] /\ BinMoves(c) /\ binCmd'[c] = y
    BY <2>1, <2>2, BinOneMoves
  <2>4. ~binLink.plain /\ b \in binFiles
    BY <1>1 DEF Bin!Current
  <2>. QED BY <1>0, <2>1, <2>3, <2>4, RestKeeps DEF Bin!TypeOK
<1>2. CASE ~Bin!Current(b)
  <2>. DEFINE y == [binCmd[c] EXCEPT !.at = "persist", !.new = b, !.prev = Bin!Previous(c)]
  <2>0. Bin!Previous(c) = binLink.build /\ binLink.build \in Bin!Build
    BY <1>0, BinConsts, BinTyped DEF Bin!Previous, PlainInv
  <2>1. /\ y \in BinRec /\ y.at = "persist" /\ y.me = binCmd[c].me /\ y.new = b
        /\ y.prev = binLink.build
    BY <1>0, <2>0 DEF BinRec
  <2>2. binCmd' = [binCmd EXCEPT ![c] = y]
    BY <1>2 DEF Bin!Apply
  <2>. HIDE DEF y
  <2>3. binCmd' \in [Cmd -> BinRec] /\ BinMoves(c) /\ binCmd'[c] = y
    BY <2>1, <2>2, BinOneMoves
  <2>4. OneBusy' /\ \A d \in Cmd \ {c} : binCmd'[d] = binCmd[d] /\ binCmd[d].at \in {"idle", "run"}
    BY <1>0, <2>3, OneBusyStays
  <2>5. Bin!TypeOK'
    BY <1>0, <2>3 DEF Bin!TypeOK, BinRec
  <2>6. StepInv'
    BY <1>0, <2>1, <2>3, <2>4 DEF StepInv
  <2>7. PlainInv' /\ Bin!LinkRuns'
    BY <1>0, <2>1, <2>3, <2>4 DEF PlainInv, Bin!LinkRuns
  <2>8. StampInv' /\ JobInv'
    BY <1>0, <2>1, <2>3, <2>4 DEF StampInv, JobInv, AgeInv, Younger, RunInv, InTime, Bin!JobsStart, Busy
  <2>. QED BY <2>4, <2>5, <2>6, <2>7, <2>8
<1>. QED BY <1>1, <1>2

LEMMA PersistKeeps ==
  ASSUME BinInv, NEW c \in Cmd, Bin!Persist(c)
  PROVE  BinInv'
<1>. USE DEF BinInv
<1>. DEFINE y == [binCmd[c] EXCEPT !.at = "swap"]
<1>0. /\ binCmd[c].at = "persist" /\ binCmd[c].me \in Bin!Build /\ binCmd[c] \in BinRec /\ Busy(c)
      /\ binCmd[c].new \in Bin!Build /\ binCmd[c].prev = binLink.build
      /\ UNCHANGED <<binLink, binStamp, binLeft, binJobs, binDeaths>> /\ binFiles' = binFiles \cup {binCmd[c].new}
  BY BinTyped DEF Bin!Persist, StepInv, Busy
<1>1. /\ y \in BinRec /\ y.at = "swap" /\ y.me = binCmd[c].me /\ y.new = binCmd[c].new
      /\ y.prev = binCmd[c].prev
  BY <1>0 DEF BinRec
<1>2. binCmd' = [binCmd EXCEPT ![c] = y]
  BY DEF Bin!Persist
<1>. HIDE DEF y
<1>3. binCmd' \in [Cmd -> BinRec] /\ BinMoves(c) /\ binCmd'[c] = y
  BY <1>1, <1>2, BinOneMoves
<1>4. OneBusy' /\ \A d \in Cmd \ {c} : binCmd'[d] = binCmd[d] /\ binCmd[d].at \in {"idle", "run"}
  BY <1>0, <1>3, OneBusyStays
<1>5. Bin!TypeOK'
  BY <1>0, <1>3 DEF Bin!TypeOK, BinRec
<1>6. StepInv'
  BY <1>0, <1>1, <1>3, <1>4 DEF StepInv
<1>7. PlainInv' /\ Bin!LinkRuns'
  BY <1>0, <1>1, <1>3, <1>4 DEF PlainInv, Bin!LinkRuns
<1>8. StampInv' /\ JobInv'
  BY <1>0, <1>1, <1>3, <1>4 DEF StampInv, JobInv, AgeInv, Younger, RunInv, InTime, Bin!JobsStart
<1>. QED BY <1>4, <1>5, <1>6, <1>7, <1>8

(* The link leaves one build for another, whose file is there.             *)
LEMMA MovedEff ==
  ASSUME BinInv, NEW b \in Bin!Build, b \in binFiles, binLeft' = Bin!Moved(b),
         UNCHANGED <<binFiles, binJobs>>
  PROVE  /\ binLeft' \in [Bin!Build -> Bin!Ages] /\ binLeft'[b] = None
         /\ \A d \in Bin!Build \ {b, binLink.build} : binLeft'[d] = binLeft[d]
         /\ b # binLink.build => binLeft'[binLink.build] = 0
         /\ MaxDeaths <= 1 => Bin!JobsStart'
         /\ \A d \in Bin!Build : InTime(d)' => InTime(d) \/ d \in binFiles
<1>. USE DEF BinInv
<1>1. /\ binLeft' \in [Bin!Build -> Bin!Ages] /\ binLeft'[b] = None
      /\ \A d \in Bin!Build \ {b, binLink.build} : binLeft'[d] = binLeft[d]
      /\ b # binLink.build => binLeft'[binLink.build] = 0
  BY BinTyped, BinConsts DEF Bin!Moved, Bin!TypeOK, Bin!Ages
<1>2. \A d \in Bin!Build : InTime(d)' => InTime(d) \/ d \in binFiles
  <2>. SUFFICES ASSUME NEW d \in Bin!Build, InTime(d)', d \notin binFiles, ~InTime(d)
                PROVE  FALSE
    OBVIOUS
  <2>1. d = binLink.build
    BY <1>1 DEF InTime
  <2>2. binLink.plain
    BY <2>1 DEF Bin!LinkRuns
  <2>. QED BY <2>2 DEF PlainInv, InTime
<1>3. MaxDeaths <= 1 => Bin!JobsStart'
  BY <1>2 DEF JobInv, Bin!JobsStart, InTime, Bin!TypeOK
<1>. QED BY <1>1, <1>2, <1>3

LEMMA SwapKeeps ==
  ASSUME BinInv, NEW c \in Cmd, Bin!Swap(c)
  PROVE  BinInv'
<1>. USE DEF BinInv
<1>. DEFINE y == [binCmd[c] EXCEPT !.at = "unstamp"]
<1>0. /\ binCmd[c].at = "swap" /\ binCmd[c].me \in Bin!Build /\ binCmd[c] \in BinRec /\ Busy(c)
      /\ binCmd[c].new \in Bin!Build /\ binCmd[c].new \in binFiles /\ binCmd[c].prev = binLink.build
      /\ UNCHANGED <<binFiles, binStamp, binJobs, binDeaths>>
      /\ binLink' = [build |-> binCmd[c].new, plain |-> FALSE] /\ binLink.build \in Bin!Build
      /\ binLeft' = Bin!Moved(binCmd[c].new)
  BY BinTyped DEF Bin!Swap, StepInv, Busy
<1>1. /\ y \in BinRec /\ y.at = "unstamp" /\ y.me = binCmd[c].me /\ y.new = binCmd[c].new
      /\ y.prev = binCmd[c].prev
  BY <1>0 DEF BinRec
<1>2. binCmd' = [binCmd EXCEPT ![c] = y]
  BY DEF Bin!Swap
<1>. HIDE DEF y
<1>3. binCmd' \in [Cmd -> BinRec] /\ BinMoves(c) /\ binCmd'[c] = y
  BY <1>1, <1>2, BinOneMoves
<1>4. OneBusy' /\ \A d \in Cmd \ {c} : binCmd'[d] = binCmd[d] /\ binCmd[d].at \in {"idle", "run"}
  BY <1>0, <1>3, OneBusyStays
<1>m. /\ binLeft' \in [Bin!Build -> Bin!Ages] /\ binLeft'[binCmd[c].new] = None
      /\ \A d \in Bin!Build \ {binCmd[c].new, binCmd[c].prev} : binLeft'[d] = binLeft[d]
      /\ binCmd[c].new # binCmd[c].prev => binLeft'[binCmd[c].prev] = 0
      /\ MaxDeaths <= 1 => Bin!JobsStart'
      /\ \A d \in Bin!Build : InTime(d)' => InTime(d) \/ d \in binFiles
  BY <1>0, <1>1, <1>3, <1>4, MovedEff
<1>5. Bin!TypeOK'
  BY <1>0, <1>3, <1>m DEF Bin!TypeOK, BinRec
<1>6. StepInv'
  <2>1. /\ binCmd'[c].at = "unstamp" /\ binCmd'[c].me \in Bin!Build
        /\ binCmd'[c].prev \in Bin!Build /\ binLink' = [build |-> binCmd'[c].new, plain |-> FALSE]
        /\ binCmd'[c].prev # binCmd'[c].new => binLeft'[binCmd'[c].prev] # None
    <3>1. /\ binCmd'[c].at = "unstamp" /\ binCmd'[c].me = binCmd[c].me
          /\ binCmd'[c].prev = binCmd[c].prev /\ binCmd'[c].new = binCmd[c].new
      BY <1>1, <1>3
    <3>2. 0 # None
      BY BinConsts
    <3>. QED BY <1>0, <1>m, <3>1, <3>2
  <2>. QED BY <1>4, <2>1 DEF StepInv
<1>7. PlainInv' /\ Bin!LinkRuns'
  BY <1>0 DEF PlainInv, Bin!LinkRuns
<1>8. StampInv'
  <2>1. binStamp[binLink.build] # None => binDeaths # 0
    BY <1>0, <1>4 DEF StampInv
  <2>. QED BY <1>0, <1>1, <1>3, <1>4, <2>1 DEF StampInv
<1>9. MaxDeaths <= 1 => AgeInv' /\ RunInv' /\ Bin!JobsStart'
  <2>1. MaxDeaths <= 1 => AgeInv'
    BY <1>0, <1>1, <1>3, <1>4, <1>m DEF JobInv, AgeInv, Younger
  <2>2. MaxDeaths <= 1 => RunInv'
    BY <1>0, <1>1, <1>3, <1>4, <1>m DEF JobInv, RunInv, StepInv
  <2>. QED BY <1>m, <2>1, <2>2
<1>. QED BY <1>4, <1>5, <1>6, <1>7, <1>8, <1>9 DEF JobInv

LEMMA UnstampKeeps ==
  ASSUME BinInv, NEW c \in Cmd, Bin!Unstamp(c)
  PROVE  BinInv'
<1>. USE DEF BinInv
<1>. DEFINE y == [binCmd[c] EXCEPT !.at = "stamp"]
<1>0. /\ binCmd[c].at = "unstamp" /\ binCmd[c].me \in Bin!Build /\ binCmd[c] \in BinRec /\ Busy(c)
      /\ binCmd[c].prev \in Bin!Build
      /\ UNCHANGED <<binLink, binFiles, binLeft, binJobs, binDeaths>> /\ binStamp' = [binStamp EXCEPT ![binCmd[c].new] = None]
      /\ binLink = [build |-> binCmd[c].new, plain |-> FALSE] /\ binLink.build \in Bin!Build
      /\ binLink.build = binCmd[c].new /\ ~binLink.plain
  BY BinTyped DEF Bin!Unstamp, StepInv, Busy
<1>1. /\ y \in BinRec /\ y.at = "stamp" /\ y.me = binCmd[c].me /\ y.new = binCmd[c].new
      /\ y.prev = binCmd[c].prev
  BY <1>0 DEF BinRec
<1>2. binCmd' = [binCmd EXCEPT ![c] = y]
  BY DEF Bin!Unstamp
<1>. HIDE DEF y
<1>3. binCmd' \in [Cmd -> BinRec] /\ BinMoves(c) /\ binCmd'[c] = y
  BY <1>1, <1>2, BinOneMoves
<1>4. OneBusy' /\ \A d \in Cmd \ {c} : binCmd'[d] = binCmd[d] /\ binCmd[d].at \in {"idle", "run"}
  BY <1>0, <1>3, OneBusyStays
<1>t. /\ binStamp' \in [Bin!Build -> Bin!Ages] /\ binStamp'[binLink.build] = None
      /\ \A b \in Bin!Build : binStamp'[b] \in {binStamp[b], None}
  BY <1>0 DEF Bin!TypeOK, Bin!Ages
<1>5. Bin!TypeOK'
  BY <1>0, <1>3, <1>t DEF Bin!TypeOK, BinRec
<1>6. StepInv'
  BY <1>0, <1>1, <1>3, <1>4 DEF StepInv
<1>7. PlainInv' /\ Bin!LinkRuns'
  BY <1>0 DEF PlainInv, Bin!LinkRuns
<1>8. StampInv'
  BY <1>0, <1>1, <1>3, <1>4, <1>t DEF StampInv
<1>9. MaxDeaths <= 1 => AgeInv' /\ RunInv' /\ Bin!JobsStart'
  BY <1>0, <1>1, <1>3, <1>4, <1>t DEF JobInv, AgeInv, Younger, RunInv, InTime, Bin!JobsStart
<1>. QED BY <1>4, <1>5, <1>6, <1>7, <1>8, <1>9 DEF JobInv

LEMMA StampPreviousKeeps ==
  ASSUME BinInv, NEW c \in Cmd, Bin!StampPrevious(c)
  PROVE  BinInv'
<1>. USE DEF BinInv
<1>. DEFINE y == [Bin!Idle EXCEPT !.at = "run", !.me = binCmd[c].new]
<1>0. /\ binCmd[c].at = "stamp" /\ binCmd[c] \in BinRec /\ Busy(c) /\ binCmd[c].prev \in Bin!Build
      /\ UNCHANGED <<binLink, binFiles, binLeft, binJobs, binDeaths>>
      /\ binStamp' = IF binCmd[c].prev = binCmd[c].new THEN binStamp ELSE [binStamp EXCEPT ![binCmd[c].prev] = 0]
      /\ binLink.build = binCmd[c].new /\ ~binLink.plain /\ binLink.build \in Bin!Build
  BY BinTyped DEF Bin!StampPrevious, StepInv, Busy
<1>1. y \in BinRec /\ y.at = "run" /\ y.me = binCmd[c].new /\ y.plain = FALSE /\ y.frozen = FALSE
  BY <1>0, BinConsts DEF BinRec, Bin!Idle
<1>2. binCmd' = [binCmd EXCEPT ![c] = y]
  BY DEF Bin!StampPrevious, Bin!GoOn
<1>. HIDE DEF y
<1>3. binCmd' \in [Cmd -> BinRec] /\ BinMoves(c) /\ binCmd'[c] = y
  BY <1>1, <1>2, BinOneMoves
<1>4. OneBusy' /\ \A d \in Cmd \ {c} : binCmd'[d] = binCmd[d] /\ binCmd[d].at \in {"idle", "run"}
  BY <1>0, <1>3, OneBusyStays
<1>t. /\ binStamp' \in [Bin!Build -> Bin!Ages] /\ binStamp'[binLink.build] = binStamp[binLink.build]
      /\ \A b \in Bin!Build \ {binCmd[c].prev} : binStamp'[b] = binStamp[b]
      /\ binCmd[c].prev # binLink.build => binStamp'[binCmd[c].prev] = 0
  BY <1>0, BinConsts DEF Bin!TypeOK, Bin!Ages
<1>5. Bin!TypeOK'
  BY <1>0, <1>3, <1>t DEF Bin!TypeOK, BinRec
<1>6. StepInv'
  BY <1>0, <1>1, <1>3, <1>4 DEF StepInv
<1>7. PlainInv' /\ Bin!LinkRuns'
  BY <1>0 DEF PlainInv, Bin!LinkRuns
<1>8. StampInv'
  BY <1>0, <1>1, <1>3, <1>4, <1>t DEF StampInv
<1>9. MaxDeaths <= 1 => AgeInv' /\ RunInv' /\ Bin!JobsStart'
  <2>1. \A b \in Bin!Build : binLeft[b] # None => binLeft[b] \in Nat
    BY DEF Bin!TypeOK, Bin!Ages
  <2>2. MaxDeaths <= 1 => AgeInv'
    <3>. SUFFICES ASSUME MaxDeaths <= 1, NEW b \in Bin!Build, Younger(b)' PROVE b = binLink.build
      BY <1>0 DEF AgeInv
    <3>1. b # binCmd[c].prev \/ b = binLink.build
      BY <1>0, <1>t, <2>1 DEF Younger, StepInv
    <3>2. CASE b # binCmd[c].prev
      <4>1. Younger(b)
        BY <1>0, <1>t, <3>2 DEF Younger
      <4>. QED BY <1>4, <3>2, <4>1 DEF JobInv, AgeInv
    <3>. QED BY <3>1, <3>2
  <2>3. MaxDeaths <= 1 => RunInv'
    BY <1>0, <1>1, <1>3, <1>4 DEF JobInv, RunInv, InTime, Bin!LinkRuns
  <2>. QED BY <1>0, <2>2, <2>3 DEF JobInv, Bin!JobsStart
<1>. QED BY <1>4, <1>5, <1>6, <1>7, <1>8, <1>9 DEF JobInv

(* A prune's steps change neither the link nor a job's age. *)
LEMMA PruneSteps ==
  ASSUME BinInv, NEW c \in Cmd, binCmd' \in [Cmd -> BinRec], BinMoves(c),
         Busy(c) \/ \A d \in Cmd : ~Busy(d),
         binCmd[c].at \in {"run", "prune", "drop"}, binCmd'[c].at \in {"prune", "drop"},
         binCmd'[c].me = binCmd[c].me, binCmd[c].me \in Bin!Build,
         IF binLink.plain THEN binCmd'[c].todo = {} ELSE binCmd'[c].prev = binLink.build,
         binCmd'[c].at = "drop" => binCmd'[c].new \in Bin!Build,
         UNCHANGED <<binLink, binLeft, binJobs, binDeaths>>,
         binFiles' \in SUBSET binFiles, binLink.plain \/ binLink.build \in binFiles',
         \A b \in binFiles \ binFiles' : b # binLink.build /\ binStamp[b] # None /\ binStamp[b] >= Keep,
         binStamp' \in [Bin!Build -> Bin!Ages], \A b \in Bin!Build : binStamp'[b] \in {binStamp[b], None}
  PROVE  BinInv'
<1>. USE DEF BinInv
<1>4. OneBusy' /\ \A d \in Cmd \ {c} : binCmd'[d] = binCmd[d] /\ binCmd[d].at \in {"idle", "run"}
  BY OneBusyStays
<1>5. Bin!TypeOK'
  BY DEF Bin!TypeOK, BinRec
<1>6. StepInv'
  BY <1>4 DEF StepInv
<1>7. PlainInv'
  BY <1>4 DEF PlainInv
<1>8. Bin!LinkRuns'
  BY DEF Bin!LinkRuns
<1>9. StampInv'
  BY <1>4, BinTyped DEF StampInv
<1>10. MaxDeaths <= 1 => AgeInv'
  BY <1>4 DEF JobInv, AgeInv, Younger
<1>11. MaxDeaths <= 1 => \A b \in binFiles \ binFiles' : ~InTime(b)
  <2>. SUFFICES ASSUME MaxDeaths <= 1, NEW b \in binFiles \ binFiles', InTime(b) PROVE FALSE
    OBVIOUS
  <2>1. b \in Bin!Build /\ (binLeft[b] = None \/ binLeft[b] \in Nat) /\ binStamp[b] \in Nat /\ Keep \in Nat
    BY BinConsts DEF Bin!TypeOK, Bin!Ages
  <2>2. Younger(b)
    BY <2>1 DEF Younger, InTime
  <2>. QED BY <1>4, <2>1, <2>2 DEF JobInv, AgeInv
<1>12. MaxDeaths <= 1 => Bin!JobsStart'
  BY <1>11 DEF JobInv, Bin!JobsStart, InTime
<1>13. MaxDeaths <= 1 => RunInv'
  BY <1>4, <1>11 DEF JobInv, RunInv, InTime
<1>. QED BY <1>4, <1>5, <1>6, <1>7, <1>8, <1>9, <1>10, <1>12, <1>13 DEF JobInv

LEMMA PruneKeeps ==
  ASSUME BinInv, NEW c \in Cmd, Bin!Prune(c)
  PROVE  BinInv'
<1>. USE DEF BinInv
<1>. DEFINE y == [binCmd[c] EXCEPT !.at = "prune",
                                   !.prev = IF binLink.plain THEN None ELSE binLink.build,
                                   !.todo = {b \in Bin!Build : binStamp[b] # None}]
<1>0. /\ binCmd[c].at = "run" /\ binCmd[c].me \in Bin!Build /\ binCmd[c] \in BinRec
      /\ \A d \in Cmd : ~Busy(d)
      /\ UNCHANGED <<binLink, binFiles, binStamp, binLeft, binJobs, binDeaths>> /\ binLink.build \in Bin!Build
  BY AllFree, BinTyped DEF Bin!Prune, StepInv
<1>1. /\ y \in BinRec /\ y.at = "prune" /\ y.me = binCmd[c].me
      /\ y.todo = {b \in Bin!Build : binStamp[b] # None}
      /\ y.prev = IF binLink.plain THEN None ELSE binLink.build
  BY <1>0 DEF BinRec
<1>2. binCmd' = [binCmd EXCEPT ![c] = y]
  BY DEF Bin!Prune
<1>. HIDE DEF y
<1>3. binCmd' \in [Cmd -> BinRec] /\ BinMoves(c) /\ binCmd'[c] = y
  BY <1>1, <1>2, BinOneMoves
<1>4. IF binLink.plain THEN y.todo = {} ELSE y.prev = binLink.build
  BY <1>1 DEF PlainInv
<1>5. /\ binStamp' \in [Bin!Build -> Bin!Ages] /\ \A b \in Bin!Build : binStamp'[b] \in {binStamp[b], None}
      /\ binLink.plain \/ binLink.build \in binFiles
  BY <1>0 DEF Bin!TypeOK, Bin!LinkRuns
<1>. QED BY <1>0, <1>1, <1>3, <1>4, <1>5, PruneSteps

LEMMA PruneOneKeeps ==
  ASSUME BinInv, NEW c \in Cmd, Bin!PruneOne(c)
  PROVE  BinInv'
<1>. USE DEF BinInv
<1>0. /\ binCmd[c].at = "prune" /\ binCmd[c].me \in Bin!Build /\ binCmd[c] \in BinRec /\ Busy(c)
      /\ IF binLink.plain THEN binCmd[c].todo = {} ELSE binCmd[c].prev = binLink.build
      /\ UNCHANGED <<binLink, binStamp, binLeft, binJobs, binDeaths>> /\ binLink.build \in Bin!Build
      /\ binStamp' \in [Bin!Build -> Bin!Ages] /\ \A b \in Bin!Build : binStamp'[b] \in {binStamp[b], None}
      /\ binLink.plain \/ binLink.build \in binFiles
  BY BinTyped DEF Bin!PruneOne, StepInv, Busy, Bin!LinkRuns, Bin!TypeOK
<1>1. PICK b \in binCmd[c].todo :
       IF Bin!Spared(c, b)
       THEN /\ binCmd' = [binCmd EXCEPT ![c].todo = @ \ {b}]
            /\ UNCHANGED binFiles
       ELSE /\ binFiles' = binFiles \ {b}
            /\ binCmd' = [binCmd EXCEPT ![c].at = "drop", ![c].new = b, ![c].todo = @ \ {b}]
  BY DEF Bin!PruneOne
<1>2. b \in Bin!Build /\ ~binLink.plain /\ binCmd[c].prev = binLink.build
  BY <1>0 DEF BinRec
<1>3. CASE Bin!Spared(c, b)
  <2>. DEFINE y == [binCmd[c] EXCEPT !.todo = @ \ {b}]
  <2>1. /\ y \in BinRec /\ y.at = "prune" /\ y.me = binCmd[c].me /\ y.prev = binCmd[c].prev
    BY <1>0 DEF BinRec
  <2>2. binCmd' = [binCmd EXCEPT ![c] = y] /\ UNCHANGED binFiles
    BY <1>1, <1>3
  <2>. HIDE DEF y
  <2>3. binCmd' \in [Cmd -> BinRec] /\ BinMoves(c) /\ binCmd'[c] = y
    BY <2>1, <2>2, BinOneMoves
  <2>. QED BY <1>0, <1>2, <2>1, <2>2, <2>3, PruneSteps
<1>4. CASE ~Bin!Spared(c, b)
  <2>. DEFINE y == [binCmd[c] EXCEPT !.at = "drop", !.new = b, !.todo = @ \ {b}]
  <2>1. /\ y \in BinRec /\ y.at = "drop" /\ y.me = binCmd[c].me /\ y.prev = binCmd[c].prev /\ y.new = b
    BY <1>0, <1>2 DEF BinRec
  <2>2. binCmd' = [binCmd EXCEPT ![c] = y] /\ binFiles' = binFiles \ {b}
    BY <1>1, <1>4
  <2>. HIDE DEF y
  <2>3. binCmd' \in [Cmd -> BinRec] /\ BinMoves(c) /\ binCmd'[c] = y
    BY <2>1, <2>2, BinOneMoves
  <2>4. b # binLink.build /\ binStamp[b] # None /\ binStamp[b] >= Keep
    <3>1. b # binLink.build /\ binStamp[b] # None /\ ~(binStamp[b] < Keep)
      BY <1>2, <1>4 DEF Bin!Spared
    <3>2. binStamp[b] \in Nat /\ Keep \in Nat
      BY <1>2, <3>1, BinConsts DEF Bin!TypeOK, Bin!Ages
    <3>. QED BY <3>1, <3>2
  <2>. QED BY <1>0, <1>2, <2>1, <2>2, <2>3, <2>4, PruneSteps
<1>. QED BY <1>3, <1>4

LEMMA DropStampKeeps ==
  ASSUME BinInv, NEW c \in Cmd, Bin!DropStamp(c)
  PROVE  BinInv'
<1>. USE DEF BinInv
<1>. DEFINE y == [binCmd[c] EXCEPT !.at = "prune", !.new = None]
<1>0. /\ binCmd[c].at = "drop" /\ binCmd[c].me \in Bin!Build /\ binCmd[c] \in BinRec /\ Busy(c)
      /\ IF binLink.plain THEN binCmd[c].todo = {} ELSE binCmd[c].prev = binLink.build
      /\ UNCHANGED <<binLink, binFiles, binLeft, binJobs, binDeaths>> /\ binLink.build \in Bin!Build
      /\ binStamp' = [binStamp EXCEPT ![binCmd[c].new] = None]
      /\ binLink.plain \/ binLink.build \in binFiles
  BY BinTyped DEF Bin!DropStamp, StepInv, Busy, Bin!LinkRuns
<1>1. /\ y \in BinRec /\ y.at = "prune" /\ y.me = binCmd[c].me /\ y.prev = binCmd[c].prev
      /\ y.todo = binCmd[c].todo
  BY <1>0 DEF BinRec
<1>2. binCmd' = [binCmd EXCEPT ![c] = y]
  <2>1. binCmd' = [binCmd EXCEPT ![c].at = "prune", ![c].new = None]
    BY DEF Bin!DropStamp
  <2>. QED BY <2>1, BinTyped DEF Bin!TypeOK
<1>. HIDE DEF y
<1>3. binCmd' \in [Cmd -> BinRec] /\ BinMoves(c) /\ binCmd'[c] = y
  BY <1>1, <1>2, BinOneMoves
<1>4. binStamp' \in [Bin!Build -> Bin!Ages] /\ \A b \in Bin!Build : binStamp'[b] \in {binStamp[b], None}
  BY <1>0 DEF Bin!TypeOK, Bin!Ages
<1>. QED BY <1>0, <1>1, <1>3, <1>4, PruneSteps

LEMMA ReinstallKeeps ==
  ASSUME BinInv, NEW c \in Cmd, NEW b \in Bin!Build, Bin!Reinstall(c, b)
  PROVE  BinInv'
<1>. USE DEF BinInv
<1>. DEFINE y == [Bin!Idle EXCEPT !.at = "ln", !.new = b]
<1>0. /\ binStamp[b] = None /\ binStamp[binLink.build] = None /\ binFiles' = binFiles \cup {b}
      /\ \A d \in Cmd : ~Busy(d)
      /\ UNCHANGED <<binLink, binStamp, binLeft, binJobs, binDeaths>>
  BY AllFree, BinConsts DEF Bin!Reinstall
<1>1. y \in BinRec /\ y.at = "ln" /\ y.new = b /\ y.me = None
  BY BinConsts DEF BinRec, Bin!Idle
<1>2. binCmd' = [binCmd EXCEPT ![c] = y]
  BY DEF Bin!Reinstall
<1>. HIDE DEF y
<1>3. binCmd' \in [Cmd -> BinRec] /\ BinMoves(c) /\ binCmd'[c] = y
  BY <1>1, <1>2, BinOneMoves
<1>4. OneBusy' /\ \A d \in Cmd \ {c} : binCmd'[d] = binCmd[d] /\ binCmd[d].at \in {"idle", "run"}
  BY <1>0, <1>3, OneBusyStays
<1>5. Bin!TypeOK'
  BY <1>0, <1>3 DEF Bin!TypeOK, BinRec
<1>6. StepInv'
  BY <1>0, <1>1, <1>3, <1>4 DEF StepInv
<1>7. PlainInv' /\ Bin!LinkRuns'
  BY <1>0, <1>1, <1>3, <1>4 DEF PlainInv, Bin!LinkRuns
<1>8. StampInv' /\ JobInv'
  BY <1>0, <1>1, <1>3, <1>4 DEF StampInv, JobInv, AgeInv, Younger, RunInv, InTime, Bin!JobsStart, Busy
<1>. QED BY <1>4, <1>5, <1>6, <1>7, <1>8

LEMMA RelinkKeeps ==
  ASSUME BinInv, NEW c \in Cmd, Bin!Relink(c)
  PROVE  BinInv'
<1>. USE DEF BinInv
<1>0. /\ binCmd[c].at = "ln" /\ Busy(c) /\ binCmd[c].new \in binFiles /\ binFiles \subseteq Bin!Build
      /\ binStamp[binCmd[c].new] = None /\ binStamp[binLink.build] = None
      /\ UNCHANGED <<binFiles, binStamp, binJobs, binDeaths>>
      /\ binLink' = [build |-> binCmd[c].new, plain |-> FALSE]
      /\ binLeft' = Bin!Moved(binCmd[c].new) /\ binCmd[c].new \in Bin!Build
      /\ binLink.build \in Bin!Build
  BY DEF Bin!Relink, StepInv, Busy, Bin!TypeOK
<1>3. binCmd' \in [Cmd -> BinRec] /\ BinMoves(c) /\ binCmd'[c].at = "idle" /\ binCmd'[c].me = None
  BY BinOneMoves, BinConsts DEF Bin!Relink
<1>4. OneBusy' /\ \A d \in Cmd \ {c} : binCmd'[d] = binCmd[d] /\ binCmd[d].at \in {"idle", "run"}
  BY <1>0, <1>3, OneBusyStays
<1>m. /\ binLeft' \in [Bin!Build -> Bin!Ages] /\ binLeft'[binCmd[c].new] = None
      /\ \A d \in Bin!Build \ {binCmd[c].new, binLink.build} : binLeft'[d] = binLeft[d]
      /\ MaxDeaths <= 1 => Bin!JobsStart'
      /\ \A d \in Bin!Build : InTime(d)' => InTime(d) \/ d \in binFiles
  BY <1>0, <1>3, <1>4, MovedEff
<1>5. Bin!TypeOK'
  BY <1>0, <1>3, <1>m DEF Bin!TypeOK, BinRec
<1>6. StepInv'
  BY <1>0, <1>3, <1>4 DEF StepInv
<1>7. PlainInv' /\ Bin!LinkRuns'
  BY <1>0 DEF PlainInv, Bin!LinkRuns
<1>8. StampInv'
  BY <1>0, <1>3, <1>4 DEF StampInv
<1>9. MaxDeaths <= 1 => AgeInv' /\ RunInv' /\ Bin!JobsStart'
  <2>1. MaxDeaths <= 1 => AgeInv'
    BY <1>0, <1>4, <1>m DEF JobInv, AgeInv, Younger
  <2>2. MaxDeaths <= 1 => RunInv'
    BY <1>0, <1>3, <1>4, <1>m DEF JobInv, RunInv, StepInv
  <2>. QED BY <1>m, <2>1, <2>2
<1>. QED BY <1>4, <1>5, <1>6, <1>7, <1>8, <1>9 DEF JobInv

LEMMA Ageing ==
  ASSUME NEW x \in Bin!Ages, NEW y \in Bin!Ages
  PROVE  /\ Bin!Older(x) \in Bin!Ages /\ (Bin!Older(x) = None <=> x = None)
         /\ x # None /\ Bin!Older(x) < Keep => x < Keep
         /\ x # None /\ y # None /\ Bin!Older(x) < Bin!Older(y) => x < y
BY BinConsts DEF Bin!Older, Bin!Ages

LEMMA TickKeeps ==
  ASSUME BinInv, Bin!Tick
  PROVE  BinInv'
<1>. USE DEF BinInv
<1>1. /\ UNCHANGED <<binLink, binFiles, binJobs, binCmd, binDeaths>>
      /\ \A b \in Bin!Build : /\ binStamp[b] \in Bin!Ages /\ binStamp'[b] = Bin!Older(binStamp[b])
                              /\ binLeft[b] \in Bin!Ages /\ binLeft'[b] = Bin!Older(binLeft[b])
      /\ binStamp' \in [Bin!Build -> Bin!Ages] /\ binLeft' \in [Bin!Build -> Bin!Ages]
  BY Ageing DEF Bin!Tick, Bin!TypeOK
<1>2. \A b \in Bin!Build : /\ binStamp'[b] = None <=> binStamp[b] = None
                           /\ binLeft'[b] = None <=> binLeft[b] = None
                           /\ InTime(b)' => InTime(b)
                           /\ Younger(b)' => Younger(b)
  BY <1>1, Ageing DEF Younger, InTime
<1>3. Bin!TypeOK'
  BY <1>1 DEF Bin!TypeOK
<1>4. OneBusy' /\ Bin!LinkRuns'
  BY <1>1 DEF OneBusy, Busy, Bin!LinkRuns
<1>5. StepInv'
  BY <1>1, <1>2, BinTyped DEF StepInv, Bin!TypeOK
<1>6. PlainInv'
  BY <1>1, <1>2 DEF PlainInv
<1>7. StampInv'
  BY <1>1, <1>2, BinTyped DEF StampInv, StepInv
<1>8. MaxDeaths <= 1 => AgeInv' /\ RunInv' /\ Bin!JobsStart'
  <2>1. MaxDeaths <= 1 => AgeInv'
    BY <1>1, <1>2 DEF JobInv, AgeInv
  <2>2. binJobs \subseteq Bin!Build /\ \A c \in Cmd : binCmd[c].at = "run" => binCmd[c].me \in Bin!Build
    BY DEF Bin!TypeOK, StepInv
  <2>3. MaxDeaths <= 1 => RunInv'
    BY <1>1, <1>2, <2>2 DEF JobInv, RunInv
  <2>4. MaxDeaths <= 1 => Bin!JobsStart'
    BY <1>1, <1>2, <2>2 DEF JobInv, Bin!JobsStart, InTime
  <2>. QED BY <2>1, <2>3, <2>4
<1>. QED BY <1>3, <1>4, <1>5, <1>6, <1>7, <1>8 DEF JobInv

LEMMA BinStep == BinInv /\ [Bin!Next]_(Bin!vars) => BinInv'
<1>. SUFFICES ASSUME BinInv, [Bin!Next]_(Bin!vars) PROVE BinInv'
  OBVIOUS
<1>1. CASE UNCHANGED Bin!vars
  BY <1>1 DEF Bin!vars, BinInv, Bin!TypeOK, OneBusy, Busy, StepInv, PlainInv, Bin!LinkRuns,
     StampInv,
              JobInv, AgeInv, Younger, RunInv, InTime, Bin!JobsStart
<1>2. ASSUME NEW c \in Cmd, NEW b \in Bin!Build, Bin!Apply(c, b) \/ Bin!Reinstall(c, b) PROVE BinInv'
  BY <1>2, ApplyKeeps, ReinstallKeeps
<1>3. ASSUME NEW c \in Cmd,
             \/ Bin!Run(c) \/ Bin!Submit(c) \/ Bin!Exit(c)
             \/ Bin!Persist(c) \/ Bin!Swap(c) \/ Bin!Unstamp(c) \/ Bin!StampPrevious(c)
             \/ Bin!Prune(c) \/ Bin!PruneOne(c) \/ Bin!DropStamp(c) \/ Bin!Pruned(c)
             \/ Bin!Relink(c) \/ Bin!Die(c)
      PROVE  BinInv'
  BY <1>3, RestSteps, SubmitKeeps, PersistKeeps, SwapKeeps, UnstampKeeps, StampPreviousKeeps,
     PruneKeeps, PruneOneKeeps, DropStampKeeps, RelinkKeeps
<1>. QED BY <1>1, <1>2, <1>3, TickKeeps DEF Bin!Next

(* The invariant of the builds, their stamps and their jobs (BinInv).      *)
THEOREM BuildsHold == Bin!Spec => []BinInv
BY BinInit, BinStep, PTL DEF Bin!Spec

-----------------------------------------------------------------------------
(***************************************************************************)
(* TestRuns: one command at a time looks around and then does what it      *)
(* decided on, beside one suite in the foreground and one job; what it     *)
(* took for over or gone stays so until it is done.                        *)
(***************************************************************************)

Leads(c) == testCmd[c].at = "front" /\ testRun[c].at = "suite"
(* Who is at which step, whatever the scheduler answers.                   *)
TestAtInv ==
  /\ \A c, d \in Cmd :
       c = d \/ testCmd[c].at = "idle" \/ testCmd[d].at = "idle" \/ Leads(c) \/ Leads(d)
  /\ \A c \in Cmd : testRun[c].at # "wait" /\ (testRun[c].at # "none" <=> testCmd[c].at = "front")
  /\ \A c \in Cmd : testCmd[c].at \in {"write", "submit"} => testCmd[c].set \in Tests!Set
  /\ \A c \in Cmd : testCmd[c].at = "record" => testCmd[c].job \in Tests!Job
  /\ \A c \in Cmd : testCmd[c].at \in {"ask", "mark"} => testCmd[c].copy.job \in Tests!Job
  /\ \A j \in Tests!Job : testRun[j].at # "none" => testJobs[j].st = "running"
  /\ \A j \in Tests!Job : Tests!Listed(j) => testJobs[j].set \in Tests!Set
  /\ \A p \in Cmd \cup Tests!Job : testRun[p].at # "none" => testRun[p].set \in Tests!Set

Recorder(j) == \E c \in Cmd : testCmd[c].at = "record" /\ testCmd[c].job = j
(* What the scheduler has, and what is on record of it.                    *)
RecordInv ==
  /\ \A j \in Tests!Job :
       Tests!Listed(j) => testDir /\ ((test # None /\ test.job = j) \/ Recorder(j))
  /\ test # None => testDir
  /\ testDir => testListed
  /\ test # None /\ test.settled => test.job \in Tests!Job /\ testJobs[test.job].st = "gone"
(* Nothing is queued, nothing runs.                                        *)
NoneLeft == \A j \in Tests!Job : ~Tests!Listed(j)
Calm == NoneLeft /\ \A p \in Cmd \cup Tests!Job : testRun[p].at = "none"
(* What a command knows that has looked around.                            *)
CopyAt(c) ==
  /\ testCmd[c].at \in {"look", "ask", "take", "write", "submit", "record"} => testDir
  /\ testCmd[c].at = "drop" => ~testDir
  /\ testCmd[c].at \in {"take", "write", "submit", "mark", "remove", "drop"} => Calm
  /\ testCmd[c].at \in {"write", "submit"} => testActive = testCmd[c].set
  /\ testCmd[c].at \in {"ask", "stop", "clear", "mark"} =>
       /\ test # None /\ test.job = testCmd[c].copy.job
       /\ testCmd[c].copy.settled =>
            testCmd[c].copy.job \in Tests!Job /\ testJobs[testCmd[c].copy.job].st = "gone"
  /\ testCmd[c].at = "record" =>
       /\ \A j \in Tests!Job : Tests!Listed(j) => j = testCmd[c].job
       /\ \A p \in Cmd \cup Tests!Job :
            testRun[p].at # "none" => p = testCmd[c].job /\ testRun[p].at = "wait"
CopyInv == \A c \in Cmd : CopyAt(c)
(* Who executes the suite, or is about to.                                 *)
ExecInv ==
  /\ \A p, q \in Cmd \cup Tests!Job : testRun[p].at # "none" /\ testRun[q].at # "none" => p = q
  /\ \A p \in Cmd \cup Tests!Job : testRun[p].at \notin {"none", "wait"} =>
       /\ test # None /\ testRun[p].copy.job = test.job /\ ~testRun[p].copy.settled
       /\ testActive = testRun[p].set
  /\ \A c \in Cmd : testRun[c].at # "none" => test # None /\ test.job = None

(* TestCore is not claimed once a delete took an unanswered query for a    *)
(* job's end, or a start a record it could not open for none.              *)
TestCore == RecordInv /\ CopyInv /\ ExecInv
TestInv == Tests!TypeOK /\ TestAtInv /\ (~testMissed => TestCore)

LEMMA TestConsts ==
  /\ MaxJobs \in Nat /\ MaxSets \in Nat /\ MaxRequeues \in Nat /\ MaxFails \in Nat
  /\ None \notin Nat /\ None \notin Tests!Record /\ Cmd \cap Tests!Job = {}
  /\ None \notin Tests!Job /\ None \notin Tests!Set /\ Tests!Set \subseteq Nat
  /\ Tests!Fresh \in Tests!Record /\ Tests!Fresh.job = None /\ ~Tests!Fresh.settled
  /\ Tests!Idle \in Tests!Command /\ Tests!Idle.at = "idle"
  /\ Tests!NoRun \in Tests!Process /\ Tests!NoRun.at = "none"
BY HomeAssumption DEF Tests!TestRunsAssumption, Tests!Job, Tests!Set, Tests!Fresh,
   Tests!Record, Tests!Idle, Tests!Command, Tests!CmdSteps, Tests!NoRun, Tests!Process,
   Tests!RunSteps

TestMoves(c) == \A d \in Cmd \ {c} : testCmd'[d] = testCmd[d]
RunMoves(p) == \A q \in (Cmd \cup Tests!Job) \ {p} : testRun'[q] = testRun[q]
JobMoves(j) == \A k \in Tests!Job \ {j} : testJobs'[k] = testJobs[k]

LEMMA OneCmd ==
  ASSUME Tests!TypeOK, NEW c \in Cmd, NEW x \in Tests!Command, testCmd' = [testCmd EXCEPT ![c] = x]
  PROVE  testCmd' \in [Cmd -> Tests!Command] /\ testCmd'[c] = x /\ TestMoves(c)
BY DEF Tests!TypeOK, TestMoves
LEMMA OneRun ==
  ASSUME Tests!TypeOK, NEW p \in Cmd \cup Tests!Job, NEW x \in Tests!Process, testRun' = [testRun EXCEPT ![p] = x]
  PROVE  testRun' \in [Cmd \cup Tests!Job -> Tests!Process] /\ testRun'[p] = x /\ RunMoves(p)
BY DEF Tests!TypeOK, RunMoves
LEMMA OneJob ==
  ASSUME Tests!TypeOK, NEW j \in Tests!Job, NEW x \in Tests!Entry, testJobs' = [testJobs EXCEPT ![j] = x]
  PROVE  testJobs' \in [Tests!Job -> Tests!Entry] /\ testJobs'[j] = x /\ JobMoves(j)
BY DEF Tests!TypeOK, JobMoves

LEMMA Overs ==
  ASSUME Tests!TypeOK, NEW c \in Cmd, Tests!Over(c)
  PROVE  testCmd' \in [Cmd -> Tests!Command] /\ testCmd'[c] = Tests!Idle /\ TestMoves(c)
BY OneCmd, TestConsts DEF Tests!Over
LEMMA Gotos ==
  ASSUME Tests!TypeOK, NEW c \in Cmd, NEW at \in Tests!CmdSteps, Tests!Goto(c, at)
  PROVE  testCmd' \in [Cmd -> Tests!Command] /\ testCmd'[c].at = at /\ TestMoves(c)
<1>. DEFINE x == [Tests!Idle EXCEPT !.at = at]
<1>1. x \in Tests!Command /\ x.at = at
  BY TestConsts DEF Tests!Command
<1>. HIDE DEF x
<1>. QED BY <1>1, OneCmd DEF Tests!Goto, x
LEMMA TakesOn ==
  ASSUME Tests!TypeOK, NEW c \in Cmd, Tests!Takes(c)
  PROVE  testCmd' \in [Cmd -> Tests!Command] /\ testCmd'[c].at = "take" /\ TestMoves(c)
<1>. DEFINE x == [testCmd[c] EXCEPT !.at = "take", !.copy = Tests!Fresh]
<1>1. testCmd[c] \in Tests!Command
  BY DEF Tests!TypeOK
<1>2. x \in Tests!Command /\ x.at = "take"
  BY <1>1, TestConsts DEF Tests!Command, Tests!CmdSteps
<1>3. testCmd' = [testCmd EXCEPT ![c] = x]
  BY <1>1 DEF Tests!Takes
<1>. HIDE DEF x
<1>. QED BY <1>2, <1>3, OneCmd
LEMMA Carries ==
  ASSUME Tests!TypeOK, NEW c \in Cmd, NEW at \in Tests!CmdSteps, NEW r \in Tests!Record,
         testCmd' = [testCmd EXCEPT ![c].at = at, ![c].copy = r]
  PROVE  testCmd' \in [Cmd -> Tests!Command] /\ testCmd'[c].at = at /\ testCmd'[c].copy = r /\ TestMoves(c)
<1>. DEFINE x == [testCmd[c] EXCEPT !.at = at, !.copy = r]
<1>1. testCmd[c] \in Tests!Command
  BY DEF Tests!TypeOK
<1>2. x \in Tests!Command /\ x.at = at /\ x.copy = r
  BY <1>1, TestConsts DEF Tests!Command
<1>3. testCmd' = [testCmd EXCEPT ![c] = x]
  BY <1>1
<1>. HIDE DEF x
<1>. QED BY <1>2, <1>3, OneCmd
LEMMA Kills ==
  ASSUME Tests!TypeOK, NEW p, Tests!Killed(p)
  PROVE  testRun' \in [Cmd \cup Tests!Job -> Tests!Process] /\ RunMoves(p) /\ testCorpse' \in BOOLEAN
         /\ (p \in Cmd \cup Tests!Job => testRun'[p] = Tests!NoRun)
BY TestConsts DEF Tests!TypeOK, Tests!Killed, RunMoves
LEMMA JobStops ==
  ASSUME Tests!TypeOK, NEW j, Tests!Stopped(j)
  PROVE  /\ testJobs' \in [Tests!Job -> Tests!Entry] /\ JobMoves(j)
         /\ j \in Tests!Job => testJobs'[j].st = "gone"
         /\ testRun' \in [Cmd \cup Tests!Job -> Tests!Process] /\ RunMoves(j) /\ testCorpse' \in BOOLEAN
         /\ j \in Cmd \cup Tests!Job => testRun'[j] = Tests!NoRun
<1>1. Tests!Killed(j)
  BY TestConsts DEF Tests!Stopped
<1>2. CASE j \in Tests!Job
  <2>. DEFINE x == [testJobs[j] EXCEPT !.st = "gone"]
  <2>1. x \in Tests!Entry /\ x.st = "gone" /\ testJobs' = [testJobs EXCEPT ![j] = x]
    BY <1>2 DEF Tests!TypeOK, Tests!Entry, Tests!Stopped
  <2>. HIDE DEF x
  <2>. QED BY <1>1, <1>2, <2>1, OneJob, Kills
<1>3. CASE j \notin Tests!Job
  BY <1>1, <1>3, Kills DEF Tests!TypeOK, Tests!Stopped, JobMoves
<1>. QED BY <1>2, <1>3
LEMMA Ended ==
  ASSUME Tests!TypeOK, NEW p \in Cmd \cup Tests!Job, Tests!Ends(p)
  PROVE  /\ testRun' \in [Cmd \cup Tests!Job -> Tests!Process] /\ testRun'[p] = Tests!NoRun /\ RunMoves(p)
         /\ testCmd' \in [Cmd -> Tests!Command]
         /\ p \in Cmd => testCmd'[p] = Tests!Idle
         /\ TestMoves(p)
<1>1. testRun' \in [Cmd \cup Tests!Job -> Tests!Process] /\ testRun'[p] = Tests!NoRun /\ RunMoves(p)
  BY OneRun, TestConsts DEF Tests!Ends
<1>2. CASE p \in Cmd
  BY <1>1, <1>2, OneCmd, TestConsts DEF Tests!Ends
<1>3. CASE p \notin Cmd
  BY <1>1, <1>3 DEF Tests!Ends, Tests!TypeOK, TestMoves
<1>. QED BY <1>2, <1>3

-----------------------------------------------------------------------------
TestAlone(c) == \A d \in Cmd \ {c} : testCmd[d].at = "idle" \/ Leads(d)
LEMMA NobodyElse ==
  ASSUME TestAtInv, NEW c \in Cmd
  PROVE  /\ testCmd[c].at \notin {"idle", "front"} => TestAlone(c)
         /\ testCmd[c].at = "front" /\ testRun[c].at # "suite" => TestAlone(c)
         /\ Tests!Quiet(c) => TestAlone(c)
BY TestConsts DEF TestAtInv, TestAlone, Leads, Tests!Quiet

(* Where a command may be that is not executing the suite.                 *)
Placed(x) ==
  /\ x.at # "front"
  /\ x.at \in {"write", "submit"} => x.set \in Tests!Set
  /\ x.at = "record" => x.job \in Tests!Job
  /\ x.at \in {"ask", "mark"} => x.copy.job \in Tests!Job

LEMMA AtCmd ==
  ASSUME Tests!TypeOK, TestAtInv, NEW c \in Cmd, testCmd[c].at # "front", TestAlone(c),
         TestMoves(c), Placed(testCmd'[c]),
         \A p \in Cmd \cup Tests!Job : testRun'[p] = testRun[p] \/ (p \in Tests!Job /\ testRun'[p].at = "none"),
         \A j \in Tests!Job : testJobs'[j] = testJobs[j] \/ (testJobs'[j].st = "gone" /\ testRun'[j].at = "none")
  PROVE  TestAtInv'
<1>1. \A d, e \in Cmd : d = e \/ testCmd'[d].at = "idle" \/ testCmd'[e].at = "idle" \/ Leads(d)' \/ Leads(e)'
  <2>1. \A d \in Cmd : testRun'[d] = testRun[d]
    BY TestConsts
  <2>. QED BY <2>1 DEF TestAtInv, TestAlone, Leads, TestMoves
<1>2. \A d \in Cmd : testRun'[d].at # "wait" /\ (testRun'[d].at # "none" <=> testCmd'[d].at = "front")
  <2>1. \A d \in Cmd : testRun'[d] = testRun[d]
    BY TestConsts
  <2>. QED BY <2>1 DEF TestAtInv, TestMoves, Placed
<1>3. /\ \A d \in Cmd : testCmd'[d].at \in {"write", "submit"} => testCmd'[d].set \in Tests!Set
      /\ \A d \in Cmd : testCmd'[d].at = "record" => testCmd'[d].job \in Tests!Job
      /\ \A d \in Cmd : testCmd'[d].at \in {"ask", "mark"} => testCmd'[d].copy.job \in Tests!Job
  BY DEF TestAtInv, TestMoves, Placed
<1>4. /\ \A j \in Tests!Job : testRun'[j].at # "none" => testJobs'[j].st = "running"
      /\ \A j \in Tests!Job : Tests!Listed(j)' => testJobs'[j].set \in Tests!Set
      /\ \A p \in Cmd \cup Tests!Job : testRun'[p].at # "none" => testRun'[p].set \in Tests!Set
  BY DEF TestAtInv, Tests!Listed
<1>. QED BY <1>1, <1>2, <1>3, <1>4 DEF TestAtInv

(* A process moves, or ends.                                               *)
LEMMA AtRun ==
  ASSUME Tests!TypeOK, TestAtInv, NEW p \in Cmd \cup Tests!Job, RunMoves(p), UNCHANGED testJobs,
         testRun'[p].at # "none" => testRun'[p].set \in Tests!Set /\ testRun'[p].at # "wait" /\ testRun[p].at # "none",
         \/ UNCHANGED testCmd /\ testRun'[p].at # "none"
         \/ UNCHANGED testCmd /\ p \in Tests!Job
         \/ p \in Cmd /\ TestMoves(p) /\ testCmd'[p] = Tests!Idle /\ testRun'[p].at = "none",
         p \in Cmd => Leads(p)' \/ TestAlone(p) \/ testCmd'[p] = Tests!Idle
  PROVE  TestAtInv'
<1>1. \A d, e \in Cmd : d = e \/ testCmd'[d].at = "idle" \/ testCmd'[e].at = "idle" \/ Leads(d)' \/ Leads(e)'
  BY TestConsts DEF TestAtInv, TestAlone, Leads, TestMoves, RunMoves
<1>2. \A d \in Cmd : testRun'[d].at # "wait" /\ (testRun'[d].at # "none" <=> testCmd'[d].at = "front")
  BY TestConsts DEF TestAtInv, TestMoves, RunMoves
<1>3. /\ \A d \in Cmd : testCmd'[d].at \in {"write", "submit"} => testCmd'[d].set \in Tests!Set
      /\ \A d \in Cmd : testCmd'[d].at = "record" => testCmd'[d].job \in Tests!Job
      /\ \A d \in Cmd : testCmd'[d].at \in {"ask", "mark"} => testCmd'[d].copy.job \in Tests!Job
  BY TestConsts DEF TestAtInv, TestMoves
<1>4. /\ \A j \in Tests!Job : testRun'[j].at # "none" => testJobs'[j].st = "running"
      /\ \A j \in Tests!Job : Tests!Listed(j)' => testJobs'[j].set \in Tests!Set
      /\ \A q \in Cmd \cup Tests!Job : testRun'[q].at # "none" => testRun'[q].set \in Tests!Set
  BY TestConsts DEF TestAtInv, Tests!Listed, RunMoves
<1>. QED BY <1>1, <1>2, <1>3, <1>4 DEF TestAtInv

(* The scheduler moves a job.                                              *)
LEMMA AtJob ==
  ASSUME Tests!TypeOK, TestAtInv, NEW j \in Tests!Job, RunMoves(j), JobMoves(j), UNCHANGED testCmd,
         testRun'[j].at # "none" => testJobs'[j].st = "running" /\ testRun'[j].set \in Tests!Set,
         Tests!Listed(j)' => testJobs'[j].set \in Tests!Set
  PROVE  TestAtInv'
<1>0. \A d \in Cmd : testRun'[d] = testRun[d]
  BY TestConsts DEF RunMoves
<1>1. \A d, e \in Cmd : d = e \/ testCmd'[d].at = "idle" \/ testCmd'[e].at = "idle" \/ Leads(d)' \/ Leads(e)'
  BY <1>0 DEF TestAtInv, Leads
<1>2. \A d \in Cmd : testRun'[d].at # "wait" /\ (testRun'[d].at # "none" <=> testCmd'[d].at = "front")
  BY <1>0 DEF TestAtInv
<1>3. /\ \A d \in Cmd : testCmd'[d].at \in {"write", "submit"} => testCmd'[d].set \in Tests!Set
      /\ \A d \in Cmd : testCmd'[d].at = "record" => testCmd'[d].job \in Tests!Job
      /\ \A d \in Cmd : testCmd'[d].at \in {"ask", "mark"} => testCmd'[d].copy.job \in Tests!Job
  BY DEF TestAtInv
<1>4. /\ \A k \in Tests!Job : testRun'[k].at # "none" => testJobs'[k].st = "running"
      /\ \A k \in Tests!Job : Tests!Listed(k)' => testJobs'[k].set \in Tests!Set
      /\ \A q \in Cmd \cup Tests!Job : testRun'[q].at # "none" => testRun'[q].set \in Tests!Set
  BY DEF TestAtInv, Tests!Listed, RunMoves, JobMoves
<1>. QED BY <1>1, <1>2, <1>3, <1>4 DEF TestAtInv

-----------------------------------------------------------------------------
(* What nobody but c is doing.                                             *)
LEMMA OthersRest ==
  ASSUME Tests!TypeOK, TestAtInv, NEW c \in Cmd, TestAlone(c), TestMoves(c),
         NEW d \in Cmd \ {c}
  PROVE  testCmd'[d].at = "idle" \/ testCmd'[d].at = "front"
BY DEF TestAlone, Leads, TestMoves

LEMMA OthersCopy ==
  ASSUME Tests!TypeOK, TestAtInv, NEW c \in Cmd, TestAlone(c), TestMoves(c), CopyAt(c)'
  PROVE  CopyInv'
<1>. SUFFICES ASSUME NEW d \in Cmd, d # c PROVE CopyAt(d)'
  BY DEF CopyInv
<1>1. testCmd'[d].at = "idle" \/ testCmd'[d].at = "front"
  BY OthersRest
<1>. QED BY <1>1 DEF CopyAt

LEMMA CoreLook ==
  ASSUME Tests!TypeOK, TestAtInv, TestCore, NEW c \in Cmd, testCmd[c].at # "record", TestAlone(c), TestMoves(c),
         UNCHANGED Tests!stored,
         \A p \in Cmd \cup Tests!Job : testRun'[p] = testRun[p] \/ testRun'[p].at = "none",
         \A j \in Tests!Job : testJobs'[j] = testJobs[j] \/ testJobs'[j].st = "gone",
         CopyAt(c)'
  PROVE  TestCore'
<1>. USE DEF Tests!stored
<1>1. CopyInv'
  BY OthersCopy
<1>2. \A j \in Tests!Job : Tests!Listed(j)' => Tests!Listed(j)
  BY DEF Tests!Listed
<1>3. \A j \in Tests!Job : Recorder(j) => Recorder(j)'
  BY DEF Recorder, TestMoves
<1>4. RecordInv'
  BY <1>2, <1>3 DEF RecordInv, TestCore
<1>5. ExecInv'
  BY DEF ExecInv, TestCore
<1>. QED BY <1>1, <1>4, <1>5 DEF TestCore

LEMMA CoreCalm ==
  ASSUME Tests!TypeOK, TestAtInv, Calm, NEW c \in Cmd, TestAlone(c), TestMoves(c),
         UNCHANGED <<testJobs, testRun>>, test' # None => testDir', testDir' => testListed',
         test' # None /\ test'.settled => test'.job \in Tests!Job /\ testJobs[test'.job].st = "gone",
         CopyAt(c)'
  PROVE  TestCore'
<1>1. CopyInv'
  BY OthersCopy
<1>2. RecordInv' /\ ExecInv'
  BY DEF RecordInv, ExecInv, Calm, NoneLeft, Tests!Listed
<1>. QED BY <1>1, <1>2 DEF TestCore

LEMMA OnlyOne ==
  ASSUME TestAtInv, TestCore, NEW j \in Tests!Job, Tests!Listed(j)
  PROVE  /\ \A k \in Tests!Job : Tests!Listed(k) => k = j
         /\ \A p \in Cmd \cup Tests!Job : testRun[p].at # "none" => p = j
<1>0. /\ \A k \in Tests!Job : Tests!Listed(k) => (test # None /\ test.job = k) \/ Recorder(k)
      /\ \A c \in Cmd : CopyAt(c)
  BY DEF TestCore, RecordInv, CopyInv
<1>1. \A k \in Tests!Job : Tests!Listed(k) => k = j
  <2>1. CASE \E c \in Cmd : testCmd[c].at = "record"
    BY <1>0, <2>1 DEF CopyAt
  <2>2. CASE \A c \in Cmd : testCmd[c].at # "record"
    BY <1>0, <2>2 DEF Recorder
  <2>. QED BY <2>1, <2>2
<1>2. \A k \in Tests!Job : testRun[k].at # "none" => k = j
  BY <1>1 DEF TestAtInv, Tests!Listed
<1>3. \A c \in Cmd : testRun[c].at = "none"
  <2>. SUFFICES ASSUME NEW c \in Cmd, testRun[c].at # "none" PROVE FALSE
    OBVIOUS
  <2>1. test # None /\ test.job = None
    BY DEF TestCore, ExecInv
  <2>2. PICK d \in Cmd : testCmd[d].at = "record"
    BY <1>0, <2>1, TestConsts DEF Recorder
  <2>3. c = testCmd[d].job /\ testCmd[d].job \in Tests!Job
    BY <1>0, <2>2 DEF CopyAt, TestAtInv
  <2>. QED BY <2>3, TestConsts
<1>. QED BY <1>1, <1>2, <1>3

LEMMA RunsKnown ==
  ASSUME TestAtInv, TestCore, NEW p \in Cmd \cup Tests!Job, testRun[p].at # "none",
         \A c \in Cmd : testCmd[c].at # "record"
  PROVE  /\ test # None /\ testDir /\ test.job = IF p \in Tests!Job THEN p ELSE None
         /\ \A c \in Cmd : testCmd[c].at \notin {"take", "write", "submit", "mark", "remove", "drop"}
         /\ \A q \in Cmd \cup Tests!Job : testRun[q].at # "none" => q = p
<1>1. \A c \in Cmd : testCmd[c].at \notin {"take", "write", "submit", "mark", "remove", "drop"}
  BY DEF TestCore, CopyInv, CopyAt, Calm
<1>2. CASE p \in Tests!Job
  <2>1. Tests!Listed(p) /\ ~Recorder(p)
    BY <1>2 DEF TestAtInv, Tests!Listed, Recorder
  <2>2. test # None /\ test.job = p /\ testDir
    BY <1>2, <2>1 DEF TestCore, RecordInv
  <2>. QED BY <1>1, <1>2, <2>2 DEF TestCore, ExecInv
<1>3. CASE p \in Cmd
  <2>1. test # None /\ test.job = None /\ testDir /\ p \notin Tests!Job
    BY <1>3, TestConsts DEF TestCore, ExecInv, RecordInv
  <2>. QED BY <1>1, <2>1 DEF TestCore, ExecInv
<1>. QED BY <1>2, <1>3

LEMMA CoreRun ==
  ASSUME Tests!TypeOK, TestAtInv, TestCore, NEW p \in Cmd \cup Tests!Job, testRun[p].at # "none", RunMoves(p),
         \A c \in Cmd : testCmd[c].at # "record",
         UNCHANGED <<testDir, testListed, testJobs>>,
         test' = test \/ (test' # None /\ test'.job = test.job /\ ~test'.settled),
         \A c \in Cmd : testCmd'[c] = testCmd[c] \/ testCmd'[c] = Tests!Idle,
         \/ testRun'[p].at = "none"
         \/ /\ testRun'[p].copy.job = test.job /\ ~testRun'[p].copy.settled
            /\ testActive' = testRun'[p].set
  PROVE  TestCore'
<1>1. /\ test # None /\ testDir /\ test.job = IF p \in Tests!Job THEN p ELSE None
      /\ \A c \in Cmd : testCmd[c].at \notin {"take", "write", "submit", "mark", "remove", "drop"}
      /\ \A q \in Cmd \cup Tests!Job : testRun[q].at # "none" => q = p
  BY RunsKnown
<1>2. test' # None /\ test'.job = test.job /\ (test'.settled => test.settled)
  BY <1>1
<1>3. \A q \in Cmd \cup Tests!Job : q = p \/ testRun'[q].at = "none"
  BY <1>1 DEF RunMoves
<1>4. RecordInv'
  <2>1. \A j \in Tests!Job : Tests!Listed(j)' => Tests!Listed(j) /\ ~Recorder(j)
    BY DEF Tests!Listed, Recorder
  <2>. QED BY <1>1, <1>2, <2>1 DEF TestCore, RecordInv
<1>5. CopyInv'
  <2>. SUFFICES ASSUME NEW c \in Cmd, testCmd'[c] = testCmd[c] PROVE CopyAt(c)'
    BY TestConsts DEF CopyInv, CopyAt
  <2>1. testCmd[c].at \notin {"take", "write", "submit", "mark", "remove", "drop", "record"}
    BY <1>1
  <2>2. CopyAt(c)
    BY DEF TestCore, CopyInv
  <2>. QED BY <1>1, <1>2, <2>1, <2>2 DEF CopyAt
<1>6. ExecInv'
  <2>1. \A q, r \in Cmd \cup Tests!Job : testRun'[q].at # "none" /\ testRun'[r].at # "none" => q = r
    BY <1>3
  <2>2. \A q \in Cmd \cup Tests!Job : testRun'[q].at \notin {"none", "wait"} =>
          /\ test' # None /\ testRun'[q].copy.job = test'.job /\ ~testRun'[q].copy.settled
          /\ testActive' = testRun'[q].set
    BY <1>2, <1>3
  <2>3. \A c \in Cmd : testRun'[c].at # "none" => test' # None /\ test'.job = None
    BY <1>1, <1>2, <1>3, TestConsts
  <2>. QED BY <2>1, <2>2, <2>3 DEF ExecInv
<1>. QED BY <1>4, <1>5, <1>6 DEF TestCore

LEMMA CoreJob ==
  ASSUME Tests!TypeOK, TestAtInv, TestCore, NEW j \in Tests!Job, RunMoves(j), JobMoves(j),
         UNCHANGED <<testCmd, Tests!stored>>,
         testJobs'[j].st # "none", testJobs[j].st = "gone" => testJobs'[j].st = "gone",
         Tests!Listed(j)' => Tests!Listed(j),
         \/ testRun'[j].at = "none"
         \/ testRun'[j].at = "wait" /\ Tests!Listed(j)
  PROVE  TestCore'
<1>. USE DEF Tests!stored
<1>1. \A k \in Tests!Job : Tests!Listed(k)' => Tests!Listed(k)
  BY DEF Tests!Listed, JobMoves
<1>2. \A k \in Tests!Job : testJobs[k].st = "gone" => testJobs'[k].st = "gone"
  BY DEF JobMoves
<1>3. RecordInv'
  BY <1>1, <1>2 DEF TestCore, RecordInv, Recorder
<1>4. \A q, r \in Cmd \cup Tests!Job : testRun'[q].at # "none" /\ testRun'[r].at # "none" => q = r
  <2>1. CASE testRun'[j].at = "none"
    BY <2>1 DEF TestCore, ExecInv, RunMoves
  <2>2. CASE Tests!Listed(j)
    BY <2>2, OnlyOne DEF RunMoves
  <2>. QED BY <2>1, <2>2
<1>5. ExecInv'
  <2>1. \A q \in Cmd \cup Tests!Job : testRun'[q].at \notin {"none", "wait"} => testRun'[q] = testRun[q]
    BY DEF RunMoves
  <2>2. \A c \in Cmd : testRun'[c] = testRun[c]
    BY TestConsts DEF RunMoves
  <2>. QED BY <1>4, <2>1, <2>2 DEF TestCore, ExecInv
<1>6. Calm => Calm'
  BY <1>1 DEF Calm, NoneLeft, RunMoves
<1>7. CopyInv'
  <2>. SUFFICES ASSUME NEW c \in Cmd PROVE CopyAt(c)'
    BY DEF CopyInv
  <2>1. CopyAt(c)
    BY DEF TestCore, CopyInv
  <2>2. testCmd[c].at = "record" =>
          \A q \in Cmd \cup Tests!Job : testRun'[q].at # "none" => q = testCmd[c].job /\ testRun'[q].at = "wait"
    BY <2>1 DEF CopyAt, RunMoves
  <2>. QED BY <1>1, <1>2, <1>6, <2>1, <2>2 DEF CopyAt
<1>. QED BY <1>3, <1>5, <1>7 DEF TestCore

-----------------------------------------------------------------------------
LEMMA NotLive ==
  ASSUME Tests!TypeOK, FALSE \in Tests!HeldLive
  PROVE  \A p \in Cmd \cup Tests!Job : testRun[p].at \notin Tests!Suite
BY DEF Tests!TypeOK, Tests!HeldLive

LEMMA LiveOrNot ==
  ASSUME Tests!TypeOK, NEW live \in Tests!HeldLive
  PROVE  live = TRUE \/ live = FALSE
BY DEF Tests!TypeOK, Tests!HeldLive

LEMMA CalmWhen ==
  ASSUME TestAtInv, NoneLeft, \A d \in Cmd : testRun[d].at = "none"
  PROVE  Calm
BY DEF TestAtInv, Calm, NoneLeft, Tests!Listed

LEMMA NoFront ==
  ASSUME TestAtInv, NEW c \in Cmd, testCmd[c].at # "front", TestAlone(c),
         \A p \in Cmd \cup Tests!Job : testRun[p].at \notin Tests!Suite
  PROVE  \A d \in Cmd : testRun[d].at = "none"
BY DEF TestAtInv, TestAlone, Leads, Tests!Suite

(* The jobs that are left when the one on record is not.                   *)
LEMMA NoneButRecorded ==
  ASSUME Tests!TypeOK, TestAtInv, TestCore, NEW c \in Cmd, testCmd[c].at \notin {"front", "record"}, TestAlone(c),
         test # None => test.job = None \/ ~Tests!Listed(test.job)
  PROVE  NoneLeft
<1>1. \A d \in Cmd : testCmd[d].at # "record"
  BY DEF TestAlone, Leads
<1>. QED BY <1>1, TestConsts DEF NoneLeft, TestCore, RecordInv, Recorder

LEMMA StartKeeps ==
  ASSUME TestInv, NEW c \in Cmd, Tests!Start(c)
  PROVE  TestInv'
<1>0. Tests!TypeOK /\ TestAtInv /\ TestAlone(c) /\ testCmd[c].at = "idle"
  BY NobodyElse DEF TestInv, Tests!Start
<1>1. testCmd' \in [Cmd -> Tests!Command] /\ TestMoves(c) /\ testCmd'[c].at = "look"
  <2>1. PICK front, force \in BOOLEAN :
          testCmd' = [testCmd EXCEPT ![c] = [Tests!Idle EXCEPT !.at = "look", !.front = front, !.force = force]]
    BY DEF Tests!Start
  <2>. DEFINE x == [Tests!Idle EXCEPT !.at = "look", !.front = front, !.force = force]
  <2>2. x \in Tests!Command /\ x.at = "look"
    BY TestConsts DEF Tests!Command, Tests!CmdSteps
  <2>. HIDE DEF x
  <2>. QED BY <1>0, <2>1, <2>2, OneCmd DEF x
<1>2. testDir' /\ testListed' /\ UNCHANGED <<test, testSets, testActive, testJobs, testRun, testCorpse, testMissed, testRequeues, testFails>>
  BY DEF Tests!Start, Tests!outside, Tests!counts
<1>3. Tests!TypeOK'
  BY <1>0, <1>1, <1>2 DEF Tests!TypeOK, Tests!Start
<1>4. TestAtInv'
  BY <1>0, <1>1, <1>2, AtCmd DEF Placed
<1>5. ASSUME ~testMissed' PROVE TestCore'
  <2>1. TestCore
    BY <1>2, <1>5 DEF TestInv
  <2>2. CopyInv'
    <3>1. CopyAt(c)'
      BY <1>1, <1>2 DEF CopyAt
    <3>. QED BY <1>0, <1>1, <3>1, OthersCopy
  <2>3. \A j \in Tests!Job : Recorder(j) => Recorder(j)'
    BY <1>0, <1>1 DEF Recorder, TestMoves
  <2>4. RecordInv' /\ ExecInv'
    BY <1>2, <2>1, <2>3 DEF TestCore, RecordInv, ExecInv, Tests!Listed
  <2>. QED BY <2>2, <2>4 DEF TestCore
<1>. QED BY <1>3, <1>4, <1>5 DEF TestInv

LEMMA OpenFailsKeeps ==
  ASSUME TestInv, NEW c \in Cmd, Tests!Look(c), Tests!OpenFails(c)
  PROVE  TestInv'
<1>0. Tests!TypeOK /\ TestAtInv /\ TestAlone(c) /\ testCmd[c].at = "look"
  BY NobodyElse DEF TestInv, Tests!Look
<1>1. UNCHANGED <<Tests!stored, testJobs, testRun, testCorpse, testRequeues>>
  BY DEF Tests!Look, Tests!outside
<1>2. testMissed' = TRUE /\ testFails' \in 0 .. MaxFails /\ Tests!Takes(c)
  BY <1>0, TestConsts DEF Tests!OpenFails, Tests!Unanswered, Tests!TypeOK
<1>3. testCmd' \in [Cmd -> Tests!Command] /\ TestMoves(c) /\ testCmd'[c].at = "take"
  BY <1>0, <1>2, TakesOn
<1>4. Tests!TypeOK'
  BY <1>0, <1>1, <1>2, <1>3 DEF Tests!TypeOK, Tests!stored
<1>5. TestAtInv'
  BY <1>0, <1>1, <1>3, AtCmd DEF Placed
<1>. QED BY <1>2, <1>4, <1>5 DEF TestInv

LEMMA LookKeeps ==
  ASSUME TestInv, NEW c \in Cmd, Tests!Look(c)
  PROVE  TestInv'
<1>. SUFFICES ASSUME ~Tests!OpenFails(c) PROVE TestInv'
  BY OpenFailsKeeps
<1>0. Tests!TypeOK /\ TestAtInv /\ TestAlone(c) /\ testCmd[c].at = "look"
  BY NobodyElse DEF TestInv, Tests!Look
<1>1. UNCHANGED <<Tests!stored, testJobs, testRun, testCorpse, testMissed, testRequeues, testFails>>
  BY DEF Tests!Look, Tests!outside
<1>2. \/ Tests!Over(c)
      \/ test # None /\ Tests!Pending(test) /\ testCmd' = [testCmd EXCEPT ![c].at = "ask", ![c].copy = test]
      \/ (test = None \/ (FALSE \in Tests!HeldLive /\ ~Tests!Pending(test))) /\ Tests!Takes(c)
  <2>1. CASE test = None
    BY <2>1 DEF Tests!Look
  <2>2. CASE test # None
    <3>1. PICK live \in Tests!HeldLive :
            IF live THEN Tests!Over(c)
            ELSE IF Tests!Pending(test) THEN testCmd' = [testCmd EXCEPT ![c].at = "ask", ![c].copy = test]
            ELSE Tests!Takes(c)
      BY <2>2 DEF Tests!Look
    <3>2. CASE live = TRUE
      BY <3>1, <3>2
    <3>3. CASE live = FALSE
      BY <2>2, <3>1, <3>3
    <3>. QED BY <1>0, <3>2, <3>3, LiveOrNot
  <2>. QED BY <2>1, <2>2
<1>3. /\ testCmd' \in [Cmd -> Tests!Command] /\ TestMoves(c) /\ testCmd'[c].at \in {"idle", "ask", "take"}
      /\ testCmd'[c].at = "ask" => test # None /\ testCmd'[c].copy = test /\ test.job \in Tests!Job
      /\ testCmd'[c].at = "take" => test = None \/ (FALSE \in Tests!HeldLive /\ ~Tests!Pending(test))
  <2>1. CASE Tests!Over(c)
    BY <1>0, <2>1, Overs, TestConsts
  <2>2. CASE test # None /\ Tests!Pending(test) /\ testCmd' = [testCmd EXCEPT ![c].at = "ask", ![c].copy = test]
    <3>1. test \in Tests!Record /\ test.job \in Tests!Job /\ "ask" \in Tests!CmdSteps
      BY <1>0, <2>2 DEF Tests!TypeOK, Tests!Pending, Tests!Record, Tests!CmdSteps
    <3>2. testCmd' \in [Cmd -> Tests!Command] /\ testCmd'[c].at = "ask" /\ testCmd'[c].copy = test /\ TestMoves(c)
      BY <1>0, <2>2, <3>1, Carries
    <3>. QED BY <2>2, <3>1, <3>2
  <2>3. CASE (test = None \/ (FALSE \in Tests!HeldLive /\ ~Tests!Pending(test))) /\ Tests!Takes(c)
    BY <1>0, <2>3, TakesOn
  <2>. QED BY <1>2, <2>1, <2>2, <2>3
<1>4. Tests!TypeOK'
  BY <1>0, <1>1, <1>3 DEF Tests!TypeOK, Tests!stored
<1>5. TestAtInv'
  BY <1>0, <1>1, <1>3, AtCmd DEF Placed
<1>6. ASSUME ~testMissed' PROVE TestCore'
  <2>1. TestCore
    BY <1>1, <1>6 DEF TestInv
  <2>2. testDir /\ (test # None /\ test.settled => test.job \in Tests!Job /\ testJobs[test.job].st = "gone")
    BY <1>0, <2>1 DEF TestCore, CopyInv, CopyAt, RecordInv
  <2>3. ASSUME testCmd'[c].at = "take" PROVE Calm
    <3>1. test # None => test.job = None \/ ~Tests!Listed(test.job)
      BY <1>3, <2>2, <2>3 DEF Tests!Pending, Tests!Listed
    <3>2. NoneLeft
      BY <1>0, <2>1, <3>1, NoneButRecorded
    <3>3. \A d \in Cmd : testRun[d].at = "none"
      <4>1. CASE test = None
        BY <2>1, <4>1 DEF TestCore, ExecInv
      <4>2. CASE FALSE \in Tests!HeldLive
        BY <1>0, <4>2, NotLive, NoFront
      <4>. QED BY <1>3, <2>3, <4>1, <4>2
    <3>. QED BY <1>0, <3>2, <3>3, CalmWhen
  <2>4. Calm => Calm'
    BY <1>1 DEF Calm, NoneLeft, Tests!Listed
  <2>5. CopyAt(c)'
    BY <1>1, <1>3, <2>2, <2>3, <2>4 DEF CopyAt, Tests!stored
  <2>. QED BY <1>0, <1>1, <1>3, <2>1, <2>5, CoreLook
<1>. QED BY <1>4, <1>5, <1>6 DEF TestInv

LEMMA AskKeeps ==
  ASSUME TestInv, NEW c \in Cmd, Tests!Ask(c)
  PROVE  TestInv'
<1>0. Tests!TypeOK /\ TestAtInv /\ TestAlone(c) /\ testCmd[c].at = "ask"
  BY NobodyElse DEF TestInv, Tests!Ask
<1>j. PICK j \in Tests!Job : j = testCmd[c].copy.job
  BY <1>0 DEF TestAtInv
<1>1. UNCHANGED <<Tests!stored, testMissed, testRequeues>>
  BY DEF Tests!Ask, Tests!counts
<1>2. /\ \/ ~Tests!Listed(j) /\ Tests!Takes(c) /\ UNCHANGED Tests!outside
         \/ Tests!Stopped(j) /\ Tests!Takes(c)
         \/ Tests!Over(c) /\ UNCHANGED Tests!outside
      /\ testFails' = testFails \/ (testFails < MaxFails /\ testFails' = testFails + 1)
  BY <1>j DEF Tests!Ask, Tests!Answered, Tests!Unanswered
<1>3. testCmd' \in [Cmd -> Tests!Command] /\ TestMoves(c) /\ testCmd'[c].at \in {"idle", "take"}
  BY <1>0, <1>2, TakesOn, Overs, TestConsts
<1>4. /\ testJobs' \in [Tests!Job -> Tests!Entry] /\ testRun' \in [Cmd \cup Tests!Job -> Tests!Process] /\ testCorpse' \in BOOLEAN
      /\ \A p \in Cmd \cup Tests!Job : testRun'[p] = testRun[p] \/ (p \in Tests!Job /\ testRun'[p].at = "none")
      /\ \A k \in Tests!Job : testJobs'[k] = testJobs[k] \/ (testJobs'[k].st = "gone" /\ testRun'[k].at = "none")
      /\ testCmd'[c].at = "take" => ~Tests!Listed(j)'
  <2>1. CASE UNCHANGED Tests!outside /\ (Tests!Over(c) \/ ~Tests!Listed(j))
    <3>1. Tests!Over(c) => testCmd'[c].at = "idle"
      BY <1>0, Overs, TestConsts
    <3>. QED BY <1>0, <2>1, <3>1 DEF Tests!TypeOK, Tests!outside, Tests!Listed
  <2>2. CASE Tests!Stopped(j)
    <3>2. /\ testJobs' \in [Tests!Job -> Tests!Entry] /\ JobMoves(j) /\ testJobs'[j].st = "gone"
          /\ testRun' \in [Cmd \cup Tests!Job -> Tests!Process] /\ RunMoves(j) /\ testCorpse' \in BOOLEAN
          /\ testRun'[j].at = "none"
      BY <1>0, <2>2, JobStops, TestConsts
    <3>3. \A p \in Cmd \cup Tests!Job : testRun'[p] = testRun[p] \/ (p \in Tests!Job /\ testRun'[p].at = "none")
      BY <3>2 DEF RunMoves
    <3>4. \A k \in Tests!Job : testJobs'[k] = testJobs[k] \/ (testJobs'[k].st = "gone" /\ testRun'[k].at = "none")
      BY <3>2 DEF JobMoves
    <3>. QED BY <3>2, <3>3, <3>4 DEF Tests!Listed
  <2>. QED BY <1>2, <2>1, <2>2
<1>5. Tests!TypeOK'
  <2>1. testFails' \in 0 .. MaxFails
    BY <1>0, <1>2, TestConsts DEF Tests!TypeOK
  <2>. QED BY <1>0, <1>1, <1>3, <1>4, <2>1 DEF Tests!TypeOK, Tests!stored
<1>6. TestAtInv'
  BY <1>0, <1>3, <1>4, AtCmd DEF Placed
<1>7. ASSUME ~testMissed' PROVE TestCore'
  <2>1. TestCore
    BY <1>1, <1>7 DEF TestInv
  <2>2. testDir /\ test # None /\ test.job = j
    BY <1>0, <1>j, <2>1 DEF TestCore, CopyInv, CopyAt
  <2>3. ASSUME testCmd'[c].at = "take" PROVE Calm'
    <3>1. \A d \in Cmd : testCmd[d].at # "record"
      BY <1>0 DEF TestAlone, Leads
    <3>2. \A k \in Tests!Job : Tests!Listed(k) => k = j
      BY <2>1, <2>2, <3>1 DEF TestCore, RecordInv, Recorder
    <3>3. NoneLeft'
      BY <1>4, <2>3, <3>2 DEF NoneLeft, Tests!Listed
    <3>4. \A d \in Cmd : testRun[d].at = "none"
      BY <1>0, <2>1, <2>2, TestConsts DEF TestCore, ExecInv
    <3>5. \A d \in Cmd : testRun'[d].at = "none"
      BY <1>4, <3>4
    <3>6. \A k \in Tests!Job : testRun'[k].at = "none"
      BY <1>6, <3>3 DEF TestAtInv, NoneLeft, Tests!Listed
    <3>. QED BY <3>3, <3>5, <3>6 DEF Calm
  <2>4. CopyAt(c)'
    BY <1>1, <1>3, <2>2, <2>3 DEF CopyAt, Tests!stored
  <2>. QED BY <1>0, <1>1, <1>3, <1>4, <2>1, <2>4, CoreLook
<1>. QED BY <1>5, <1>6, <1>7 DEF TestInv

LEMMA TakeKeeps ==
  ASSUME TestInv, NEW c \in Cmd, Tests!Take(c)
  PROVE  TestInv'
<1>0. Tests!TypeOK /\ TestAtInv /\ TestAlone(c) /\ testCmd[c].at = "take"
  BY NobodyElse DEF TestInv, Tests!Take
<1>1. UNCHANGED <<testDir, testListed, test, testJobs, testRun, testCorpse, testMissed, testRequeues, testFails>>
  BY DEF Tests!Take, Tests!outside, Tests!counts
<1>2. /\ testCmd' \in [Cmd -> Tests!Command] /\ TestMoves(c) /\ testCmd'[c].at \in {"idle", "write"}
      /\ testCmd'[c].at = "write" => testDir /\ testCmd'[c].set \in Tests!Set /\ testActive' = testCmd'[c].set
      /\ testActive' \in Tests!Set \cup {None} /\ testSets' \in 0 .. MaxSets
  <2>1. CASE Tests!Over(c) /\ UNCHANGED <<testSets, testActive>>
    BY <1>0, <2>1, Overs, TestConsts DEF Tests!TypeOK
  <2>2. CASE testDir /\ \E s \in Tests!Set :
               /\ testCmd' = [testCmd EXCEPT ![c].at = "write", ![c].force = FALSE, ![c].set = s]
               /\ testActive' = s
               /\ testSets' = IF s = testSets THEN testSets + 1 ELSE testSets
    <3>1. PICK s \in Tests!Set :
            /\ testCmd' = [testCmd EXCEPT ![c].at = "write", ![c].force = FALSE, ![c].set = s]
            /\ testActive' = s
            /\ testSets' = IF s = testSets THEN testSets + 1 ELSE testSets
      BY <2>2
    <3>. DEFINE x == [testCmd[c] EXCEPT !.at = "write", !.force = FALSE, !.set = s]
    <3>2. testCmd[c] \in Tests!Command
      BY <1>0 DEF Tests!TypeOK
    <3>3. x \in Tests!Command /\ x.at = "write" /\ x.set = s
      BY <3>2 DEF Tests!Command, Tests!CmdSteps
    <3>4. testCmd' = [testCmd EXCEPT ![c] = x]
      BY <3>1, <3>2
    <3>. HIDE DEF x
    <3>5. testCmd' \in [Cmd -> Tests!Command] /\ TestMoves(c) /\ testCmd'[c] = x
      BY <1>0, <3>3, <3>4, OneCmd
    <3>6. testSets' \in 0 .. MaxSets
      BY <1>0, <3>1, TestConsts DEF Tests!TypeOK, Tests!Set
    <3>. QED BY <2>2, <3>1, <3>3, <3>5, <3>6
  <2>. QED BY <2>1, <2>2 DEF Tests!Take
<1>3. Tests!TypeOK'
  BY <1>0, <1>1, <1>2 DEF Tests!TypeOK
<1>4. TestAtInv'
  BY <1>0, <1>1, <1>2, AtCmd DEF Placed
<1>5. ASSUME ~testMissed' PROVE TestCore'
  <2>1. TestCore
    BY <1>1, <1>5 DEF TestInv
  <2>2. Calm
    BY <1>0, <2>1 DEF TestCore, CopyInv, CopyAt
  <2>3. Calm'
    BY <1>1, <2>2 DEF Calm, NoneLeft, Tests!Listed
  <2>4. CopyAt(c)'
    BY <1>1, <1>2, <2>3 DEF CopyAt
  <2>5. /\ test # None => testDir
        /\ testDir => testListed
        /\ test # None /\ test.settled => test.job \in Tests!Job /\ testJobs[test.job].st = "gone"
    BY <2>1 DEF TestCore, RecordInv
  <2>. QED BY <1>0, <1>1, <1>2, <2>2, <2>4, <2>5, CoreCalm
<1>. QED BY <1>3, <1>4, <1>5 DEF TestInv

LEMMA WriteKeeps ==
  ASSUME TestInv, NEW c \in Cmd, Tests!Write(c)
  PROVE  TestInv'
<1>0. Tests!TypeOK /\ TestAtInv /\ TestAlone(c) /\ testCmd[c].at = "write" /\ testCmd[c].set \in Tests!Set
  BY NobodyElse DEF TestInv, Tests!Write, TestAtInv
<1>1. UNCHANGED <<testDir, testListed, testSets, testActive, testJobs, testCorpse, testMissed, testRequeues, testFails>>
  BY DEF Tests!Write, Tests!counts
<1>2. ASSUME ~testMissed PROVE TestCore /\ Calm /\ testActive = testCmd[c].set
  BY <1>0, <1>2 DEF TestInv, TestCore, CopyInv, CopyAt
<1>3. CASE ~testDir
  <2>1. Tests!Over(c) /\ UNCHANGED <<test, testRun>>
    BY <1>3 DEF Tests!Write
  <2>2. testCmd' \in [Cmd -> Tests!Command] /\ TestMoves(c) /\ testCmd'[c].at = "idle"
    BY <1>0, <2>1, Overs, TestConsts
  <2>3. Tests!TypeOK' /\ TestAtInv'
    BY <1>0, <1>1, <2>1, <2>2, AtCmd DEF Tests!TypeOK, Placed
  <2>4. ASSUME ~testMissed' PROVE TestCore'
    <3>1. CopyAt(c)'
      BY <2>2 DEF CopyAt
    <3>. QED BY <1>0, <1>1, <1>2, <2>1, <2>2, <2>4, <3>1, CoreLook DEF Tests!stored
  <2>. QED BY <2>3, <2>4 DEF TestInv
<1>4. CASE testDir /\ ~testCmd[c].front
  <2>1. test' = Tests!Fresh /\ testCmd' = [testCmd EXCEPT ![c].at = "submit"] /\ UNCHANGED testRun
    BY <1>4 DEF Tests!Write
  <2>2. testCmd' \in [Cmd -> Tests!Command] /\ TestMoves(c) /\ testCmd'[c].at = "submit" /\ testCmd'[c].set = testCmd[c].set
    <3>. DEFINE x == [testCmd[c] EXCEPT !.at = "submit"]
    <3>1. x \in Tests!Command /\ x.at = "submit" /\ x.set = testCmd[c].set
      BY <1>0 DEF Tests!TypeOK, Tests!Command, Tests!CmdSteps
    <3>2. testCmd' = [testCmd EXCEPT ![c] = x]
      BY <2>1
    <3>. HIDE DEF x
    <3>. QED BY <1>0, <3>1, <3>2, OneCmd
  <2>3. Tests!TypeOK'
    BY <1>0, <1>1, <2>1, <2>2, TestConsts DEF Tests!TypeOK
  <2>4. TestAtInv'
    BY <1>0, <1>1, <2>1, <2>2, AtCmd DEF Placed
  <2>5. ASSUME ~testMissed' PROVE TestCore'
    <3>1. Calm'
      BY <1>1, <1>2, <2>1, <2>5 DEF Calm, NoneLeft, Tests!Listed
    <3>2. CopyAt(c)'
      BY <1>1, <1>2, <1>4, <2>2, <2>5, <3>1 DEF CopyAt
    <3>3. testDir => testListed
      BY <1>1, <1>2, <2>5 DEF TestCore, RecordInv
    <3>. QED BY <1>0, <1>1, <1>2, <1>4, <2>1, <2>2, <2>5, <3>2, <3>3, CoreCalm, TestConsts
  <2>. QED BY <2>3, <2>4, <2>5 DEF TestInv
<1>5. CASE testDir /\ testCmd[c].front
  <2>. DEFINE y == [at |-> "begin", copy |-> Tests!Fresh, set |-> testCmd[c].set]
  <2>1. test' = Tests!Fresh /\ Tests!Goto(c, "front") /\ testRun' = [testRun EXCEPT ![c] = y]
    BY <1>5 DEF Tests!Write
  <2>2. testCmd' \in [Cmd -> Tests!Command] /\ TestMoves(c) /\ testCmd'[c].at = "front"
    BY <1>0, <2>1, Gotos DEF Tests!CmdSteps
  <2>3. y \in Tests!Process /\ y.at = "begin" /\ y.copy = Tests!Fresh /\ y.set = testCmd[c].set
    BY <1>0, TestConsts DEF Tests!Process, Tests!RunSteps
  <2>. HIDE DEF y
  <2>4. testRun' \in [Cmd \cup Tests!Job -> Tests!Process] /\ testRun'[c] = y /\ RunMoves(c)
    BY <1>0, <2>1, <2>3, OneRun
  <2>5. Tests!TypeOK'
    BY <1>0, <1>1, <2>1, <2>2, <2>4, TestConsts DEF Tests!TypeOK
  <2>6. TestAtInv'
    <3>1. \A d, e \in Cmd : d = e \/ testCmd'[d].at = "idle" \/ testCmd'[e].at = "idle" \/ Leads(d)' \/ Leads(e)'
      BY <1>0, <2>2, <2>4 DEF TestAtInv, TestAlone, Leads, TestMoves, RunMoves
    <3>2. \A d \in Cmd : testRun'[d].at # "wait" /\ (testRun'[d].at # "none" <=> testCmd'[d].at = "front")
      BY <1>0, <2>2, <2>3, <2>4 DEF TestAtInv, TestMoves, RunMoves
    <3>3. /\ \A d \in Cmd : testCmd'[d].at \in {"write", "submit"} => testCmd'[d].set \in Tests!Set
          /\ \A d \in Cmd : testCmd'[d].at = "record" => testCmd'[d].job \in Tests!Job
          /\ \A d \in Cmd : testCmd'[d].at \in {"ask", "mark"} => testCmd'[d].copy.job \in Tests!Job
      BY <1>0, <2>2 DEF TestAtInv, TestMoves
    <3>4. /\ \A j \in Tests!Job : testRun'[j].at # "none" => testJobs'[j].st = "running"
          /\ \A j \in Tests!Job : Tests!Listed(j)' => testJobs'[j].set \in Tests!Set
          /\ \A p \in Cmd \cup Tests!Job : testRun'[p].at # "none" => testRun'[p].set \in Tests!Set
      BY <1>0, <1>1, <2>3, <2>4, TestConsts DEF TestAtInv, Tests!Listed, RunMoves
    <3>. QED BY <3>1, <3>2, <3>3, <3>4 DEF TestAtInv
  <2>7. ASSUME ~testMissed' PROVE TestCore'
    <3>1. TestCore /\ Calm /\ testActive = testCmd[c].set
      BY <1>1, <1>2, <2>7
    <3>2. RecordInv'
      BY <1>1, <1>5, <2>1, <3>1, TestConsts DEF TestCore, RecordInv, Calm, NoneLeft,
         Tests!Listed
    <3>3. CopyInv'
      <4>1. CopyAt(c)'
        BY <2>2 DEF CopyAt
      <4>. QED BY <1>0, <2>2, <4>1, OthersCopy
    <3>4. ExecInv'
      <4>1. \A p \in Cmd \cup Tests!Job : p = c \/ testRun'[p].at = "none"
        BY <2>4, <3>1 DEF Calm, RunMoves
      <4>. QED BY <1>1, <2>1, <2>3, <2>4, <3>1, <4>1, TestConsts DEF ExecInv
    <3>. QED BY <3>2, <3>3, <3>4 DEF TestCore
  <2>. QED BY <2>5, <2>6, <2>7 DEF TestInv
<1>. QED BY <1>3, <1>4, <1>5

LEMMA TestSubmitKeeps ==
  ASSUME TestInv, NEW c \in Cmd, Tests!Submit(c)
  PROVE  TestInv'
<1>0. Tests!TypeOK /\ TestAtInv /\ TestAlone(c) /\ testCmd[c].at = "submit" /\ testCmd[c].set \in Tests!Set
  BY NobodyElse DEF TestInv, Tests!Submit, TestAtInv
<1>1. UNCHANGED <<testDir, testListed, test, testSets, testActive, testRun, testCorpse, testMissed, testRequeues, testFails>>
  BY DEF Tests!Submit, Tests!stored, Tests!counts
<1>2. PICK j \in Tests!Job :
        /\ \A k \in Tests!Job : (testJobs[k].st = "none") <=> (k >= j)
        /\ testJobs' = [testJobs EXCEPT ![j] = [st |-> "queued", set |-> testCmd[c].set]]
        /\ testCmd' = [testCmd EXCEPT ![c] = [Tests!Idle EXCEPT !.at = "record", !.job = j]]
  BY DEF Tests!Submit
<1>3. testCmd' \in [Cmd -> Tests!Command] /\ TestMoves(c) /\ testCmd'[c].at = "record" /\ testCmd'[c].job = j
  <2>. DEFINE x == [Tests!Idle EXCEPT !.at = "record", !.job = j]
  <2>1. x \in Tests!Command /\ x.at = "record" /\ x.job = j
    BY TestConsts DEF Tests!Command, Tests!CmdSteps
  <2>. HIDE DEF x
  <2>. QED BY <1>0, <1>2, <2>1, OneCmd DEF x
<1>4. testJobs' \in [Tests!Job -> Tests!Entry] /\ JobMoves(j) /\ testJobs'[j].st = "queued" /\ testJobs'[j].set \in Tests!Set
  <2>. DEFINE x == [st |-> "queued", set |-> testCmd[c].set]
  <2>1. x \in Tests!Entry /\ x.st = "queued" /\ x.set \in Tests!Set
    BY <1>0 DEF Tests!Entry
  <2>. HIDE DEF x
  <2>. QED BY <1>0, <1>2, <2>1, OneJob DEF x
<1>5. testJobs[j].st = "none" /\ testRun[j].at = "none"
  <2>1. j >= j
    BY TestConsts DEF Tests!Job
  <2>. QED BY <1>0, <1>2, <2>1 DEF TestAtInv
<1>6. Tests!TypeOK'
  BY <1>0, <1>1, <1>3, <1>4 DEF Tests!TypeOK
<1>7. TestAtInv'
  <2>1. \A d, e \in Cmd : d = e \/ testCmd'[d].at = "idle" \/ testCmd'[e].at = "idle" \/ Leads(d)' \/ Leads(e)'
    BY <1>0, <1>1, <1>3 DEF TestAtInv, TestAlone, Leads, TestMoves
  <2>2. \A d \in Cmd : testRun'[d].at # "wait" /\ (testRun'[d].at # "none" <=> testCmd'[d].at = "front")
    BY <1>0, <1>1, <1>3 DEF TestAtInv, TestMoves
  <2>3. /\ \A d \in Cmd : testCmd'[d].at \in {"write", "submit"} => testCmd'[d].set \in Tests!Set
        /\ \A d \in Cmd : testCmd'[d].at = "record" => testCmd'[d].job \in Tests!Job
        /\ \A d \in Cmd : testCmd'[d].at \in {"ask", "mark"} => testCmd'[d].copy.job \in Tests!Job
    BY <1>0, <1>3 DEF TestAtInv, TestMoves
  <2>4. /\ \A k \in Tests!Job : testRun'[k].at # "none" => testJobs'[k].st = "running"
        /\ \A k \in Tests!Job : Tests!Listed(k)' => testJobs'[k].set \in Tests!Set
        /\ \A p \in Cmd \cup Tests!Job : testRun'[p].at # "none" => testRun'[p].set \in Tests!Set
    BY <1>0, <1>1, <1>4, <1>5 DEF TestAtInv, Tests!Listed, JobMoves
  <2>. QED BY <2>1, <2>2, <2>3, <2>4 DEF TestAtInv
<1>8. ASSUME ~testMissed' PROVE TestCore'
  <2>1. TestCore
    BY <1>1, <1>8 DEF TestInv
  <2>2. Calm /\ testDir
    BY <1>0, <2>1 DEF TestCore, CopyInv, CopyAt
  <2>3. \A k \in Tests!Job : Tests!Listed(k)' => k = j
    BY <1>4, <2>2 DEF Calm, NoneLeft, Tests!Listed, JobMoves
  <2>4. RecordInv'
    <3>1. Recorder(j)'
      BY <1>3 DEF Recorder
    <3>2. test # None /\ test.settled => test.job \in Tests!Job /\ testJobs'[test.job].st = "gone"
      BY <1>4, <1>5, <2>1 DEF TestCore, RecordInv, JobMoves
    <3>. QED BY <1>1, <2>1, <2>2, <2>3, <3>1, <3>2 DEF TestCore, RecordInv
  <2>5. CopyInv'
    <3>1. CopyAt(c)'
      BY <1>1, <1>3, <2>2, <2>3 DEF CopyAt, Calm
    <3>. QED BY <1>0, <1>3, <3>1, OthersCopy
  <2>6. ExecInv'
    BY <1>1, <2>1 DEF TestCore, ExecInv
  <2>. QED BY <2>4, <2>5, <2>6 DEF TestCore
<1>. QED BY <1>6, <1>7, <1>8 DEF TestInv

LEMMA RecordJobKeeps ==
  ASSUME TestInv, NEW c \in Cmd, Tests!RecordJob(c)
  PROVE  TestInv'
<1>0. Tests!TypeOK /\ TestAtInv /\ TestAlone(c) /\ testCmd[c].at = "record"
  BY NobodyElse DEF TestInv, Tests!RecordJob
<1>1. /\ UNCHANGED <<testDir, testListed, testSets, testActive, testJobs, testRun, testCorpse, testMissed, testRequeues, testFails>>
      /\ Tests!Over(c) /\ test' = IF testDir THEN [Tests!Fresh EXCEPT !.job = testCmd[c].job] ELSE test
  BY DEF Tests!RecordJob, Tests!outside, Tests!counts
<1>2. testCmd' \in [Cmd -> Tests!Command] /\ TestMoves(c) /\ testCmd'[c].at = "idle"
  BY <1>0, <1>1, Overs, TestConsts
<1>3. PICK j \in Tests!Job : j = testCmd[c].job
  BY <1>0 DEF TestAtInv
<1>4. testDir => test' \in Tests!Record /\ test'.job = j /\ ~test'.settled /\ test' # None
  BY <1>1, <1>3, TestConsts DEF Tests!Record
<1>5. Tests!TypeOK'
  BY <1>0, <1>1, <1>2, <1>4 DEF Tests!TypeOK
<1>6. TestAtInv'
  BY <1>0, <1>1, <1>2, AtCmd DEF Placed
<1>7. ASSUME ~testMissed' PROVE TestCore'
  <2>1. TestCore
    BY <1>1, <1>7 DEF TestInv
  <2>2. /\ testDir
        /\ \A k \in Tests!Job : Tests!Listed(k) => k = j
        /\ \A p \in Cmd \cup Tests!Job : testRun[p].at # "none" => p = j /\ testRun[p].at = "wait"
    BY <1>0, <1>3, <2>1 DEF TestCore, CopyInv, CopyAt
  <2>3. RecordInv'
    BY <1>1, <1>4, <2>1, <2>2 DEF TestCore, RecordInv, Tests!Listed
  <2>4. CopyInv'
    <3>1. CopyAt(c)'
      BY <1>2 DEF CopyAt
    <3>. QED BY <1>0, <1>2, <3>1, OthersCopy
  <2>5. ExecInv'
    BY <1>1, <2>2, TestConsts DEF ExecInv
  <2>. QED BY <2>3, <2>4, <2>5 DEF TestCore
<1>. QED BY <1>5, <1>6, <1>7 DEF TestInv

LEMMA TestDieKeeps ==
  ASSUME TestInv, NEW c \in Cmd, Tests!Die(c)
  PROVE  TestInv'
<1>0. Tests!TypeOK /\ TestAtInv /\ testCmd[c].at # "record"
  BY TestConsts DEF TestInv, Tests!Die
<1>1. UNCHANGED <<Tests!stored, testJobs, testMissed, testRequeues, testFails>> /\ Tests!Over(c) /\ Tests!Killed(c)
  BY DEF Tests!Die, Tests!counts
<1>2. testCmd' \in [Cmd -> Tests!Command] /\ TestMoves(c) /\ testCmd'[c] = Tests!Idle /\ testCmd'[c].at = "idle"
  BY <1>0, <1>1, Overs, TestConsts
<1>3. testRun' \in [Cmd \cup Tests!Job -> Tests!Process] /\ RunMoves(c) /\ testRun'[c].at = "none" /\ testCorpse' \in BOOLEAN
  BY <1>0, <1>1, Kills, TestConsts
<1>4. Tests!TypeOK'
  BY <1>0, <1>1, <1>2, <1>3 DEF Tests!TypeOK, Tests!stored
<1>5. TestAtInv'
  BY <1>0, <1>1, <1>2, <1>3, AtRun
<1>6. ASSUME ~testMissed' PROVE TestCore'
  <2>1. TestCore
    BY <1>1, <1>6 DEF TestInv
  <2>2. \A p \in Cmd \cup Tests!Job : testRun'[p] = testRun[p] \/ testRun'[p].at = "none"
    BY <1>3 DEF RunMoves
  <2>3. RecordInv'
    <3>1. \A j \in Tests!Job : Recorder(j) => Recorder(j)'
      BY <1>0, <1>2 DEF Recorder, TestMoves
    <3>. QED BY <1>1, <2>1, <3>1 DEF TestCore, RecordInv, Tests!stored, Tests!Listed
  <2>4. CopyInv'
    <3>. SUFFICES ASSUME NEW d \in Cmd PROVE CopyAt(d)'
      BY DEF CopyInv
    <3>1. CASE d = c
      BY <1>2, <3>1 DEF CopyAt
    <3>2. CASE d # c
      <4>1. CopyAt(d) /\ testCmd'[d] = testCmd[d]
        BY <1>2, <2>1, <3>2 DEF TestCore, CopyInv, TestMoves
      <4>2. Calm => Calm'
        BY <1>1, <2>2 DEF Calm, NoneLeft, Tests!Listed
      <4>. QED BY <1>1, <2>2, <4>1, <4>2 DEF CopyAt, Tests!stored, Tests!Listed
    <3>. QED BY <3>1, <3>2
  <2>5. ExecInv'
    BY <1>1, <2>1, <2>2 DEF TestCore, ExecInv, Tests!stored
  <2>. QED BY <2>3, <2>4, <2>5 DEF TestCore
<1>. QED BY <1>4, <1>5, <1>6 DEF TestInv

-----------------------------------------------------------------------------
(* What is left once the job on record is not listed.                      *)
LEMMA CalmAfter ==
  ASSUME Tests!TypeOK, TestAtInv, TestCore, TestAtInv', NEW c \in Cmd, testCmd[c].at \notin {"front", "record"}, TestAlone(c),
         NEW j \in Tests!Job, test # None, test.job = j, testJobs'[j].st \notin {"queued", "running"},
         \A p \in Cmd \cup Tests!Job : testRun'[p] = testRun[p] \/ (p \in Tests!Job /\ testRun'[p].at = "none"),
         \A k \in Tests!Job : testJobs'[k] = testJobs[k] \/ (testJobs'[k].st = "gone" /\ testRun'[k].at = "none")
  PROVE  Calm'
<1>1. \A d \in Cmd : testCmd[d].at # "record"
  BY DEF TestAlone, Leads
<1>2. \A k \in Tests!Job : Tests!Listed(k) => k = j
  BY <1>1 DEF TestCore, RecordInv, Recorder
<1>3. NoneLeft'
  BY <1>2 DEF NoneLeft, Tests!Listed
<1>4. \A d \in Cmd : testRun'[d].at = "none"
  BY TestConsts DEF TestCore, ExecInv
<1>5. \A k \in Tests!Job : testRun'[k].at = "none"
  BY <1>3 DEF TestAtInv, NoneLeft, Tests!Listed
<1>. QED BY <1>3, <1>4, <1>5 DEF Calm

LEMMA StopOpensKeeps ==
  ASSUME TestInv, NEW c \in Cmd, Tests!StopOpens(c)
  PROVE  TestInv'
<1>0. Tests!TypeOK /\ TestAtInv /\ TestAlone(c) /\ testCmd[c].at = "idle" /\ test # None /\ test \in Tests!Record
  BY NobodyElse DEF TestInv, Tests!StopOpens, Tests!TypeOK
<1>1. UNCHANGED <<Tests!stored, testJobs, testRun, testCorpse, testMissed, testRequeues, testFails>>
  BY DEF Tests!StopOpens, Tests!outside, Tests!counts
<1>2. testCmd' \in [Cmd -> Tests!Command] /\ TestMoves(c) /\ testCmd'[c].at = "stop" /\ testCmd'[c].copy = test
  <2>. DEFINE x == [Tests!Idle EXCEPT !.at = "stop", !.copy = test]
  <2>1. x \in Tests!Command /\ x.at = "stop" /\ x.copy = test
    BY <1>0, TestConsts DEF Tests!Command, Tests!CmdSteps
  <2>2. testCmd' = [testCmd EXCEPT ![c] = x]
    BY DEF Tests!StopOpens
  <2>. HIDE DEF x
  <2>. QED BY <1>0, <2>1, <2>2, OneCmd
<1>3. Tests!TypeOK' /\ TestAtInv'
  BY <1>0, <1>1, <1>2, AtCmd DEF Tests!TypeOK, Tests!stored, Placed
<1>4. ASSUME ~testMissed' PROVE TestCore'
  <2>1. TestCore
    BY <1>1, <1>4 DEF TestInv
  <2>2. CopyAt(c)'
    BY <1>0, <1>1, <1>2, <2>1 DEF CopyAt, TestCore, RecordInv, Tests!stored
  <2>. QED BY <1>0, <1>1, <1>2, <2>1, <2>2, CoreLook
<1>. QED BY <1>3, <1>4 DEF TestInv

LEMMA StopJudgesKeeps ==
  ASSUME TestInv, NEW c \in Cmd, Tests!StopJudges(c)
  PROVE  TestInv'
<1>0. Tests!TypeOK /\ TestAtInv /\ TestAlone(c) /\ testCmd[c].at = "stop"
  BY NobodyElse DEF TestInv, Tests!StopJudges
<1>1. UNCHANGED <<Tests!stored, testMissed, testRequeues>>
  BY DEF Tests!StopJudges, Tests!counts
<1>2. PICK r \in Tests!Record : r = testCmd[c].copy
  BY <1>0 DEF Tests!TypeOK, Tests!Command
<1>3. \/ Tests!Over(c) /\ UNCHANGED <<Tests!outside, testFails>>
      \/ Tests!Pending(r) /\ (Tests!StopListed(c, r) \/ Tests!StopUnlisted(c, r))
      \/ Tests!Over(c) /\ UNCHANGED Tests!outside /\ Tests!Unanswered
  BY <1>2 DEF Tests!StopJudges
<1>4. /\ testFails' \in 0 .. MaxFails
      /\ testCmd' \in [Cmd -> Tests!Command] /\ TestMoves(c) /\ testCmd'[c].at \in {"idle", "mark"}
      /\ testCmd'[c].at = "mark" => Tests!Pending(r) /\ testCmd'[c].copy.job = r.job
      /\ \/ UNCHANGED Tests!outside /\ (testCmd'[c].at = "mark" =>
              ~Tests!Listed(r.job) /\ (testCmd'[c].copy.settled => r.settled))
         \/ Tests!Stopped(r.job) /\ Tests!Pending(r)
  <2>1. ASSUME Tests!Over(c)
        PROVE  testCmd' \in [Cmd -> Tests!Command] /\ TestMoves(c) /\ testCmd'[c].at = "idle"
    BY <1>0, <2>1, Overs, TestConsts
  <2>2. ASSUME NEW q \in Tests!Record, Tests!Marks(c, q)
        PROVE  testCmd' \in [Cmd -> Tests!Command] /\ TestMoves(c) /\ testCmd'[c].at = "mark" /\ testCmd'[c].copy = q
    BY <1>0, <2>2, Carries DEF Tests!Marks, Tests!CmdSteps
  <2>3. Tests!Answered \/ Tests!Unanswered \/ UNCHANGED testFails => testFails' \in 0 .. MaxFails
    BY <1>0, TestConsts DEF Tests!TypeOK, Tests!Answered, Tests!Unanswered
  <2>4. /\ [r EXCEPT !.ended = TRUE, !.settled = FALSE] \in Tests!Record
        /\ [r EXCEPT !.ended = TRUE, !.settled = FALSE].job = r.job
        /\ ~[r EXCEPT !.ended = TRUE, !.settled = FALSE].settled
        /\ [r EXCEPT !.settled = TRUE] \in Tests!Record
        /\ [r EXCEPT !.settled = TRUE].job = r.job
    BY DEF Tests!Record
  <2>5. CASE Tests!Over(c) /\ (UNCHANGED <<Tests!outside, testFails>> \/ (UNCHANGED Tests!outside /\ Tests!Unanswered))
    BY <2>1, <2>3, <2>5
  <2>6. CASE Tests!Pending(r) /\ Tests!StopUnlisted(c, r)
    <3>1. /\ ~Tests!Listed(r.job) /\ Tests!Answered /\ UNCHANGED Tests!outside
          /\ \/ Tests!Marks(c, [r EXCEPT !.ended = TRUE, !.settled = FALSE])
             \/ Tests!Marks(c, r)
             \/ Tests!Over(c)
      BY <2>6 DEF Tests!StopUnlisted
    <3>2. CASE Tests!Marks(c, [r EXCEPT !.ended = TRUE, !.settled = FALSE])
      BY <2>2, <2>3, <2>4, <2>6, <3>1, <3>2
    <3>3. CASE Tests!Marks(c, r)
      BY <2>2, <2>3, <2>6, <3>1, <3>3
    <3>4. CASE Tests!Over(c)
      BY <2>1, <2>3, <3>1, <3>4
    <3>. QED BY <3>1, <3>2, <3>3, <3>4
  <2>7. CASE Tests!Pending(r) /\ Tests!StopListed(c, r)
    <3>1. /\ Tests!Stopped(r.job) /\ (Tests!Answered \/ Tests!Unanswered)
          /\ \/ Tests!Marks(c, [r EXCEPT !.ended = TRUE, !.settled = FALSE])
             \/ Tests!Marks(c, [r EXCEPT !.settled = TRUE])
             \/ Tests!Over(c)
      BY <2>7 DEF Tests!StopListed
    <3>2. CASE Tests!Marks(c, [r EXCEPT !.ended = TRUE, !.settled = FALSE])
      BY <2>2, <2>3, <2>4, <2>7, <3>1, <3>2
    <3>3. CASE Tests!Marks(c, [r EXCEPT !.settled = TRUE])
      BY <2>2, <2>3, <2>4, <2>7, <3>1, <3>3
    <3>4. CASE Tests!Over(c)
      BY <2>1, <2>3, <2>7, <3>1, <3>4
    <3>. QED BY <3>1, <3>2, <3>3, <3>4
  <2>. QED BY <1>3, <2>5, <2>6, <2>7
<1>5. Tests!Pending(r) => r.job \in Tests!Job
  BY DEF Tests!Pending, Tests!Record
<1>6. /\ testJobs' \in [Tests!Job -> Tests!Entry] /\ testRun' \in [Cmd \cup Tests!Job -> Tests!Process] /\ testCorpse' \in BOOLEAN
      /\ \A p \in Cmd \cup Tests!Job : testRun'[p] = testRun[p] \/ (p \in Tests!Job /\ testRun'[p].at = "none")
      /\ \A k \in Tests!Job : testJobs'[k] = testJobs[k] \/ (testJobs'[k].st = "gone" /\ testRun'[k].at = "none")
      /\ testCmd'[c].at = "mark" =>
           /\ testJobs'[r.job].st \notin {"queued", "running"}
           /\ testCmd'[c].copy.settled => r.settled \/ testJobs'[r.job].st = "gone"
  <2>1. CASE UNCHANGED Tests!outside /\ (testCmd'[c].at = "mark" =>
               ~Tests!Listed(r.job) /\ (testCmd'[c].copy.settled => r.settled))
    BY <1>0, <2>1 DEF Tests!TypeOK, Tests!outside, Tests!Listed
  <2>2. CASE Tests!Stopped(r.job) /\ Tests!Pending(r)
    <3>1. r.job \in Tests!Job
      BY <1>5, <2>2
    <3>2. /\ testJobs' \in [Tests!Job -> Tests!Entry] /\ JobMoves(r.job) /\ testJobs'[r.job].st = "gone"
          /\ testRun' \in [Cmd \cup Tests!Job -> Tests!Process] /\ RunMoves(r.job) /\ testCorpse' \in BOOLEAN
          /\ testRun'[r.job].at = "none"
      BY <1>0, <2>2, <3>1, JobStops, TestConsts
    <3>3. \A p \in Cmd \cup Tests!Job : testRun'[p] = testRun[p] \/ (p \in Tests!Job /\ testRun'[p].at = "none")
      BY <3>1, <3>2 DEF RunMoves
    <3>4. \A k \in Tests!Job : testJobs'[k] = testJobs[k] \/ (testJobs'[k].st = "gone" /\ testRun'[k].at = "none")
      BY <3>1, <3>2 DEF JobMoves
    <3>. QED BY <3>2, <3>3, <3>4
  <2>. QED BY <1>4, <2>1, <2>2
<1>7. Tests!TypeOK'
  BY <1>0, <1>1, <1>4, <1>6 DEF Tests!TypeOK, Tests!stored
<1>8. TestAtInv'
  BY <1>0, <1>4, <1>5, <1>6, AtCmd DEF Placed
<1>9. ASSUME ~testMissed' PROVE TestCore'
  <2>1. TestCore
    BY <1>1, <1>9 DEF TestInv
  <2>2. /\ test # None /\ test.job = r.job
        /\ r.settled => r.job \in Tests!Job /\ testJobs[r.job].st = "gone"
    BY <1>0, <1>2, <2>1 DEF TestCore, CopyInv, CopyAt
  <2>3. ASSUME testCmd'[c].at = "mark" PROVE Calm'
    BY <1>0, <1>4, <1>5, <1>6, <1>8, <2>1, <2>2, <2>3, CalmAfter
  <2>4. CopyAt(c)'
    BY <1>1, <1>4, <1>5, <1>6, <2>2, <2>3 DEF CopyAt, Tests!stored
  <2>. QED BY <1>0, <1>1, <1>4, <1>6, <2>1, <2>4, CoreLook
<1>. QED BY <1>7, <1>8, <1>9 DEF TestInv

LEMMA StopMarksKeeps ==
  ASSUME TestInv, NEW c \in Cmd, Tests!StopMarks(c)
  PROVE  TestInv'
<1>0. Tests!TypeOK /\ TestAtInv /\ TestAlone(c) /\ testCmd[c].at = "mark" /\ testCmd[c].copy \in Tests!Record
  BY NobodyElse DEF TestInv, Tests!StopMarks, Tests!TypeOK, Tests!Command
<1>1. /\ UNCHANGED <<testDir, testListed, testSets, testActive, testJobs, testRun, testCorpse, testMissed, testRequeues, testFails>>
      /\ Tests!Over(c) /\ test' = IF testDir THEN testCmd[c].copy ELSE test
  BY DEF Tests!StopMarks, Tests!outside, Tests!counts
<1>2. testCmd' \in [Cmd -> Tests!Command] /\ TestMoves(c) /\ testCmd'[c].at = "idle"
  BY <1>0, <1>1, Overs, TestConsts
<1>3. Tests!TypeOK' /\ TestAtInv'
  BY <1>0, <1>1, <1>2, AtCmd DEF Tests!TypeOK, Placed
<1>4. ASSUME ~testMissed' PROVE TestCore'
  <2>1. TestCore /\ CopyAt(c)
    BY <1>1, <1>4 DEF TestInv, TestCore, CopyInv
  <2>2. /\ Calm /\ test # None
        /\ testCmd[c].copy.settled => testCmd[c].copy.job \in Tests!Job /\ testJobs[testCmd[c].copy.job].st = "gone"
    BY <1>0, <2>1 DEF CopyAt
  <2>3. testDir /\ testListed
    BY <2>1, <2>2 DEF TestCore, RecordInv
  <2>4. CopyAt(c)'
    BY <1>2 DEF CopyAt
  <2>. QED BY <1>0, <1>1, <1>2, <2>2, <2>3, <2>4, CoreCalm
<1>. QED BY <1>3, <1>4 DEF TestInv

LEMMA DeleteOpensKeeps ==
  ASSUME TestInv, NEW c \in Cmd, Tests!DeleteOpens(c)
  PROVE  TestInv'
<1>0. Tests!TypeOK /\ TestAtInv /\ TestAlone(c) /\ testCmd[c].at = "idle" /\ test # None /\ test \in Tests!Record
  BY NobodyElse DEF TestInv, Tests!DeleteOpens, Tests!TypeOK
<1>1. UNCHANGED <<Tests!stored, testJobs, testRun, testCorpse, testMissed, testRequeues, testFails>>
  BY DEF Tests!DeleteOpens, Tests!outside, Tests!counts
<1>2. testCmd' \in [Cmd -> Tests!Command] /\ TestMoves(c) /\ testCmd'[c].at = "clear" /\ testCmd'[c].copy = test
  <2>1. PICK force \in BOOLEAN :
          testCmd' = [testCmd EXCEPT ![c] = [Tests!Idle EXCEPT !.at = "clear", !.force = force, !.copy = test]]
    BY DEF Tests!DeleteOpens
  <2>. DEFINE x == [Tests!Idle EXCEPT !.at = "clear", !.force = force, !.copy = test]
  <2>2. x \in Tests!Command /\ x.at = "clear" /\ x.copy = test
    BY <1>0, TestConsts DEF Tests!Command, Tests!CmdSteps
  <2>3. testCmd' = [testCmd EXCEPT ![c] = x]
    BY <2>1
  <2>. HIDE DEF x
  <2>. QED BY <1>0, <2>2, <2>3, OneCmd
<1>3. Tests!TypeOK' /\ TestAtInv'
  BY <1>0, <1>1, <1>2, AtCmd DEF Tests!TypeOK, Tests!stored, Placed
<1>4. ASSUME ~testMissed' PROVE TestCore'
  <2>1. TestCore
    BY <1>1, <1>4 DEF TestInv
  <2>2. CopyAt(c)'
    BY <1>0, <1>1, <1>2, <2>1 DEF CopyAt, TestCore, RecordInv, Tests!stored
  <2>. QED BY <1>0, <1>1, <1>2, <2>1, <2>2, CoreLook
<1>. QED BY <1>3, <1>4 DEF TestInv

LEMMA TestPruneKeeps ==
  ASSUME TestInv, NEW c \in Cmd, Tests!Prune(c)
  PROVE  TestInv'
<1>1. /\ UNCHANGED <<testDir, test, testSets, testActive, testJobs, testRun, testCorpse, testCmd, testMissed, testRequeues, testFails>>
      /\ ~testDir /\ testListed' = FALSE
  BY DEF Tests!Prune, Tests!outside, Tests!counts
<1>2. Tests!TypeOK'
  BY <1>1 DEF TestInv, Tests!TypeOK
<1>3. TestAtInv'
  BY <1>1 DEF TestInv, TestAtInv, Leads, Tests!Listed
<1>4. Calm => Calm'
  BY <1>1 DEF Calm, NoneLeft, Tests!Listed
<1>5. ASSUME TestCore PROVE TestCore'
  BY <1>1, <1>4, <1>5 DEF TestCore, RecordInv, CopyInv, CopyAt, ExecInv, Tests!Listed, Recorder
<1>. QED BY <1>1, <1>2, <1>3, <1>5 DEF TestInv

LEMMA DeleteClearsKeeps ==
  ASSUME TestInv, NEW c \in Cmd, Tests!DeleteClears(c)
  PROVE  TestInv'
<1>0. Tests!TypeOK /\ TestAtInv /\ TestAlone(c) /\ testCmd[c].at = "clear"
  BY NobodyElse DEF TestInv, Tests!DeleteClears
<1>1. UNCHANGED <<Tests!stored, testRequeues>>
  BY DEF Tests!DeleteClears
<1>2. PICK r \in Tests!Record : r = testCmd[c].copy
  BY <1>0 DEF Tests!TypeOK, Tests!Command
<1>3. \/ Tests!Over(c) /\ UNCHANGED <<Tests!outside, testMissed, testFails>>
      \/ Tests!ClearUnlisted(c, r) \/ Tests!ClearListed(c, r) \/ Tests!ClearUnanswered(c, r)
  BY <1>2 DEF Tests!DeleteClears
<1>4. /\ testFails' \in 0 .. MaxFails /\ testMissed' \in BOOLEAN /\ (~testMissed' => ~testMissed)
      /\ testCmd' \in [Cmd -> Tests!Command] /\ TestMoves(c) /\ testCmd'[c].at \in {"idle", "remove"}
      /\ \/ /\ UNCHANGED Tests!outside
            /\ testCmd'[c].at = "remove" /\ ~testMissed' =>
                 /\ Tests!Pending(r) => ~Tests!Listed(r.job)
                 /\ Tests!Pending(r) \/ FALSE \in Tests!HeldLive
         \/ Tests!Stopped(r.job) /\ Tests!Pending(r)
  <2>1. ASSUME Tests!Over(c)
        PROVE  testCmd' \in [Cmd -> Tests!Command] /\ TestMoves(c) /\ testCmd'[c].at = "idle"
    BY <1>0, <2>1, Overs, TestConsts
  <2>2. ASSUME Tests!Goto(c, "remove")
        PROVE  testCmd' \in [Cmd -> Tests!Command] /\ TestMoves(c) /\ testCmd'[c].at = "remove"
    BY <1>0, <2>2, Gotos DEF Tests!CmdSteps
  <2>3. Tests!Answered \/ Tests!Unanswered \/ UNCHANGED testFails => testFails' \in 0 .. MaxFails
    BY <1>0, TestConsts DEF Tests!TypeOK, Tests!Answered, Tests!Unanswered
  <2>4. testMissed \in BOOLEAN
    BY <1>0 DEF Tests!TypeOK
  <2>5. CASE Tests!Over(c) /\ UNCHANGED <<Tests!outside, testMissed, testFails>>
    BY <2>1, <2>3, <2>4, <2>5
  <2>6. CASE Tests!ClearUnlisted(c, r)
    <3>1. /\ (Tests!Pending(r) => ~Tests!Listed(r.job)) /\ Tests!Answered /\ UNCHANGED <<Tests!outside, testMissed>>
          /\ \/ Tests!Over(c)
             \/ Tests!Goto(c, "remove") /\ (Tests!Pending(r) \/ FALSE \in Tests!HeldLive)
      BY <2>6 DEF Tests!ClearUnlisted, Tests!Unread
    <3>2. CASE Tests!Over(c)
      BY <2>1, <2>3, <2>4, <3>1, <3>2
    <3>3. CASE Tests!Goto(c, "remove") /\ (Tests!Pending(r) \/ FALSE \in Tests!HeldLive)
      BY <2>2, <2>3, <2>4, <3>1, <3>3
    <3>. QED BY <3>1, <3>2, <3>3
  <2>7. CASE Tests!ClearListed(c, r)
    <3>1. /\ Tests!Pending(r) /\ Tests!Answered /\ UNCHANGED testMissed
          /\ \/ Tests!Stopped(r.job) /\ Tests!Goto(c, "remove")
             \/ UNCHANGED Tests!outside /\ Tests!Over(c)
      BY <2>7 DEF Tests!ClearListed
    <3>2. CASE Tests!Stopped(r.job) /\ Tests!Goto(c, "remove")
      BY <2>2, <2>3, <2>4, <3>1, <3>2
    <3>3. CASE UNCHANGED Tests!outside /\ Tests!Over(c)
      BY <2>1, <2>3, <2>4, <3>1, <3>3
    <3>. QED BY <3>1, <3>2, <3>3
  <2>8. CASE Tests!ClearUnanswered(c, r)
    <3>1. /\ Tests!Unanswered /\ UNCHANGED Tests!outside
          /\ \/ Tests!Goto(c, "remove") /\ testMissed' = TRUE
             \/ Tests!Over(c) /\ UNCHANGED testMissed
      BY <2>8 DEF Tests!ClearUnanswered
    <3>2. CASE Tests!Goto(c, "remove") /\ testMissed' = TRUE
      BY <2>2, <2>3, <3>1, <3>2
    <3>3. CASE Tests!Over(c) /\ UNCHANGED testMissed
      BY <2>1, <2>3, <2>4, <3>1, <3>3
    <3>. QED BY <3>1, <3>2, <3>3
  <2>. QED BY <1>3, <2>5, <2>6, <2>7, <2>8
<1>5. Tests!Pending(r) => r.job \in Tests!Job
  BY DEF Tests!Pending, Tests!Record
<1>6. /\ testJobs' \in [Tests!Job -> Tests!Entry] /\ testRun' \in [Cmd \cup Tests!Job -> Tests!Process] /\ testCorpse' \in BOOLEAN
      /\ \A p \in Cmd \cup Tests!Job : testRun'[p] = testRun[p] \/ (p \in Tests!Job /\ testRun'[p].at = "none")
      /\ \A k \in Tests!Job : testJobs'[k] = testJobs[k] \/ (testJobs'[k].st = "gone" /\ testRun'[k].at = "none")
      /\ \/ /\ UNCHANGED Tests!outside
            /\ testCmd'[c].at = "remove" /\ ~testMissed' =>
                 /\ Tests!Pending(r) => ~Tests!Listed(r.job)
                 /\ Tests!Pending(r) \/ FALSE \in Tests!HeldLive
         \/ r.job \in Tests!Job /\ testJobs'[r.job].st = "gone"
  <2>1. CASE /\ UNCHANGED Tests!outside
             /\ testCmd'[c].at = "remove" /\ ~testMissed' =>
                  /\ Tests!Pending(r) => ~Tests!Listed(r.job)
                  /\ Tests!Pending(r) \/ FALSE \in Tests!HeldLive
    BY <1>0, <2>1 DEF Tests!TypeOK, Tests!outside
  <2>2. CASE Tests!Stopped(r.job) /\ Tests!Pending(r)
    <3>1. r.job \in Tests!Job
      BY <1>5, <2>2
    <3>2. /\ testJobs' \in [Tests!Job -> Tests!Entry] /\ JobMoves(r.job) /\ testJobs'[r.job].st = "gone"
          /\ testRun' \in [Cmd \cup Tests!Job -> Tests!Process] /\ RunMoves(r.job) /\ testCorpse' \in BOOLEAN
          /\ testRun'[r.job].at = "none"
      BY <1>0, <2>2, <3>1, JobStops, TestConsts
    <3>3. \A p \in Cmd \cup Tests!Job : testRun'[p] = testRun[p] \/ (p \in Tests!Job /\ testRun'[p].at = "none")
      BY <3>1, <3>2 DEF RunMoves
    <3>4. \A k \in Tests!Job : testJobs'[k] = testJobs[k] \/ (testJobs'[k].st = "gone" /\ testRun'[k].at = "none")
      BY <3>1, <3>2 DEF JobMoves
    <3>. QED BY <3>1, <3>2, <3>3, <3>4
  <2>. QED BY <1>4, <2>1, <2>2
<1>7. Tests!TypeOK'
  BY <1>0, <1>1, <1>4, <1>6 DEF Tests!TypeOK, Tests!stored
<1>8. TestAtInv'
  BY <1>0, <1>4, <1>6, AtCmd DEF Placed
<1>9. ASSUME ~testMissed' PROVE TestCore'
  <2>1. TestCore
    BY <1>4, <1>9 DEF TestInv
  <2>2. /\ test # None /\ test.job = r.job
        /\ r.settled => r.job \in Tests!Job /\ testJobs[r.job].st = "gone"
    BY <1>0, <1>2, <2>1 DEF TestCore, CopyInv, CopyAt
  <2>3. ASSUME testCmd'[c].at = "remove" PROVE Calm'
    <3>1. CASE r.job \in Tests!Job /\ testJobs'[r.job].st = "gone"
      BY <1>0, <1>6, <1>8, <2>1, <2>2, <3>1, CalmAfter
    <3>2. CASE /\ UNCHANGED Tests!outside
               /\ Tests!Pending(r) => ~Tests!Listed(r.job)
               /\ Tests!Pending(r) \/ FALSE \in Tests!HeldLive
      <4>1. r.job = None \/ ~Tests!Listed(r.job)
        BY <2>2, <3>2 DEF Tests!Pending, Tests!Listed
      <4>2. NoneLeft
        BY <1>0, <2>1, <2>2, <4>1, NoneButRecorded
      <4>3. \A d \in Cmd : testRun[d].at = "none"
        <5>1. CASE Tests!Pending(r)
          BY <1>5, <2>1, <2>2, <5>1, TestConsts DEF TestCore, ExecInv
        <5>2. CASE FALSE \in Tests!HeldLive
          BY <1>0, <5>2, NotLive, NoFront
        <5>. QED BY <3>2, <5>1, <5>2
      <4>4. Calm
        BY <1>0, <4>2, <4>3, CalmWhen
      <4>. QED BY <3>2, <4>4 DEF Calm, NoneLeft, Tests!Listed, Tests!outside
    <3>. QED BY <1>6, <1>9, <2>3, <3>1, <3>2
  <2>4. CopyAt(c)'
    BY <1>4, <2>3 DEF CopyAt
  <2>. QED BY <1>0, <1>1, <1>4, <1>6, <2>1, <2>4, CoreLook
<1>. QED BY <1>7, <1>8, <1>9 DEF TestInv

LEMMA DeleteRemovesKeeps ==
  ASSUME TestInv, NEW c \in Cmd, Tests!DeleteRemoves(c)
  PROVE  TestInv'
<1>0. Tests!TypeOK /\ TestAtInv /\ TestAlone(c) /\ testCmd[c].at = "remove"
  BY NobodyElse DEF TestInv, Tests!DeleteRemoves
<1>1. /\ UNCHANGED <<testListed, testJobs, testRun, testMissed, testRequeues, testFails>>
      /\ testDir' = FALSE /\ test' = None /\ testSets' = 0 /\ testActive' = None /\ testCorpse' = FALSE
      /\ Tests!Goto(c, "drop")
  BY DEF Tests!DeleteRemoves, Tests!counts
<1>2. testCmd' \in [Cmd -> Tests!Command] /\ TestMoves(c) /\ testCmd'[c].at = "drop"
  BY <1>0, <1>1, Gotos DEF Tests!CmdSteps
<1>z. 0 \in 0 .. MaxSets
  BY TestConsts
<1>a. Tests!TypeOK'
  BY <1>0, <1>1, <1>2, <1>z DEF Tests!TypeOK
<1>3. Tests!TypeOK' /\ TestAtInv'
  BY <1>0, <1>1, <1>2, <1>a, AtCmd DEF Placed
<1>4. ASSUME ~testMissed' PROVE TestCore'
  <2>1. Calm
    BY <1>0, <1>1, <1>4 DEF TestInv, TestCore, CopyInv, CopyAt
  <2>2. Calm'
    BY <1>1, <2>1 DEF Calm, NoneLeft, Tests!Listed
  <2>3. CopyAt(c)'
    BY <1>1, <1>2, <2>2 DEF CopyAt
  <2>. QED BY <1>0, <1>1, <1>2, <2>1, <2>3, CoreCalm
<1>. QED BY <1>3, <1>4 DEF TestInv

LEMMA DeleteDropsKeeps ==
  ASSUME TestInv, NEW c \in Cmd, Tests!DeleteDrops(c)
  PROVE  TestInv'
<1>0. Tests!TypeOK /\ TestAtInv /\ TestAlone(c) /\ testCmd[c].at = "drop"
  BY NobodyElse DEF TestInv, Tests!DeleteDrops
<1>1. /\ UNCHANGED <<testDir, test, testSets, testActive, testJobs, testRun, testCorpse, testMissed, testRequeues, testFails>>
      /\ testListed' = FALSE /\ Tests!Over(c)
  BY DEF Tests!DeleteDrops, Tests!outside, Tests!counts
<1>2. testCmd' \in [Cmd -> Tests!Command] /\ TestMoves(c) /\ testCmd'[c].at = "idle"
  BY <1>0, <1>1, Overs, TestConsts
<1>3. Tests!TypeOK' /\ TestAtInv'
  BY <1>0, <1>1, <1>2, AtCmd DEF Tests!TypeOK, Placed
<1>4. ASSUME ~testMissed' PROVE TestCore'
  <2>1. TestCore /\ Calm /\ ~testDir
    BY <1>0, <1>1, <1>4 DEF TestInv, TestCore, CopyInv, CopyAt
  <2>2. test = None
    BY <2>1 DEF TestCore, RecordInv
  <2>3. CopyAt(c)'
    BY <1>2 DEF CopyAt
  <2>. QED BY <1>0, <1>1, <1>2, <2>1, <2>2, <2>3, CoreCalm
<1>. QED BY <1>3, <1>4 DEF TestInv

-----------------------------------------------------------------------------
LEMMA JobStartsKeeps ==
  ASSUME TestInv, NEW j \in Tests!Job, Tests!JobStarts(j)
  PROVE  TestInv'
<1>0. Tests!TypeOK /\ TestAtInv /\ testJobs[j].st = "queued" /\ Tests!Listed(j) /\ testJobs[j].set \in Tests!Set /\ testRun[j].at = "none"
  BY DEF TestInv, Tests!JobStarts, TestAtInv, Tests!Listed
<1>1. UNCHANGED <<Tests!stored, testCmd, testCorpse, testMissed, testRequeues, testFails>>
  BY DEF Tests!JobStarts, Tests!counts
<1>2. testJobs' \in [Tests!Job -> Tests!Entry] /\ JobMoves(j) /\ testJobs'[j].st = "running" /\ testJobs'[j].set = testJobs[j].set
  <2>. DEFINE x == [testJobs[j] EXCEPT !.st = "running"]
  <2>1. x \in Tests!Entry /\ x.st = "running" /\ x.set = testJobs[j].set /\ testJobs' = [testJobs EXCEPT ![j] = x]
    BY <1>0 DEF Tests!TypeOK, Tests!Entry, Tests!JobStarts
  <2>. HIDE DEF x
  <2>. QED BY <1>0, <2>1, OneJob
<1>3. /\ testRun' \in [Cmd \cup Tests!Job -> Tests!Process] /\ RunMoves(j)
      /\ testRun'[j].at = "none" \/ (testRun'[j].at = "wait" /\ testRun'[j].set \in Tests!Set)
  <2>1. CASE test = None
    BY <1>0, <2>1 DEF Tests!TypeOK, Tests!JobStarts, RunMoves
  <2>2. CASE test # None
    <3>. DEFINE x == [at |-> "wait", copy |-> test, set |-> testJobs[j].set]
    <3>1. x \in Tests!Process /\ x.at = "wait" /\ x.set \in Tests!Set
      BY <1>0, <2>2 DEF Tests!TypeOK, Tests!Process, Tests!RunSteps
    <3>2. testRun' = [testRun EXCEPT ![j] = x]
      BY <2>2 DEF Tests!JobStarts
    <3>. HIDE DEF x
    <3>. QED BY <1>0, <3>1, <3>2, OneRun
  <2>. QED BY <2>1, <2>2
<1>4. Tests!TypeOK'
  BY <1>0, <1>1, <1>2, <1>3 DEF Tests!TypeOK, Tests!stored
<1>5. TestAtInv'
  BY <1>0, <1>1, <1>2, <1>3, AtJob
<1>6. ASSUME ~testMissed' PROVE TestCore'
  BY <1>0, <1>1, <1>2, <1>3, <1>6, CoreJob DEF TestInv, Tests!Listed
<1>. QED BY <1>4, <1>5, <1>6 DEF TestInv

LEMMA JobDiesKeeps ==
  ASSUME TestInv, NEW j \in Tests!Job, Tests!JobDies(j)
  PROVE  TestInv'
<1>0. Tests!TypeOK /\ TestAtInv /\ testRun[j].at # "none" /\ testJobs[j].st = "running"
  BY DEF TestInv, Tests!JobDies, TestAtInv
<1>1. UNCHANGED <<Tests!stored, testJobs, testCmd, testMissed, testRequeues, testFails>> /\ Tests!Killed(j)
  BY DEF Tests!JobDies, Tests!counts
<1>2. testRun' \in [Cmd \cup Tests!Job -> Tests!Process] /\ RunMoves(j) /\ testRun'[j].at = "none" /\ testCorpse' \in BOOLEAN
  BY <1>0, <1>1, Kills, TestConsts
<1>3. Tests!TypeOK'
  BY <1>0, <1>1, <1>2 DEF Tests!TypeOK, Tests!stored
<1>4. TestAtInv'
  BY <1>0, <1>1, <1>2, TestConsts, AtRun
<1>5. ASSUME ~testMissed' PROVE TestCore'
  <2>1. JobMoves(j) /\ testJobs'[j].st = "running" /\ (Tests!Listed(j)' => Tests!Listed(j))
    BY <1>0, <1>1 DEF JobMoves, Tests!Listed
  <2>. QED BY <1>0, <1>1, <1>2, <1>5, <2>1, CoreJob DEF TestInv
<1>. QED BY <1>3, <1>4, <1>5 DEF TestInv

LEMMA RequeueKeeps ==
  ASSUME TestInv, NEW j \in Tests!Job, Tests!Requeue(j)
  PROVE  TestInv'
<1>0. Tests!TypeOK /\ TestAtInv /\ testJobs[j].st = "running" /\ Tests!Listed(j) /\ testJobs[j].set \in Tests!Set
  BY DEF TestInv, Tests!Requeue, TestAtInv, Tests!Listed
<1>1. UNCHANGED <<Tests!stored, testCmd, testMissed, testFails>> /\ Tests!Killed(j) /\ testRequeues < MaxRequeues /\ testRequeues' = testRequeues + 1
  BY DEF Tests!Requeue
<1>2. testJobs' \in [Tests!Job -> Tests!Entry] /\ JobMoves(j) /\ testJobs'[j].st = "queued" /\ testJobs'[j].set = testJobs[j].set
  <2>. DEFINE x == [testJobs[j] EXCEPT !.st = "queued"]
  <2>1. x \in Tests!Entry /\ x.st = "queued" /\ x.set = testJobs[j].set /\ testJobs' = [testJobs EXCEPT ![j] = x]
    BY <1>0 DEF Tests!TypeOK, Tests!Entry, Tests!Requeue
  <2>. HIDE DEF x
  <2>. QED BY <1>0, <2>1, OneJob
<1>3. testRun' \in [Cmd \cup Tests!Job -> Tests!Process] /\ RunMoves(j) /\ testRun'[j].at = "none" /\ testCorpse' \in BOOLEAN
  BY <1>0, <1>1, Kills, TestConsts
<1>4. Tests!TypeOK'
  <2>1. testRequeues' \in 0 .. MaxRequeues
    BY <1>0, <1>1, TestConsts DEF Tests!TypeOK
  <2>. QED BY <1>0, <1>1, <1>2, <1>3, <2>1 DEF Tests!TypeOK, Tests!stored
<1>5. TestAtInv'
  BY <1>0, <1>1, <1>2, <1>3, AtJob
<1>6. ASSUME ~testMissed' PROVE TestCore'
  BY <1>0, <1>1, <1>2, <1>3, <1>6, CoreJob DEF TestInv
<1>. QED BY <1>4, <1>5, <1>6 DEF TestInv

LEMMA JobLeavesKeeps ==
  ASSUME TestInv, NEW j \in Tests!Job, Tests!JobLeaves(j)
  PROVE  TestInv'
<1>0. Tests!TypeOK /\ TestAtInv /\ testJobs[j].st \in {"running", "odd"} /\ testRun[j].at = "none"
  BY DEF TestInv, Tests!JobLeaves
<1>1. UNCHANGED <<Tests!stored, testRun, testCorpse, testCmd, testMissed, testRequeues, testFails>>
  BY DEF Tests!JobLeaves, Tests!counts
<1>2. testJobs' \in [Tests!Job -> Tests!Entry] /\ JobMoves(j) /\ testJobs'[j].st \in {"odd", "gone"}
  <2>1. PICK st \in {"odd", "gone"} : testJobs' = [testJobs EXCEPT ![j].st = st]
    BY DEF Tests!JobLeaves
  <2>. DEFINE x == [testJobs[j] EXCEPT !.st = st]
  <2>2. x \in Tests!Entry /\ x.st = st /\ testJobs' = [testJobs EXCEPT ![j] = x]
    BY <1>0, <2>1 DEF Tests!TypeOK, Tests!Entry
  <2>. HIDE DEF x
  <2>. QED BY <1>0, <2>2, OneJob
<1>3. Tests!TypeOK'
  BY <1>0, <1>1, <1>2 DEF Tests!TypeOK, Tests!stored
<1>4. RunMoves(j) /\ ~Tests!Listed(j)'
  BY <1>1, <1>2 DEF RunMoves, Tests!Listed
<1>5. TestAtInv'
  BY <1>0, <1>1, <1>2, <1>4, AtJob
<1>6. ASSUME ~testMissed' PROVE TestCore'
  BY <1>0, <1>1, <1>2, <1>4, <1>6, CoreJob DEF TestInv
<1>. QED BY <1>3, <1>5, <1>6 DEF TestInv

-----------------------------------------------------------------------------
LEMMA HandoffKeeps ==
  ASSUME TestInv, NEW j \in Tests!Job, Tests!Handoff(j)
  PROVE  TestInv'
<1>0. Tests!TypeOK /\ TestAtInv /\ testRun[j].at = "wait" /\ testRun[j].set \in Tests!Set /\ \A c \in Cmd : testCmd[c].at # "record"
  BY DEF TestInv, Tests!Handoff, TestAtInv, Tests!Locked
<1>1. UNCHANGED <<testDir, testListed, test, testJobs, testCorpse, testMissed, testRequeues, testFails>>
  BY DEF Tests!Handoff, Tests!counts
<1>2. CASE test = None
  <2>1. Tests!Ends(j) /\ UNCHANGED <<testSets, testActive>>
    BY <1>2 DEF Tests!Handoff
  <2>2. /\ testRun' \in [Cmd \cup Tests!Job -> Tests!Process] /\ RunMoves(j) /\ testRun'[j].at = "none"
        /\ testCmd' = testCmd
    BY <1>0, <2>1, Ended, TestConsts DEF Tests!Ends
  <2>3. Tests!TypeOK'
    BY <1>0, <1>1, <2>1, <2>2 DEF Tests!TypeOK
  <2>4. TestAtInv'
    BY <1>0, <1>1, <2>2, TestConsts, AtRun
  <2>5. ASSUME ~testMissed' PROVE TestCore'
    BY <1>0, <1>1, <2>2, <2>5, CoreRun DEF TestInv
  <2>. QED BY <2>3, <2>4, <2>5 DEF TestInv
<1>3. CASE test # None
  <2>1. /\ testRun' = [testRun EXCEPT ![j].at = "begin", ![j].copy = [test EXCEPT !.ended = FALSE]]
        /\ Tests!Activated(testRun[j].set) /\ UNCHANGED testCmd
    BY <1>3 DEF Tests!Handoff
  <2>. DEFINE q == [test EXCEPT !.ended = FALSE]
  <2>2. q \in Tests!Record /\ q.job = test.job /\ q.settled = test.settled
    BY <1>0, <1>3 DEF Tests!TypeOK, Tests!Record
  <2>. DEFINE x == [testRun[j] EXCEPT !.at = "begin", !.copy = q]
  <2>3. testRun[j] \in Tests!Process
    BY <1>0 DEF Tests!TypeOK
  <2>. HIDE DEF q
  <2>4. x \in Tests!Process /\ x.at = "begin" /\ x.copy = q /\ x.set = testRun[j].set
    BY <2>2, <2>3 DEF Tests!Process, Tests!RunSteps
  <2>5. testRun' = [testRun EXCEPT ![j] = x]
    BY <2>1, <2>3 DEF q
  <2>. HIDE DEF x
  <2>6. testRun' \in [Cmd \cup Tests!Job -> Tests!Process] /\ RunMoves(j) /\ testRun'[j] = x
    BY <1>0, <2>4, <2>5, OneRun
  <2>7. testActive' = testRun[j].set /\ testSets' \in 0 .. MaxSets
    BY <1>0, <2>1, TestConsts DEF Tests!TypeOK, Tests!Activated, Tests!Set
  <2>8. Tests!TypeOK'
    BY <1>0, <1>1, <2>1, <2>6, <2>7 DEF Tests!TypeOK
  <2>9. TestAtInv'
    BY <1>0, <1>1, <2>1, <2>4, <2>6, TestConsts, AtRun
  <2>10. ASSUME ~testMissed' PROVE TestCore'
    <3>1. TestCore
      BY <1>1, <2>10 DEF TestInv
    <3>2. ~test.settled
      <4>1. test.job = j
        BY <1>0, <3>1, RunsKnown
      <4>. QED BY <1>0, <1>3, <3>1, <4>1 DEF TestCore, RecordInv, TestAtInv
    <3>. QED BY <1>0, <1>1, <2>1, <2>2, <2>4, <2>6, <2>7, <3>1, <3>2, CoreRun
  <2>. QED BY <2>8, <2>9, <2>10 DEF TestInv
<1>. QED BY <1>2, <1>3

(* Who executes, or is about to, beside nobody that has a job to record.   *)
LEMMA NoneRecords ==
  ASSUME TestAtInv, TestCore, NEW p \in Cmd \cup Tests!Job, testRun[p].at \notin {"none", "wait"}
  PROVE  /\ \A c \in Cmd : testCmd[c].at # "record"
         /\ test # None /\ testDir
         /\ testRun[p].copy.job = test.job /\ ~testRun[p].copy.settled /\ testActive = testRun[p].set
<1>1. \A c \in Cmd : testCmd[c].at # "record"
  BY DEF TestCore, CopyInv, CopyAt
<1>2. test # None /\ testRun[p].copy.job = test.job /\ ~testRun[p].copy.settled /\ testActive = testRun[p].set
  BY DEF TestCore, ExecInv
<1>. QED BY <1>1, <1>2 DEF TestCore, RecordInv

(* The process p goes on to the step at.                                   *)
LEMMA RunGoes ==
  ASSUME Tests!TypeOK, NEW p \in Cmd \cup Tests!Job, NEW at \in Tests!RunSteps, testRun' = [testRun EXCEPT ![p].at = at]
  PROVE  /\ testRun' \in [Cmd \cup Tests!Job -> Tests!Process] /\ RunMoves(p)
         /\ testRun'[p].at = at /\ testRun'[p].copy = testRun[p].copy /\ testRun'[p].set = testRun[p].set
<1>. DEFINE x == [testRun[p] EXCEPT !.at = at]
<1>1. x \in Tests!Process /\ x.at = at /\ x.copy = testRun[p].copy /\ x.set = testRun[p].set
  BY DEF Tests!TypeOK, Tests!Process
<1>2. testRun' = [testRun EXCEPT ![p] = x]
  OBVIOUS
<1>. HIDE DEF x
<1>. QED BY <1>1, <1>2, OneRun

(* The process p is over, and with it its command.                         *)
LEMMA EndsOk ==
  ASSUME TestInv, NEW p \in Cmd \cup Tests!Job, testRun[p].at # "none", Tests!Ends(p),
         UNCHANGED <<testDir, testListed, testSets, testActive, testJobs, testMissed, testRequeues, testFails>>, testCorpse' \in BOOLEAN,
         \/ UNCHANGED test
         \/ /\ ~testMissed => (test # None => test' # None /\ test'.job = test.job /\ ~test'.settled)
            /\ test' \in Tests!Record \cup {None},
         ~testMissed => \A c \in Cmd : testCmd[c].at # "record"
  PROVE  TestInv'
<1>0. Tests!TypeOK /\ TestAtInv
  BY DEF TestInv
<1>1. /\ testRun' \in [Cmd \cup Tests!Job -> Tests!Process] /\ RunMoves(p) /\ testRun'[p].at = "none"
      /\ testCmd' \in [Cmd -> Tests!Command] /\ TestMoves(p)
      /\ p \in Cmd => testCmd'[p] = Tests!Idle
      /\ p \in Tests!Job => testCmd' = testCmd
      /\ \A c \in Cmd : testCmd'[c] = testCmd[c] \/ testCmd'[c] = Tests!Idle
  BY <1>0, Ended, TestConsts DEF Tests!Ends, TestMoves
<1>2. Tests!TypeOK'
  BY <1>0, <1>1 DEF Tests!TypeOK
<1>3. TestAtInv'
  BY <1>0, <1>1, AtRun
<1>4. ASSUME ~testMissed' PROVE TestCore'
  <2>1. ~testMissed /\ TestCore /\ \A c \in Cmd : testCmd[c].at # "record"
    BY <1>4 DEF TestInv
  <2>2. test # None
    BY <1>0, <2>1, RunsKnown
  <2>3. test' = test \/ (test' # None /\ test'.job = test.job /\ ~test'.settled)
    BY <2>1, <2>2
  <2>. QED BY <1>0, <1>1, <2>1, <2>3, CoreRun
<1>. QED BY <1>2, <1>3, <1>4 DEF TestInv

(* The process p goes on.                                                  *)
LEMMA GoesOn ==
  ASSUME TestInv, NEW p \in Cmd \cup Tests!Job, testRun[p].at \notin {"none", "wait"},
         NEW at \in Tests!RunSteps \ {"none", "wait"}, testRun' = [testRun EXCEPT ![p].at = at],
         UNCHANGED <<testDir, testListed, testSets, testActive, testJobs, testCmd, testMissed, testRequeues, testFails>>,
         testCorpse' \in BOOLEAN, test' = test \/ test' = testRun[p].copy,
         p \in Cmd => at = "suite" \/ testRun[p].at # "suite" \/ TestAlone(p)
  PROVE  TestInv'
<1>0. Tests!TypeOK /\ TestAtInv /\ testRun[p].set \in Tests!Set /\ testRun[p].copy \in Tests!Record
  BY DEF TestInv, TestAtInv, Tests!TypeOK, Tests!Process
<1>1. /\ testRun' \in [Cmd \cup Tests!Job -> Tests!Process] /\ RunMoves(p) /\ testRun'[p].at = at
      /\ testRun'[p].copy = testRun[p].copy /\ testRun'[p].set = testRun[p].set
  BY <1>0, RunGoes
<1>2. Tests!TypeOK'
  BY <1>0, <1>1 DEF Tests!TypeOK
<1>3. TestAtInv'
  <2>1. p \in Cmd => Leads(p)' \/ TestAlone(p)
    BY <1>0, <1>1, NobodyElse DEF TestAtInv, Leads
  <2>. QED BY <1>0, <1>1, <2>1, TestConsts, AtRun
<1>4. ASSUME ~testMissed' PROVE TestCore'
  <2>1. TestCore
    BY <1>4 DEF TestInv
  <2>2. /\ \A c \in Cmd : testCmd[c].at # "record"
        /\ testRun[p].copy.job = test.job /\ ~testRun[p].copy.settled /\ testActive = testRun[p].set
    BY <1>0, <2>1, NoneRecords
  <2>3. test' = test \/ (test' # None /\ test'.job = test.job /\ ~test'.settled)
    BY <1>0, <2>2, TestConsts
  <2>. QED BY <1>0, <1>1, <2>1, <2>2, <2>3, CoreRun
<1>. QED BY <1>2, <1>3, <1>4 DEF TestInv

LEMMA RunsKeep ==
  ASSUME TestInv, NEW p \in Cmd \cup Tests!Job, Tests!Begin(p) \/ Tests!Store(p) \/ Tests!SuiteEnds(p) \/ Tests!Finish(p)
  PROVE  TestInv'
<1>0. Tests!TypeOK /\ TestAtInv /\ testCorpse \in BOOLEAN /\ testRun[p].copy \in Tests!Record
  BY DEF TestInv, Tests!TypeOK, Tests!Process
<1>1. testRun[p].at \notin {"none", "wait"}
  BY DEF Tests!Begin, Tests!Store, Tests!SuiteEnds, Tests!Finish
<1>2. ~testMissed => /\ \A c \in Cmd : testCmd[c].at # "record"
                    /\ testRun[p].copy.job = test.job /\ ~testRun[p].copy.settled
  BY <1>0, <1>1, NoneRecords DEF TestInv
<1>3. CASE Tests!Begin(p)
  <2>1. /\ UNCHANGED <<testDir, testListed, test, testSets, testActive, testJobs, testMissed, testRequeues, testFails>>
        /\ testRun[p].at = "begin"
        /\ \/ Tests!Ends(p) /\ UNCHANGED testCorpse
           \/ testRun' = [testRun EXCEPT ![p].at = "store"] /\ testCorpse' = FALSE /\ UNCHANGED testCmd
    BY <1>3 DEF Tests!Begin, Tests!stored, Tests!counts
  <2>2. CASE Tests!Ends(p) /\ UNCHANGED testCorpse
    BY <1>0, <1>1, <1>2, <2>1, <2>2, EndsOk
  <2>3. CASE testRun' = [testRun EXCEPT ![p].at = "store"] /\ testCorpse' = FALSE /\ UNCHANGED testCmd
    BY <1>1, <2>1, <2>3, GoesOn DEF Tests!RunSteps
  <2>. QED BY <2>1, <2>2, <2>3
<1>4. CASE Tests!Store(p)
  <2>1. /\ UNCHANGED <<testDir, testListed, testSets, testActive, testJobs, testCorpse, testMissed, testRequeues, testFails>>
        /\ testRun[p].at = "store"
        /\ \/ test' = testRun[p].copy /\ testRun' = [testRun EXCEPT ![p].at = "suite"] /\ UNCHANGED testCmd
           \/ Tests!Ends(p) /\ UNCHANGED test
    BY <1>4 DEF Tests!Store, Tests!counts
  <2>2. CASE test' = testRun[p].copy /\ testRun' = [testRun EXCEPT ![p].at = "suite"] /\ UNCHANGED testCmd
    BY <1>0, <1>1, <2>1, <2>2, GoesOn DEF Tests!RunSteps
  <2>3. CASE Tests!Ends(p) /\ UNCHANGED test
    BY <1>0, <1>1, <1>2, <2>1, <2>3, EndsOk
  <2>. QED BY <2>1, <2>2, <2>3
<1>5. CASE Tests!SuiteEnds(p)
  <2>1. /\ UNCHANGED <<testDir, testListed, test, testSets, testActive, testJobs, testCorpse, testCmd, testMissed, testRequeues, testFails>>
        /\ testRun' = [testRun EXCEPT ![p].at = "end"]
        /\ p \in Cmd => TestAlone(p)
    BY <1>0, <1>5, NobodyElse DEF Tests!SuiteEnds, Tests!stored, Tests!counts
  <2>. QED BY <1>0, <1>1, <2>1, GoesOn DEF Tests!RunSteps
<1>6. CASE Tests!Finish(p)
  <2>. DEFINE q == [testRun[p].copy EXCEPT !.ended = TRUE, !.settled = FALSE]
  <2>1. /\ UNCHANGED <<testDir, testListed, testSets, testActive, testJobs, testCorpse, testMissed, testRequeues, testFails>>
        /\ Tests!Ends(p) /\ test' = IF testDir THEN q ELSE test
    BY <1>6 DEF Tests!Finish, Tests!counts
  <2>2. q \in Tests!Record /\ q.job = testRun[p].copy.job /\ ~q.settled
    BY <1>0 DEF Tests!Record
  <2>. HIDE DEF q
  <2>3. \/ UNCHANGED test
        \/ /\ ~testMissed => (test # None => test' # None /\ test'.job = test.job /\ ~test'.settled)
           /\ test' \in Tests!Record \cup {None}
    BY <1>2, <2>1, <2>2, TestConsts
  <2>. QED BY <1>0, <1>1, <1>2, <2>1, <2>3, EndsOk
<1>. QED BY <1>3, <1>4, <1>5, <1>6

-----------------------------------------------------------------------------
LEMMA TestInit == Tests!Init => TestInv
<1>. SUFFICES ASSUME Tests!Init PROVE TestInv
  OBVIOUS
<1>1. /\ \A c \in Cmd : testCmd[c] = Tests!Idle
      /\ \A p \in Cmd \cup Tests!Job : testRun[p] = Tests!NoRun
      /\ \A j \in Tests!Job : testJobs[j].st = "none"
  BY DEF Tests!Init
<1>2. Tests!TypeOK
  <2>1. 0 \in 0 .. MaxSets /\ 0 \in 0 .. MaxRequeues /\ 0 \in 0 .. MaxFails
    BY TestConsts
  <2>2. [st |-> "none", set |-> None] \in Tests!Entry
    BY DEF Tests!Entry
  <2>. QED BY <2>1, <2>2, TestConsts DEF Tests!Init, Tests!TypeOK
<1>3. TestAtInv
  BY <1>1, TestConsts DEF TestAtInv, Tests!Listed
<1>4. TestCore
  BY <1>1, TestConsts DEF Tests!Init, TestCore, RecordInv, CopyInv, CopyAt, ExecInv,
     Tests!Listed
<1>. QED BY <1>2, <1>3, <1>4 DEF TestInv

LEMMA TestStep == TestInv /\ [Tests!Next]_(Tests!vars) => TestInv'
<1>. SUFFICES ASSUME TestInv, [Tests!Next]_(Tests!vars) PROVE TestInv'
  OBVIOUS
<1>1. CASE UNCHANGED Tests!vars
  BY <1>1 DEF Tests!vars, TestInv, Tests!TypeOK, TestAtInv, TestCore, RecordInv, CopyInv,
     CopyAt, ExecInv, Tests!Listed,
     Leads, Recorder, Calm, NoneLeft
<1>2. ASSUME NEW c \in Cmd,
             \/ Tests!Start(c) \/ Tests!Look(c) \/ Tests!Ask(c) \/ Tests!Take(c) \/ Tests!Write(c) \/ Tests!Submit(c) \/ Tests!RecordJob(c)
             \/ Tests!StopOpens(c) \/ Tests!StopJudges(c) \/ Tests!StopMarks(c)
             \/ Tests!DeleteOpens(c) \/ Tests!Prune(c) \/ Tests!DeleteClears(c) \/ Tests!DeleteRemoves(c) \/ Tests!DeleteDrops(c)
             \/ Tests!Die(c)
      PROVE  TestInv'
  BY <1>2, StartKeeps, LookKeeps, AskKeeps, TakeKeeps, WriteKeeps, TestSubmitKeeps,
     RecordJobKeeps,
     StopOpensKeeps, StopJudgesKeeps, StopMarksKeeps, DeleteOpensKeeps, TestPruneKeeps,
     DeleteClearsKeeps, DeleteRemovesKeeps, DeleteDropsKeeps, TestDieKeeps
<1>3. ASSUME NEW j \in Tests!Job,
             Tests!JobStarts(j) \/ Tests!Handoff(j) \/ Tests!JobDies(j) \/ Tests!Requeue(j) \/ Tests!JobLeaves(j)
      PROVE  TestInv'
  BY <1>3, JobStartsKeeps, HandoffKeeps, JobDiesKeeps, RequeueKeeps, JobLeavesKeeps
<1>4. ASSUME NEW p \in Cmd \cup Tests!Job, Tests!Begin(p) \/ Tests!Store(p) \/ Tests!SuiteEnds(p) \/ Tests!Finish(p)
      PROVE  TestInv'
  BY <1>4, RunsKeep
<1>. QED BY <1>1, <1>2, <1>3, <1>4 DEF Tests!Next

(* The invariant of the record, the jobs, the suites and the commands:     *)
(* until a delete or a start missed a run, each command knows of the       *)
(* record's job what still holds when it acts on it.                       *)
THEOREM TestsHold == Tests!Spec => []TestInv
BY TestInit, TestStep, PTL DEF Tests!Spec

-----------------------------------------------------------------------------
(***************************************************************************)
(* Home: each component moves alone, and so as it does by itself.          *)
(***************************************************************************)

Part == {"sources", "registry", "exes", "bin", "tests"}

LEMMA HomeParts ==
  HomeSpec => /\ Spec /\ Reg!Spec /\ Exes!Spec /\ Bin!Spec /\ Tests!Spec
              /\ [](part \in Part)
<1>1. HomeInit => part \in Part /\ Init /\ Reg!Init /\ Exes!Init /\ Bin!Init /\ Tests!Init
  BY DEF HomeInit, Part
<1>2. [HomeNext]_HomeVars => [Reg!Next]_(Reg!vars)
  BY DEF HomeNext, HomeVars, regVars, Reg!vars
<1>3. [HomeNext]_HomeVars => [Exes!Next]_(Exes!vars)
  BY DEF HomeNext, HomeVars, exeVars, Exes!vars
<1>4. [HomeNext]_HomeVars => [Bin!Next]_(Bin!vars)
  BY DEF HomeNext, HomeVars, binVars, Bin!vars
<1>5. [HomeNext]_HomeVars => [Tests!Next]_(Tests!vars)
  BY DEF HomeNext, HomeVars, testVars, Tests!vars
<1>6. [HomeNext]_HomeVars => [Next]_vars
  BY DEF HomeNext, HomeVars, vars
<1>7. part \in Part /\ [HomeNext]_HomeVars => (part \in Part)'
  BY DEF HomeNext, HomeVars
<1>. QED
  BY <1>1, <1>2, <1>3, <1>4, <1>5, <1>6, <1>7, PTL
  DEF HomeSpec, Spec, Reg!Spec, Exes!Spec, Bin!Spec, Tests!Spec

(* What database.json names is there: the active installation is           *)
(* registered, and a registered one has the whole tree of its thornlist,   *)
(* or what an uninstall left of it.                                        *)
THEOREM DatabaseIsTrue == HomeSpec => []DatabaseTrue
<1>1. RegInv => DatabaseTrue
  BY DEF RegInv, DatabaseTrue, Reg!DatabaseTrue
<1>. QED BY <1>1, HomeParts, RegistryHolds, PTL

(* No update of database.json loses another's, whatever happened since the *)
(* command read it, but for a knob that an install asked its user for.     *)
THEOREM UpdatesAreKept == HomeSpec => UpdatesKeep
<1>. DEFINE Keeps ==
       \A c \in Cmd : regCmd[c].at = "write" /\ disk' # disk =>
         /\ \A a \in Alias : IF a = regCmd[c].alias THEN Reg!Owned(c, a, disk, disk')
                             ELSE disk'.inst[a] = disk.inst[a]
         /\ disk'.active # disk.active =>
              \/ regCmd[c].op = "use" /\ disk'.active = regCmd[c].alias
              \/ regCmd[c].op = "uninstall" /\ disk.active = regCmd[c].alias
              \/ regCmd[c].op = "install" /\ disk.active = None
         /\ disk'.user # disk.user =>
              \/ regCmd[c].op \in {"knob", "answer"}
              \/ regCmd[c].op = "seed" /\ disk.user = "unset"
<1>1. RegInv /\ [Reg!Next]_(Reg!vars) => [Keeps]_(Reg!vars)
  BY UpdatesOwn
<1>2. Reg!Spec => [][Keeps]_(Reg!vars)
  BY <1>1, RegistryHolds, PTL DEF Reg!Spec
<1>. QED BY <1>2, HomeParts, PTL DEF UpdatesKeep, Reg!UpdatesKeep

(* What a simulation runs is the build that its metadata names.            *)
THEOREM FrozenAreBuilt == HomeSpec => []FrozenIsBuilt
<1>1. ExeInv => FrozenIsBuilt
  BY DEF ExeInv, SimsFrozen, FrozenIsBuilt, Exes!FrozenIsBuilt
<1>. QED BY <1>1, HomeParts, ExesHold, PTL

(* However many processes die, bin/cactup leads to a build that is there.  *)
THEOREM TheLinkRuns == HomeSpec => []Bin!LinkRuns
<1>1. BinInv => Bin!LinkRuns
  BY DEF BinInv
<1>. QED BY <1>1, HomeParts, BuildsHold, PTL

(* Where at most one process dies inside an update, the build that a job   *)
(* names, were it one of a chain that goes on under an old build, is there *)
(* while it is current and for RETIRED_KEEP after it ceased to be.         *)
THEOREM BuildsStay == ASSUME MaxDeaths <= 1 PROVE HomeSpec => []BuildsThere
<1>1. BinInv => BuildsThere
  BY DEF BinInv, JobInv, BuildsThere, Bin!BuildsThere
<1>. QED BY <1>1, HomeParts, BuildsHold, PTL

(* A test job that the scheduler has is the one on record, of a run that   *)
(* tests.toml has, or is about to be, so that stop, delete and the next    *)
(* start find it; there is no reaper.  This ends when a delete takes an    *)
(* unanswered query for the job's end, or a start an unreadable record for *)
(* none (missed).                                                          *)
THEOREM JobsAreFound == HomeSpec => []JobsFound
<1>1. TestInv => JobsFound
  <2>. SUFFICES ASSUME TestCore, NEW j \in Tests!Job, Tests!Listed(j)
                PROVE  /\ testListed /\ testDir
                       /\ \/ test # None /\ test.job = j /\ Tests!Pending(test)
                          \/ \E c \in Cmd : testCmd[c].at = "record" /\ testCmd[c].job = j
    BY DEF TestInv, JobsFound, Tests!JobsFound
  <2>1. testListed /\ testDir /\ ((test # None /\ test.job = j) \/ Recorder(j))
    BY DEF TestCore, RecordInv
  <2>2. CASE test # None /\ test.job = j
    <3>1. ~test.settled
      BY <2>2 DEF TestCore, RecordInv, Tests!Listed
    <3>. QED BY <2>1, <2>2, <3>1, TestConsts DEF Tests!Pending
  <2>. QED BY <2>1, <2>2 DEF Recorder
<1>. QED BY <1>1, HomeParts, TestsHold, PTL

(* Whoever executes the suite does so alone, in a directory that is there, *)
(* and fills the active result set, until a delete or a start missed it    *)
(* (missed).                                                               *)
THEOREM SuitesAlone == HomeSpec => []SuiteAlone
<1>1. TestInv => SuiteAlone
  BY DEF TestInv, TestCore, ExecInv, RecordInv, SuiteAlone, Tests!SuiteAlone, Tests!Suite
<1>. QED BY <1>1, HomeParts, TestsHold, PTL

(* Every component's state stays within its types.                         *)
THEOREM HomeTyped == ASSUME Upsets = {} PROVE HomeSpec => []HomeTypeOK
<1>1. part \in Part /\ TypeOK /\ RegInv /\ ExeInv /\ BinInv /\ TestInv => HomeTypeOK
  BY DEF Part, RegInv, ExeInv, BinInv, TestInv, HomeTypeOK
<1>2. Spec => []TypeOK
  BY Typed
<1>. QED BY <1>1, <1>2, HomeParts, RegistryHolds, ExesHold, BuildsHold, TestsHold, PTL
=============================================================================
