------------------------------- MODULE Fetch -------------------------------
(***************************************************************************)
(* cactup fetches the sources of an installation (src/src/fetch/mod.rs,    *)
(* git.rs; src/src/commands/refetch.rs): a refetch probes each repository, *)
(* skips those in which the user has something, or backs that up when      *)
(* told to fetch over it, aligns the rest with upstream file by file,      *)
(* records what it fetched, prunes, and adopts the thornlist.              *)
(*                                                                         *)
(* One repository of the list, and the commits it is fetched at.  The      *)
(* others are fetched beside it and touch nothing of its; what they have   *)
(* in common is the Ctrl-C that stops all.  One refetch runs at a time     *)
(* (.cactup-fetch.lock is a LinkLock).  A commit is its tree: what each    *)
(* path holds.  What the user writes is never what upstream has.  The      *)
(* branch the list names is upstream's only one, so that a release that    *)
(* names another is a move of its tip.                                     *)
(***************************************************************************)
EXTENDS Integers

CONSTANTS
  File,       \* paths in the repository
  Commit,     \* upstream's commits
  None,       \* no file; no marker
  MaxEdits,   \* bound: how often the user writes something
  MaxCuts,    \* bound: refetches that fail, are interrupted or killed, and
              \* looks of theirs at files that fail
  Upsets      \* what the user may do besides: "detach" a HEAD or be in the
              \* middle of a merge, "untracked": have a file of his own at a
              \* path that upstream uses, "hands": work in the repository
              \* while a refetch does

Own == {-n : n \in 1 .. MaxEdits}
Tree == [File -> Nat \cup Own \cup {None}]
ASSUME FetchAssumption ==
  /\ MaxEdits \in Nat /\ MaxCuts \in Nat
  /\ None \notin Int
  /\ Commit \subseteq [File -> Nat \cup {None}]
  /\ \A c \in Commit : \E f \in File : c[f] # None

VARIABLES
  here,       \* the repository's directory exists
  head, index, work,  \* the trees of HEAD, of the index, of the directory
  marker,     \* cactup-align: [from, to], or None
  odd,        \* how HEAD or origin differ from what the list says
  ahead,      \* HEAD has commits of the user's
  record,     \* fetch-state.toml does
  kept,       \* what of the user's is in a backup or in HEAD's history
  edits, cuts,
  missed,     \* what of the user's a refetch that was told to fetch over it
              \* did not come to look at
  cmd         \* the refetch; `blind` are the files for which a look failed

repoVars == <<here, head, index, work, marker, odd, ahead>>
vars == <<repoVars, record, kept, missed, edits, cuts, cmd>>

Bare == [f \in File |-> None]
Idle == [at |-> "idle", force |-> FALSE, intr |-> FALSE, reason |-> "clean",
         paths |-> {}, blind |-> {}, old |-> Bare, target |-> Bare, todo |-> {},
         fetched |-> FALSE]

Init ==
  /\ here = FALSE /\ head = Bare /\ index = Bare /\ work = Bare
  /\ marker = None /\ odd = "no" /\ ahead = FALSE
  /\ record = FALSE /\ kept = {} /\ missed = {} /\ edits = 0 /\ cuts = 0
  /\ cmd = Idle

-----------------------------------------------------------------------------
(* The probe.                                                              *)

\* status_paths: what differs between HEAD, the index and the directory, and
\* what git does not know.
Modified == {f \in File : head[f] # index[f] \/ (index[f] # None /\ work[f] # index[f])}
Untracked == {f \in File : index[f] = None /\ work[f] # None}

\* interrupted_align: HEAD is where an align that did not end was going.
CutAlign == marker # None /\ marker.to = head /\ marker.from # Bare

\* What of a probe may fail: the inspection as a whole, the walk that finds
\* what is modified, and the lstat of a file that is there.
Looks ==
  [inspected : BOOLEAN, walked : BOOLEAN, unread : SUBSET {f \in Modified : work[f] # None}]
Blind(looks) == IF looks.inspected /\ looks.walked THEN looks.unread ELSE File

\* By the bound, each time that a look fails for some file counts as a cut.
Bounded(unseen) ==
  IF unseen = {} THEN UNCHANGED cuts ELSE cuts < MaxCuts /\ cuts' = cuts + 1

\* local_edits: what is neither HEAD's nor what the cut align moved from; a
\* file that cannot be looked at is taken to be deleted.
LocalEdits(paths, unread) ==
  {f \in paths \ unread : /\ work[f] # None /\ work[f] # head[f]
                          /\ CutAlign => work[f] # marker.from[f]}

(* Mutant: what is left of a cut align is taken to be all there is. *)
Reason_MarkerSays(looks) ==
  IF ~looks.inspected THEN "unknown"
  ELSE IF odd \in {"op", "url", "detached"} THEN odd
  ELSE IF ~looks.walked THEN "unknown"
  ELSE IF Modified # {}
       THEN IF CutAlign THEN "unfinished" ELSE "modified"
  ELSE IF odd = "branch" THEN odd
  ELSE IF head = Bare /\ ~ahead THEN "unborn"
  ELSE IF ahead THEN "commits"
  ELSE "clean"

\* The first thing that is wrong.  A failed look makes it "unknown", but for
\* the walk of a repository with another origin; a HEAD without a commit,
\* which is a clone's that was killed, is one of its cases.
Reason(looks) ==
  IF ~looks.inspected THEN "unknown"
  ELSE IF odd \in {"op", "url", "detached"} THEN odd
  ELSE IF ~looks.walked THEN "unknown"
  ELSE IF Modified # {}
       THEN IF CutAlign /\ LocalEdits(Modified, looks.unread) = {} THEN "unfinished" ELSE "modified"
  ELSE IF odd = "branch" THEN odd
  ELSE IF head = Bare /\ ~ahead THEN "unborn"
  ELSE IF ahead THEN "commits"
  ELSE "clean"

\* The paths the reason carries: only three of them do, and only what the
\* walk has found.
PathsOf(looks) ==
  IF looks.walked /\ Reason(looks) \in {"modified", "unfinished", "url"} THEN Modified ELSE {}

-----------------------------------------------------------------------------
(* The refetch.                                                            *)

frame == <<edits, cuts, missed>>
Goto(at) == cmd' = [cmd EXCEPT !.at = at]

\* With a list that names the repository, or one that does not.
Begin(force, listed) ==
  /\ cmd.at = "idle"
  /\ cmd' = [Idle EXCEPT !.at = IF listed THEN "probe" ELSE "orphan", !.force = force]
  /\ UNCHANGED <<frame, repoVars, record, kept>>

\* plan, and force or force_where: a repository that is not there is cloned,
\* a clean one aligned, another backed up and aligned, or skipped; whatever
\* the probe could not look at.
Probe ==
  /\ cmd.at = "probe"
  /\ IF ~here THEN /\ cmd' = [cmd EXCEPT !.reason = "absent", !.at = "receive"]
                   /\ UNCHANGED cuts
     ELSE \E looks \in Looks :
            /\ cmd' = [cmd EXCEPT !.reason = Reason(looks), !.paths = PathsOf(looks),
                                  !.blind = Blind(looks),
                                  !.at = IF Reason(looks) = "clean" THEN "receive"
                                         ELSE IF cmd.force THEN "backup" ELSE "report"]
            /\ Bounded(Blind(looks))
  /\ UNCHANGED <<edits, missed, repoVars, record, kept>>

\* The look whether the directory exists fails: it is taken to be absent,
\* and the clone into it fails, as it is not empty.
ProbeMisses ==
  /\ cmd.at = "probe" /\ here
  /\ Goto("report")
  /\ UNCHANGED <<frame, repoVars, record, kept>>

\* backup_dirty copies the local edits out, for the two reasons that it says
\* have files worth copying; but for those that cannot be looked at now.
Backup ==
  /\ cmd.at = "backup" /\ ~cmd.intr
  /\ \E unread \in SUBSET {f \in cmd.paths : work[f] # None} :
       /\ kept' = IF cmd.reason \notin {"modified", "url"} THEN kept
                  ELSE kept \cup ({work[f] : f \in LocalEdits(cmd.paths, unread)} \cap Own)
       /\ missed' = missed \cup ({work[f] : f \in cmd.blind \cup unread} \cap Own)
       /\ Bounded(unread)
  /\ cmd' = [cmd EXCEPT !.at = "retarget", !.paths = {}, !.blind = {}]
  /\ UNCHANGED <<edits, repoVars, record>>

\* set_origin_url.
Retarget ==
  /\ cmd.at = "retarget"
  /\ odd' = IF cmd.reason = "url" THEN "no" ELSE odd
  /\ Goto("receive")
  /\ UNCHANGED <<frame, here, head, index, work, marker, ahead, record, kept>>

Cloning == cmd.reason = "absent"
Forced == cmd.reason \notin {"clean", "absent"}

(* Mutant: also where the directory is to be written over. *)
AlreadyThere_Forced(tip) == here /\ head = tip /\ odd = "no"

AlreadyThere(tip) == here /\ ~Forced /\ head = tip

\* keep_unchanged_entries: what is right in the index is right on disk.
Written(tip) == {f \in File : tip[f] # None /\ ~(~Forced /\ index[f] = tip[f])}

\* What upstream has by now: nothing to do, or all that is needed to go on.
Receive(tip) ==
  /\ cmd.at = "receive" /\ ~cmd.intr
  /\ IF AlreadyThere(tip)
     THEN /\ marker' = None
          /\ cmd' = [cmd EXCEPT !.at = "report", !.target = tip, !.fetched = TRUE]
     ELSE /\ marker' = marker
          /\ cmd' = [cmd EXCEPT !.at = "mark", !.target = tip, !.old = index, !.todo = Written(tip)]
  /\ UNCHANGED <<frame, here, head, index, work, odd, ahead, record, kept>>

\* From here on the repository is between two trees.  A clone has none to
\* come from.
Mark ==
  /\ cmd.at = "mark"
  /\ here' = TRUE
  /\ marker' = IF ~Cloning THEN [from |-> head, to |-> cmd.target] ELSE None
  /\ Goto("refs")
  /\ UNCHANGED <<frame, head, index, work, odd, ahead, record, kept>>

\* The branch and HEAD; what is in the middle of a merge stays there, and so
\* does another origin that the probe did not come to see.
MoveRefs ==
  /\ cmd.at = "refs"
  /\ head' = cmd.target /\ ahead' = FALSE
  /\ odd' = IF odd \in {"op", "url"} THEN odd ELSE "no"
  /\ Goto("checkout")
  /\ UNCHANGED <<frame, here, index, work, marker, record, kept>>

\* One file.
CheckOut(f) ==
  /\ cmd.at = "checkout" /\ f \in cmd.todo
  /\ work' = [work EXCEPT ![f] = cmd.target[f]]
  /\ cmd' = [cmd EXCEPT !.todo = @ \ {f}]
  /\ UNCHANGED <<frame, here, head, index, marker, odd, ahead, record, kept>>

WriteIndex ==
  /\ cmd.at = "checkout" /\ cmd.todo = {} /\ ~cmd.intr
  /\ index' = cmd.target
  /\ cmd' = [cmd EXCEPT !.at = "sweep", !.old = Bare,
                        !.todo = {f \in File : cmd.old[f] # None /\ cmd.target[f] = None}]
  /\ UNCHANGED <<frame, here, head, work, marker, odd, ahead, record, kept>>

\* What the old index had and the new one has not.
Sweep(f) ==
  /\ cmd.at = "sweep" /\ f \in cmd.todo
  /\ work' = [work EXCEPT ![f] = None]
  /\ cmd' = [cmd EXCEPT !.todo = @ \ {f}]
  /\ UNCHANGED <<frame, here, head, index, marker, odd, ahead, record, kept>>

Unmark ==
  /\ cmd.at = "sweep" /\ cmd.todo = {}
  /\ marker' = None
  /\ cmd' = [cmd EXCEPT !.at = "report", !.fetched = TRUE]
  /\ UNCHANGED <<frame, here, head, index, work, odd, ahead, record, kept>>

\* The network, the disk, or Ctrl-C: the repository has failed.  A clone
\* leaves no directory then, unless it was Ctrl-C that cut its checkout.
Fails ==
  LET gone == Cloning /\ ~(cmd.at = "checkout" /\ cmd.intr)
  IN  /\ cmd.at \in {"retarget", "receive", "mark", "refs", "checkout"}
      /\ cmd.intr \/ cuts < MaxCuts
      /\ cuts' = IF cmd.intr THEN cuts ELSE cuts + 1
      /\ IF gone
         THEN /\ here' = FALSE
              /\ head' = Bare /\ index' = Bare /\ work' = Bare
         ELSE UNCHANGED <<here, head, index, work>>
      /\ Goto("report")
      /\ UNCHANGED <<edits, missed, marker, odd, ahead, record, kept>>

\* FetchState::record, then the look at Ctrl-C that ends the refetch.
Report ==
  /\ cmd.at = "report"
  /\ record' = (record \/ cmd.fetched)
  /\ IF cmd.intr THEN cmd' = Idle ELSE Goto("adopt")
  /\ UNCHANGED <<frame, repoVars, kept>>

\* The thornlist and the database, with the repositories that were skipped
\* or have failed.
Adopt ==
  /\ cmd.at = "adopt"
  /\ cmd' = Idle
  /\ UNCHANGED <<frame, repoVars, record, kept>>

-----------------------------------------------------------------------------
(* A repository that the list does not name.                               *)

Dirty(looks) == Reason(looks) # "clean" \/ Untracked # {}

\* Kept: no --prune, never fetched, still built from, or dirty.
Leave ==
  /\ cmd.at = "orphan"
  /\ Goto("adopt")
  /\ UNCHANGED <<frame, repoVars, record, kept>>

PruneLook ==
  /\ cmd.at = "orphan" /\ here /\ record /\ ~cmd.intr
  /\ cmd.force \/ \E looks \in Looks : ~Dirty(looks)
  /\ Goto("ask")
  /\ UNCHANGED <<frame, repoVars, record, kept>>

\* The user says yes, or has said -f: a second look, and a copy of
\* everything if it is dirty or cannot be looked at.
PruneSave ==
  /\ cmd.at = "ask" /\ ~cmd.intr
  /\ \E looks \in Looks :
       kept' = IF Dirty(looks) THEN kept \cup ({work[f] : f \in File} \cap Own) ELSE kept
  /\ Goto("drop")
  /\ UNCHANGED <<frame, repoVars, record>>

\* Renamed out of the tree; what is left of it is only to be deleted.
PruneDrop ==
  /\ cmd.at = "drop"
  /\ here' = FALSE /\ head' = Bare /\ index' = Bare /\ work' = Bare
  /\ marker' = None /\ odd' = "no" /\ ahead' = FALSE
  /\ Goto("adopt")
  /\ UNCHANGED <<frame, record, kept>>

-----------------------------------------------------------------------------
(* Ctrl-C sets a flag; a kill ends the refetch where it is.                *)

Interrupt ==
  /\ cmd.at # "idle" /\ ~cmd.intr /\ cuts < MaxCuts
  /\ cuts' = cuts + 1
  /\ cmd' = [cmd EXCEPT !.intr = TRUE]
  /\ UNCHANGED <<edits, missed, repoVars, record, kept>>

\* An answer of no at the prompt, or Ctrl-C where it is looked for.
Stops ==
  /\ cmd.at = "ask" \/ (cmd.intr /\ cmd.at \in {"probe", "backup", "orphan", "drop"})
  /\ cmd' = Idle
  /\ UNCHANGED <<frame, repoVars, record, kept>>

\* A kill, or an error that ends the command.
Dies ==
  /\ cmd.at # "idle" /\ cuts < MaxCuts
  /\ cuts' = cuts + 1
  /\ cmd' = Idle
  /\ UNCHANGED <<edits, missed, repoVars, record, kept>>

-----------------------------------------------------------------------------
(* The user, and upstream.                                                 *)

HandsOn == here /\ (cmd.at \in {"idle", "ask"} \/ "hands" \in Upsets)
userFrame == <<record, missed, cuts, cmd>>

\* A new text at a path git knows, or at one of the user's own.
Edit(f) ==
  /\ HandsOn /\ edits < MaxEdits
  /\ index[f] # None \/ "untracked" \in Upsets \/ \A c \in Commit : c[f] = None
  /\ edits' = edits + 1
  /\ work' = [work EXCEPT ![f] = -(edits + 1)]
  /\ UNCHANGED <<userFrame, here, head, index, marker, odd, ahead, kept>>

Remove(f) ==
  /\ HandsOn
  /\ work' = [work EXCEPT ![f] = None]
  /\ UNCHANGED <<userFrame, here, head, index, marker, odd, ahead, kept, edits>>

Stage(f) ==
  /\ HandsOn /\ index[f] # None
  /\ index' = [index EXCEPT ![f] = work[f]]
  /\ UNCHANGED <<userFrame, here, head, work, marker, odd, ahead, kept, edits>>

\* git commit -a: HEAD's reflog keeps it, whatever moves HEAD.
UserCommits ==
  LET all == [f \in File |-> IF index[f] # None THEN work[f] ELSE None]
  IN  /\ HandsOn /\ all # head
      /\ head' = all /\ index' = all /\ ahead' = TRUE
      /\ kept' = kept \cup ({all[f] : f \in File} \cap Own)
      /\ UNCHANGED <<userFrame, here, work, marker, odd, edits>>

\* git reset --hard.
Reset ==
  /\ HandsOn
  /\ index' = head
  /\ work' = [f \in File |-> IF head[f] # None \/ index[f] # None THEN head[f] ELSE work[f]]
  /\ UNCHANGED <<userFrame, here, head, marker, odd, ahead, kept, edits>>

\* Another branch, another origin (also: the list names another), and what
\* belongs to the upset "detach".
Turn ==
  /\ HandsOn /\ odd = "no"
  /\ odd' \in {"branch", "url"} \cup IF "detach" \in Upsets THEN {"detached", "op"} ELSE {}
  /\ UNCHANGED <<userFrame, here, head, index, work, marker, ahead, kept, edits>>

-----------------------------------------------------------------------------
Next ==
  \/ \E force, listed \in BOOLEAN : Begin(force, listed)
  \/ \E tip \in Commit : Receive(tip)
  \/ Probe \/ ProbeMisses \/ Backup \/ Retarget \/ Mark \/ MoveRefs \/ WriteIndex
  \/ Unmark \/ Fails \/ Report \/ Adopt
  \/ Leave \/ PruneLook \/ PruneSave \/ PruneDrop
  \/ Interrupt \/ Stops \/ Dies
  \/ \E f \in File : CheckOut(f) \/ Sweep(f) \/ Edit(f) \/ Remove(f) \/ Stage(f)
  \/ UserCommits \/ Reset \/ Turn

Spec == Init /\ [][Next]_vars

-----------------------------------------------------------------------------
(* Properties.                                                             *)

TypeOK ==
  /\ here \in BOOLEAN /\ ahead \in BOOLEAN /\ record \in BOOLEAN
  /\ {head, index, work} \subseteq Tree
  /\ marker # None => marker.from \in Tree /\ marker.to \in Commit
  /\ odd \in {"no", "branch", "url", "detached", "op"}
  /\ {kept, missed} \subseteq SUBSET Own /\ edits \in 0 .. MaxEdits /\ cuts \in 0 .. MaxCuts
  /\ cmd.at \in {"idle", "probe", "backup", "retarget", "receive", "mark", "refs",
                 "checkout", "sweep", "report", "adopt", "orphan", "ask", "drop"}

\* No step of a refetch takes away what the user wrote, unless it is in a
\* backup or was committed: not the checkout over a repository it was told
\* to fetch over, not the sweep, not the recovery of an align that was cut
\* short, not a prune.  The one exception is a text that a refetch was told to
\* fetch over when a look of the probe or of the backup for it had failed
\* (probe, local_edits, backup_dirty, prune_orphans).
EditsKept ==
  [][\A f \in File :
       work[f] \in Own /\ work'[f] # work[f] /\ cmd' # cmd
       => work[f] \in kept' \cup missed]_vars

\* A repository that a refetch adopts as fetched holds the commit that was
\* fetched, in HEAD, the index and every file, however many aligns and
\* clones were cut short before (probe, align, check_out_tree).
FetchedIsWhole ==
  cmd.at = "adopt" /\ cmd.fetched =>
    /\ head = cmd.target /\ index = head /\ marker = None
    /\ \A f \in File : head[f] # None => work[f] = head[f]
=============================================================================
