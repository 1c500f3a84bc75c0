--------------------------- MODULE CompileService ---------------------------
(***************************************************************************)
(* What a build may take for granted of a compile, with cactup's compiler   *)
(* wrapper in front of the compiler or without: the result is that of file  *)
(* contents the compile could have read while it ran.  Files may be edited  *)
(* at any time, and a compile reads each of them at a moment of its own.    *)
(***************************************************************************)

CONSTANTS
  Proc,            \* the compiles that may be under way at once
  File,            \* the files a compile reads
  Content,         \* what a file can hold; Absent: there is no such file
  Absent,
  Result(_),       \* what the compiler makes of a tree of contents
  NoResult         \* the compile failed, or was stopped

VARIABLES
  src,             \* the files as they are
  had,             \* had[p][f]: what f has been for p since p was asked for
  status,          \* "idle", or "asked" for, or "answered"
  result           \* what the last compile of p left at its output

svars == <<src, had, status, result>>

Tree == [File -> Content]

(* The trees a compile that reads each file at a moment of its own may see. *)
Views(h) == {t \in Tree : \A f \in File : t[f] \in h[f]}

Nothing == [f \in File |-> {}]

SInit ==
  /\ src \in Tree
  /\ had = [p \in Proc |-> Nothing]
  /\ status = [p \in Proc |-> "idle"]
  /\ result = [p \in Proc |-> NoResult]

(* make starts a compile. *)
Ask(p) ==
  /\ status[p] \in {"idle", "answered"}
  /\ status' = [status EXCEPT ![p] = "asked"]
  /\ had' = [had EXCEPT ![p] = [f \in File |-> {src[f]}]]
  /\ result' = [result EXCEPT ![p] = NoResult]
  /\ UNCHANGED src

(* Somebody edits, creates or removes a file. *)
Change(f, c) ==
  /\ src' = [src EXCEPT ![f] = c]
  /\ had' = [p \in Proc |-> IF status[p] = "asked"
                              THEN [had[p] EXCEPT ![f] = @ \cup {c}]
                              ELSE had[p]]
  /\ UNCHANGED <<status, result>>

(* A stalled file system hides a file from a compile. *)
Hide(p, f) ==
  /\ status[p] = "asked"
  /\ had' = [had EXCEPT ![p][f] = @ \cup {Absent}]
  /\ UNCHANGED <<src, status, result>>

(* The compile ends, with the result of a tree it may have seen. *)
Answer(p) ==
  /\ status[p] = "asked"
  /\ \E t \in Views(had[p]) : result' = [result EXCEPT ![p] = Result(t)]
  /\ status' = [status EXCEPT ![p] = "answered"]
  /\ had' = [had EXCEPT ![p] = Nothing]
  /\ UNCHANGED src

(* Compiles end without a result: they fail, or are killed. *)
GiveUp(P) ==
  /\ \A p \in P : status[p] = "asked"
  /\ status' = [p \in Proc |-> IF p \in P THEN "idle" ELSE status[p]]
  /\ had' = [p \in Proc |-> IF p \in P THEN Nothing ELSE had[p]]
  /\ UNCHANGED <<src, result>>

SNext ==
  \/ \E p \in Proc : Ask(p) \/ Answer(p) \/ \E f \in File : Hide(p, f)
  \/ \E P \in SUBSET Proc : GiveUp(P)
  \/ \E f \in File, c \in Content : Change(f, c)

ServiceSpec == SInit /\ [][SNext]_svars
=============================================================================
