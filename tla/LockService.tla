---------------------------- MODULE LockService ----------------------------
(***************************************************************************)
(* What cactup's lock promises its callers, with no file in sight: the lock *)
(* belongs to at most one process; while that process uses it, only that    *)
(* process can give it up; only a lock whose owner no longer uses it, since *)
(* it died or its release failed, may be taken away.  LinkLock is shown to  *)
(* implement this specification.                                            *)
(***************************************************************************)
CONSTANTS Proc,   \* the processes that contend for the lock
          None    \* no process

VARIABLES owner,  \* the process the lock belongs to, or None
          inUse   \* whether the owner still counts on it

vars == <<owner, inUse>>

Init == owner = None /\ inUse = FALSE

(* A process takes the free lock. *)
Acquire == /\ owner = None
           /\ owner' \in Proc
           /\ inUse' = TRUE

(* The owner gives the lock back. *)
Release == /\ owner \in Proc /\ inUse
           /\ owner' = None
           /\ inUse' = FALSE

(* The owner dies, or fails to give the lock back. *)
Abandon == /\ owner \in Proc /\ inUse
           /\ inUse' = FALSE
           /\ UNCHANGED owner

(* A lock that is not in use is freed. *)
Reclaim == /\ owner \in Proc /\ ~inUse
           /\ owner' = None
           /\ UNCHANGED inUse

Next == Acquire \/ Release \/ Abandon \/ Reclaim

Spec == Init /\ [][Next]_vars
=============================================================================
