------------------------------ MODULE MCFetch ------------------------------
(* Fetch on a repository of two files.                                     *)
EXTENDS Fetch, TLC

CONSTANTS f1, f2

\* Upstream changes one file and removes the other.
Trees == {(f1 :> 1) @@ (f2 :> 1), (f1 :> 2) @@ (f2 :> None)}
=============================================================================
