------------------------------- MODULE MCHome -------------------------------
(***************************************************************************)
(* Home for TLC: two files, of which upstream changes one and removes the  *)
(* other.                                                                  *)
(***************************************************************************)
EXTENDS Home, TLC

CONSTANTS f1, f2

Trees == {(f1 :> 1) @@ (f2 :> 1), (f1 :> 2) @@ (f2 :> None)}

Alike == Permutations(Cmd)
=============================================================================
