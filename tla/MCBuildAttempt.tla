--------------------------- MODULE MCBuildAttempt ---------------------------
EXTENDS BuildAttempt, TLC

(* The terminals are interchangeable.                                      *)
Terminals == Permutations(Cmd)
=============================================================================
