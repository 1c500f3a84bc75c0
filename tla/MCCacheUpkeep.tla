--------------------------- MODULE MCCacheUpkeep ---------------------------
(* A few keys, builds and logs; three commits of two generations; a pane    *)
(* of one line over two.                                                    *)
EXTENDS Upkeep, TLC

CONSTANTS x1, x2, y1, g1, g2

AllAims == {"age", "both"}

\* Two commits of one generation and one of the next.
Generations == (x1 :> g1) @@ (x2 :> g1) @@ (y1 :> g2)

Symmetry == Permutations(LogId) \cup Permutations(Build)
=============================================================================
