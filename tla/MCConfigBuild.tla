--------------------------- MODULE MCConfigBuild ---------------------------
(* ConfigBuild on one config with one thorn that two directories provide.  *)
EXTENDS ConfigBuild, TLC

(* Nothing tells two options, two flesh commits or two shapes apart.       *)
Alikes == Permutations(Options) \cup Permutations(Flesh) \cup Permutations(Shape)
            \cup Permutations(Provider)
=============================================================================
