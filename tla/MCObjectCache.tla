--------------------------- MODULE MCObjectCache ---------------------------
(* ObjectCache on a few compiles, files and contents. *)
EXTENDS ObjectCache

(* a and s are contents with nothing to leave out; a2 and s2 hold the same  *)
(* code and definitions besides; the compile of s prints messages of them.  *)
Code == [c \in Content |-> CASE c \in {"a", "a2"} -> "a"
                             [] c \in {"s", "s2", "s3"} -> "s"
                             [] OTHER -> c]
BareContents == Content \cap {"none", "a", "b", "s"}

AllFaults == {"rot", "power", "gc", "lost reply", "stall", "kill", "error"}
=============================================================================
