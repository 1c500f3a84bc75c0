--------------------------- MODULE MCSimLifecycle ---------------------------
(* SimLifecycle on a directory with room for a few restarts. *)
EXTENDS SimLifecycle

(* Everything but clean, which looks at nothing before it acts. *)
Careful == Ops \ {"clean"}
BothFails == {"unanswered", "hiccup"}
NoFails == {}

(* Batch jobs only. *)
Batch == {"submit", "stop", "delete"}
=============================================================================
