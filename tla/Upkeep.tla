------------------------------- MODULE Upkeep -------------------------------
(***************************************************************************)
(* Three that drop what is old while somebody may still look at it: cache  *)
(* gc (CacheUpkeep), the prune of the machine database's trees (MdbSync),  *)
(* and the pane that follows a log (LogFollow).  They share no state, so   *)
(* each behaviour moves one of them.                                       *)
(***************************************************************************)
EXTENDS CacheUpkeep

CONSTANTS
  Cmd, Gen, Sha, genOf, Grace, MaxDeaths,              \* MdbSync
  MaxLines, Height, Seed, Steps, Hits, MaxCuts, MaxSteps  \* LogFollow

VARIABLES
  part,                                               \* the one that moves
  tip, mdbTree, mdbLink, mdbStamp, mdbCmd, mdbDeaths, \* MdbSync
  log, tail, buf, view, mode, drag, ui, found,        \* LogFollow
  dirty, viewDirty, frame, left

Mdb == INSTANCE MdbSync WITH
  Upsets <- {}, Commit <- Sha,
  tree <- mdbTree, link <- mdbLink, stamp <- mdbStamp, cmd <- mdbCmd,
  deaths <- mdbDeaths

Follow == INSTANCE LogFollow

ASSUME CollectionAssumption == Mdb!MdbAssumption /\ Follow!LogAssumption

mdbVars == <<tip, mdbTree, mdbLink, mdbStamp, mdbCmd, mdbDeaths>>
logVars == <<log, tail, buf, view, mode, drag, ui, found, dirty, viewDirty, frame, left>>

CollectInit ==
  part \in {"cache", "mdb", "log"} /\ Init /\ Mdb!Init /\ Follow!Init
CollectNext ==
  /\ UNCHANGED part
  /\ IF part = "cache" THEN Next ELSE UNCHANGED vars
  /\ IF part = "mdb" THEN Mdb!Next ELSE UNCHANGED mdbVars
  /\ IF part = "log" THEN Follow!Next ELSE UNCHANGED logVars

CollectSpec == CollectInit /\ [][CollectNext]_<<part, vars, mdbVars, logVars>>

-----------------------------------------------------------------------------
(* The properties of the two others, under the names they have there.      *)
TreesThere == part = "mdb" => Mdb!TreesThere
LogWhole == part = "log" => Follow!LogWhole
FrameDue == part = "log" => Follow!FrameDue
ViewStays == Follow!ViewStays
=============================================================================
