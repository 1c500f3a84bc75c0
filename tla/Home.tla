-------------------------------- MODULE Home --------------------------------
(***************************************************************************)
(* One instance of each of the components of a CACTUP_HOME that outlive    *)
(* every command: an installation's sources, the registry of               *)
(* installations, the builds in bin/, the executable cache and a config's  *)
(* test run.  They share no state, so each behaviour moves one of them,    *)
(* which the initial state chooses.                                        *)
(***************************************************************************)
EXTENDS Fetch

CONSTANTS
  Cmd,                                        \* the users' commands
  Alias, Root, Shared, MaxStarts,             \* Registry
  Sim, Ino, MaxId,                            \* ExeCache
  MaxBuild, Keep, MaxDeaths,                  \* Releases
  MaxJobs, MaxSets, MaxRequeues, MaxFails     \* TestRuns

VARIABLES
  part,                                                   \* the one that moves
  disk, tree, regCmd, starts,                             \* Registry
  file, exe, built, build, cache, sim, creating,          \* ExeCache
  binLink, binFiles, binStamp, binLeft, binJobs, binCmd, binDeaths, \* Releases
  testDir, testListed, test, testSets, testActive,        \* TestRuns
  testCorpse, testJobs, testRun, testCmd, testMissed, testRequeues, testFails

Reg == INSTANCE Registry WITH Upsets <- {}, cmd <- regCmd
Exes == INSTANCE ExeCache WITH Upsets <- {}, cmd <- creating
Bin == INSTANCE Releases WITH
  Upsets <- {},
  link <- binLink, files <- binFiles, stamp <- binStamp, left <- binLeft,
  jobs <- binJobs, cmd <- binCmd, deaths <- binDeaths
Tests == INSTANCE TestRuns WITH
  Upsets <- {},
  dir <- testDir, listed <- testListed, rec <- test, sets <- testSets,
  active <- testActive, corpse <- testCorpse, jobs <- testJobs, run <- testRun,
  cmd <- testCmd, missed <- testMissed, requeues <- testRequeues, fails <- testFails

(* What the instances assume of their constants.                           *)
ASSUME HomeAssumption ==
  /\ Reg!RegistryAssumption /\ Exes!ExeCacheAssumption
  /\ Bin!ReleasesAssumption /\ Tests!TestRunsAssumption

HomeInit ==
  /\ part \in {"sources", "registry", "exes", "bin", "tests"}
  /\ Init /\ Reg!Init /\ Exes!Init /\ Bin!Init /\ Tests!Init
  /\ binLink.plain => part = "bin"

regVars == <<disk, tree, regCmd, starts>>
exeVars == <<file, exe, built, build, cache, sim, creating>>
binVars == <<binLink, binFiles, binStamp, binLeft, binJobs, binCmd, binDeaths>>
testVars == <<testDir, testListed, test, testSets, testActive, testCorpse,
              testJobs, testRun, testCmd, testMissed, testRequeues, testFails>>
HomeVars == <<part, vars, regVars, exeVars, binVars, testVars>>

HomeNext ==
  /\ UNCHANGED part
  /\ IF part = "sources" THEN Next ELSE UNCHANGED vars
  /\ IF part = "registry" THEN Reg!Next ELSE UNCHANGED regVars
  /\ IF part = "exes" THEN Exes!Next ELSE UNCHANGED exeVars
  /\ IF part = "bin" THEN Bin!Next ELSE UNCHANGED binVars
  /\ IF part = "tests" THEN Tests!Next ELSE UNCHANGED testVars

HomeSpec == HomeInit /\ [][HomeNext]_HomeVars

(* Every component's state stays within its types.                         *)
HomeTypeOK ==
  CASE part = "sources" -> TypeOK
    [] part = "registry" -> Reg!TypeOK
    [] part = "exes" -> Exes!TypeOK
    [] part = "bin" -> Bin!TypeOK
    [] part = "tests" -> Tests!TypeOK
(* The components' own properties, under the names they have there.  What  *)
(* does not move is as it began.                                           *)
DatabaseTrue == part = "registry" => Reg!DatabaseTrue
UpdatesKeep == Reg!UpdatesKeep
FrozenIsBuilt == part = "exes" => Exes!FrozenIsBuilt
BuildsThere == part = "bin" => Bin!BuildsThere
JobsFound == part = "tests" => Tests!JobsFound
SuiteAlone == part = "tests" => Tests!SuiteAlone
=============================================================================
