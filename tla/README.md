# Verification of cactup

TLA+ models of cactup, the installer, builder and simulation manager of the
Einstein Toolkit (`src/src`), with TLC runs on small instances and TLAPS proofs
for every size. `PROJECT.json` lists the runs, the source lines behind every
definition, the mutants that show each property can fail, and the theorems.

- [What cactup is made of](#what-cactup-is-made-of)
- [How the modules fit together](#how-the-modules-fit-together)
- [The lock: LinkLock](#the-lock-linklock)
- [Simulations: SimLifecycle](#simulations-simlifecycle)
- [The object cache: ObjectCache](#the-object-cache-objectcache)
- [CacheUpkeep: last uses and garbage collection](#cacheupkeep-last-uses-and-garbage-collection)
- [What a build means: ConfigBuild](#what-a-build-means-configbuild)
- [Who writes a build's record: BuildAttempt](#who-writes-a-builds-record-buildattempt)
- [Fetching sources: Fetch](#fetching-sources-fetch)
- [What outlives every command: Registry, Releases, MdbSync, ExeCache](#what-outlives-every-command-registry-releases-mdbsync-execache)
- [The test suite: TestRuns](#the-test-suite-testruns)
- [Following a log: LogFollow](#following-a-log-logfollow)
- [Runs at a glance](#runs-at-a-glance)
- [What is proved, and what is only checked](#what-is-proved-and-what-is-only-checked)
- [Disagreements found](#disagreements-found)
- [Not modelled, and what remains](#not-modelled-and-what-remains)

## What cactup is made of

cactup has no server. Every command is a process that reads and writes files
below `~/.cactup`, an installation, or a simulation's directory, usually on NFS
or Lustre, and processes on many hosts do so at once: commands on the login
nodes, the cactup that a batch job starts on a compute node, and one compiler
wrapper per file that `make -j` compiles. All coordination goes through the file
system: link-based locks, atomic renames, symlinks, heartbeats and mtimes. That
is where the hard behaviour is, and what the models are about.

| component | state | operations | talks to | what is hard | what makes it right |
|---|---|---|---|---|---|
| Link lock (`lock.rs`) | a lock file, the side-lock `<path>.breaker`, temp files | `acquire`, `try_acquire`, `acquire_wait`, `with_heartbeat`, drop, breaking a stale lock | used by everything below | holders that die, hosts that cannot see each other's processes, calls that interleave, lost NFS replies, clocks | one holder; a live holder is never broken; a dead one's lock is; every acquire ends |
| Simulation lifecycle (`sim/start.rs`, `restart.rs`, `manage.rs`) | `output-NNNN`, `restart.toml`, the `-active` symlink, `running.lock`, heartbeat | `submit`, `run`, `stop`, `clean`, `delete`, the run on the compute node | the scheduler (commands and their output), the lock | the scheduler acts at any moment, requeues, loses answers; a command dies between two writes; a submission beside a run that ends | one active restart; one Cactus at a time; no job forgotten; the reaper takes only the dead; deletion never pulls the directory from under a job |
| Scheduler abstraction (`scheduler.rs`) | none | submit, status, stop, when to ask again after a job's end | batch system | failed and transient answers | no failed query is taken for an answer |
| Object cache (`objcache/wrapper.rs`, `store.rs`, `key.rs`) | one file per key in a shared store | key, look up, restore, compile, check again, publish | compilers, `make`, the file system | sources edited during the compile, two writers of a key, crashes that tear files, damaged entries, lost replies | an object from the cache is one the compiler would have made; a name leads to a whole file; the store heals |
| Cache upkeep (`objcache/upkeep.rs`, `commands/cache.rs`) | use logs, unit records, a size counter | log a use, `gc`, `verify`, add to size | the store | everything it looked at may change before it acts | a used entry is not the first to go; no use is lost; the size is never too high |
| Key material (`identity`, `environment`, `platform`, `lookup`, `compile`, `specs`, `hash`) | none | parse a command line, a compiler, an environment | compilers | what a compiler reads without saying so | equal keys imply equal objects |
| Fortran, CUDA (`fortran.rs`, `cuda.rs`) | module files, intermediate files | as the C path, with more inputs and outputs | compilers | several outputs of one compile | as the C path, for all outputs together |
| Cache mode, probe, doctor, reports (`mod`, `probe`, `doctor`, `event`, `summary`) | event logs | decide whether to wrap, inject rules, report | builds | none that outlives a build | reports count what happened |
| Global database (`database.rs`) | `database.json` | `read`, `update` | every command | long commands with old snapshots, readers without a lock, failed looks at the file | no update is lost; a reader sees one whole version |
| Installations (`installation.rs`, their commands) | `installation.toml`, two registries | set the active config, register, uninstall | database, simulations, tests | registry and directory are two steps | what is registered exists; one writer |
| Create and executable cache (`sim/mod.rs`, `sim/cache.rs`) | `CACHE/exe/<build-id>`, `TRASH` | create, link, collect, trash | builds, installations | a build replaces the file that is being linked; collection by link count | a simulation's executable is whole and never collected |
| Restart variables (`sim/vars.rs`, `walltime.rs`) | none | layouts, walltime arithmetic | simulations | rounding and limits | segments cover the walltime and fit the queue |
| Build engine (`build/`, `commands/build.rs`) | config directories, build attempts | build, submit, stop, follow | scheduler, lock, object cache | a job that starts before its submission is recorded | no record write is lost; one build of a config at a time |
| Fetch (`fetch/`, `install`, `refetch`) | source trees, arrangement links | plan, clone, align, link, back up, prune | git and download servers | trees edited by the user, interrupts between two repositories | nothing the user changed is lost without being asked for |
| Machine database (`mdb/`) | the resolved machine, overlays | discover, detect, load, validate | database | stale detection on another host | the machine is the one the command runs on |
| Machine database sync (`mdb/sync.rs`) | exported trees, `gen-N` links, retired stamps | sync, swap, prune | git server, lock | readers beside a swap, death in the middle | a link leads to a whole tree; none in use is pruned |
| Self-update (`update.rs`, `freeze.rs`) | `bin/cactup-<build>`, the `bin/cactup` link | apply, prune, freeze a copy | update site, generated scripts | scripts that name a build for months | the link leads to a verified binary; no named build goes unasked |
| Test runs (`testsuite/`) | one record per config, result sets, the `-active` link, `running.lock` | run, submit, stop, delete, the run on the compute node | scheduler, lock | the suite writes the record under no lock; looks are taken before `test.lock`; requeues | no job is forgotten or deleted under; one suite at a time |
| Configs, knobs, thornlists, templates | text | parse, substitute, compare | all | none over time | the text says what was meant |
| Log following (`tail/`) | the lines a pane keeps, its scroll, selection and search | poll, drop old lines, keys, mouse, draw | log files | a reader thread drops lines under the indices of the main thread | shows what is in the files, on time, and a paused view stays put |
| Command line and support | none | dispatch, progress, parallel map | all | none over time | results in order |

Modelled are the parts that other parts or other hosts rest on: the lock, which
is under every file the rest writes; the simulation lifecycle, which has the
largest number of actors; the object cache and its upkeep, shared by all builds
of a site without any lock; the decision what to build again and the attempt
that carries it out; the record of an attempt, which four processes write; the
refetch, which writes where the user works; the test run of a config; the pane that
follows a log, which two threads of one command share; and the four
things below `~/.cactup` that outlive every command, the registry, the binaries, the
machine database and the executable cache. `PROJECT.json` gives
each component's sources, status and reason, the lines behind each definition,
and the hazards at their lines, with the properties that would catch them.

## How the modules fit together

| module | what it is |
|---|---|
| `LockService` | what a lock promises its callers |
| `LinkLock` | `lock.rs`, call by call; implements `LockService` |
| `LinkLockProofs` | its theorems |
| `SimLifecycle` | the restarts of one simulation, their jobs and the commands |
| `SimLifecycleProofs` | its theorems |
| `CompileService` | what a build may take for granted of a compile |
| `ObjectCache` | the compiler wrapper and the store; implements `CompileService` |
| `ObjectCacheProofs` | its theorems |
| `CacheUpkeep` | use logs, unit records and `cache gc` |
| `ConfigBuild` | one config: the sources, what is recorded of the last build, and the build |
| `ConfigBuildProofs` | its theorems |
| `BuildAttempt` | the attempts of one config, their records, jobs and commands |
| `BuildAttemptProofs` | its theorems |
| `Fetch` | the refetch of a repository: probe, back up, align, clone, prune, and the user |
| `Registry` | `database.json`, the installations' trees, and the commands on both |
| `Releases` | the builds of cactup in `bin/`: update, prune, frozen jobs, installer |
| `MdbSync` | the machine database: trees by commit, links by generation, syncs |
| `ExeCache` | `CACHE/exe`: builds, `sim create`, collection |
| `TestRuns` | the test run of one config: commands, the record, its jobs |
| `LogFollow` | one pane of `sim log --follow`: the reader and the main thread |
| `LogFollowProofs` | its theorems |
| `Upkeep` | one instance each of `CacheUpkeep`, `MdbSync` and `LogFollow` |
| `UpkeepProofs` | theorems about `CacheUpkeep` and `MdbSync`, and that they and those of `LogFollow` hold of `Upkeep` |
| `Home` | one instance each of `Fetch`, `Registry`, `Releases`, `ExeCache` and `TestRuns` |
| `HomeProofs` | theorems about `Fetch`, `Registry`, `ExeCache`, `Releases`, `TestRuns`, and that they hold of `Home` |
| `MCLinkLock`, `MCSimLifecycle`, `MCObjectCache`, `MCConfigBuild`, `MCBuildAttempt`, `MCFetch`, `MCHome`, `MCCacheUpkeep` | values of the constants for TLC, symmetry |

The composition is by promise: `SimLifecycle` takes `sim.lock` and
`running.lock` as the exclusive locks `LockService` describes (`SimLockFree`,
`HeldLive`), with the one weakness a user of the lock can observe, that a dead
holder may still look alive until its file is old. `LinkLock` shows under which
circumstances the files keep that promise. `ObjectCache` uses no lock.
`BuildAttempt` takes `record.lock`, the config's build lock and an attempt's
`running.lock` in the same way, and leaves open what a build does; `ConfigBuild`
has one attempt at a time, which is what `BuildAttempt`'s `NeverChain` gives it,
and says what the build does to the config. `ExeCache` sees of a build the file
it links and the record it leaves. What `Fetch` does to one repository, `Registry`
sees as a tree that is whole or not, and `ConfigBuild` as heads that move. `TestRuns`
takes `test.lock` and `running.lock` as `SimLifecycle` does its locks. The five
modules of `Home`, and the three of `Upkeep`, share no variable, because
the code shares no state between them: a joint run would only multiply their states, so each of its
behaviours moves one.

## The lock: LinkLock

**Code.** `lock.rs`: a temp file that records host, pid and start time is
hard-linked to the lock's path. The link is the acquire, an unlink the release.
Whoever finds the path taken judges the holder (`assess_holder`): on its own host
by `/proc`, otherwise by the age of the lock file against the file server's clock.
A stale lock is broken under a side-lock after a second judgement
(`break_stale`). Holders of long locks restamp the file from a heartbeat thread.

**State.** `lock` and `side` are the files at the two paths, `clock` the file
server's clock, and per process `pc` names the file-system call it makes next;
`fs`, `seen`, `tries`, `since` and `began` are the local variables of
`acquire_inner`, `assess_holder`, `acquire_wait` and `break_stale`. Every call is
an action of its own, so any two calls of two processes interleave. A process is
one incarnation of a pid: the start time in the stamp is what makes that so.

**What goes wrong.** `Crash` kills a process between any two calls, `IoError`
fails any one call with the error path the code takes, and `Tick` lets time pass.
A link whose reply is lost is `LinkOk`: the code looks at the link count.

**Assumptions, as constants.** `TimelyHolders`: a holder restamps or releases
before its file reaches `LOCK_STALE_SECS` (that is what the heartbeat is for;
short critical sections have no other guard). `TimelyBreakers`: a breaker is done
within `BREAKER_STALE_SECS`. `BreakersFinish`: a breaker does not die or fail to
remove its side-lock. The code cannot enforce any of the three; safety is proved
where they hold, and the runs show what they are good for.

**Properties.** `MutualExclusion`; `OneBreaker` (one process at a time between
the second judgement and the end of a break; proved, in no run); `NeverStolen` (a holder's file
leaves the path only by its own unlink); `ImplementsService`; `AcquireEnds`;
`CorpseGoes` (a dead holder's lock does not outlive those who keep trying, even
where a breaker died on it).

**Bounds.** `lock_timely`: three processes on two hosts, so that holders are
judged both by `/proc` and by age, one crash, `LockStale = 2` and
`BreakerStale = 1` so that a file passes through young, old and exactly at the
threshold, `MaxClock = 3` so that a file written at tick 1 can still grow old. Two
attempts, since a third adds no new state to the second. `lock_live`: two
processes with a clock one tick longer, one crash and two failing calls, which is
what it takes for a holder and then a breaker to leave their files behind.
The guards that name a bound keep the last ticks for files to grow old in.

**Fairness** (`lock_live`). A process inside an acquire makes its next call and a
holder restamps or releases (`WF`): they are straight-line code. Time passes
(`SF` on `Tick`, which a holder may disable for a moment). Nobody has to start an
acquire: `CorpseGoes` is about processes that keep trying.

**Left out.** The combination of a lost link reply with a failing look at the
link count; `is_held_live`, which reads and changes nothing (its verdict is used,
as `HeldLive`, in `SimLifecycle`); the parsing of `/proc`.

## Simulations: SimLifecycle

**Code.** `sim/start.rs`, `restart.rs`, `manage.rs` and the job queries of
`scheduler.rs`. A restart is a directory with a record; a submission makes one
per segment, makes the first active when nothing else is, queues one job per
restart and chains each behind the one before. On the compute node the job's own
cactup takes `sim.lock`, moves the active link to its restart, takes
`running.lock`, and runs Cactus. `submit` and `run` first reap an active restart
whose job, lock and heartbeat all say that it is dead.

**State.** `meta` is `restart.toml` (made, job recorded, foreground, ended,
settled), `links` the active symlinks, `queue` what the scheduler has of each
job, `run` and `mine` the compute-node process and the record it holds in memory,
`corpse` and `beat` the lock and heartbeat it left, and `cmd` the command that
holds `sim.lock`, with its next write. `Abort` ends a command before any of its
steps: dying and returning an error leave the same things behind.

| code | actions |
|---|---|
| `submit_impl`, `run_interactive` | `Begin`, `Reap`, `DecideSubmit`, `DecideRun`, `Prepare`, `Activate`, `Queue`, `Record`, `Launch` |
| `reap_stale`, `clean_active` | `Reap`, `Unlink`, `Mark` |
| `stop_sim`, `stop_ended`, `await_run_exit` | `Stop`, `Await`, `Finish`, `Deactivate` |
| `delete` | `Delete`, `Remove` |
| `run_compute`, `handoff_active`, `execute_restart` | `Handoff`, `GivesUp`, `Rename`, `Load`, `TakeRunning`, `StoreStart`, `ExecEnds`, `StoreEnd` |
| the scheduler, deaths, time (external) | `JobStarts`, `JobLeaves`, `Requeue`, `Dies`, `BeatStales`, `CorpseExpires` |

**Merged into one step.** A query with the stop it leads to, and the making of a
directory with its first record: between them the process holds `sim.lock` and
no other actor reads what they touch. A job that is listed in one query and over
at the next is covered by its end coming before the first. A transient answer
("hiccup": the scheduler loses sight of a job for one query) is a value of `Fails`,
and so is a query without an answer.

**Assumptions, as constants.** `UserWaits`: nobody submits while jobs of an
earlier submission wait for the active link. Without it the new job is chained
behind the active restart beside the one that waits there already, both start
when it ends, and `OneRun` fails. `QuickLaunch`: no stop, clean or delete
between a foreground run's launch and its `running.lock`. Without it a delete
finds nothing live and removes the directory under the run. `JobsRecorded`: a
submission that queued a job lives to write its id down; it does not hold in
`sim_failed_queries`, and `JobsKnown` is not claimed there. `DeletesRemove`: a
delete that told the jobs to stop lives to remove the directory. One that dies in
between leaves a doomed chain of which the scheduler may cancel the middle first, so
that the job behind it starts and ends before the one ahead, requeued after its
end, has left the queue: a new submission asks about the newest end only, and the old
job takes the link from under its run (`RunIsActive` fails so with four restarts). It
is assumed in `sim_requeue`, which checks the last layer of `SimInv` with it, and
not in the other two: `sim_chains` checks `OneRun` without.
Three more are built in: a heartbeat that is being touched is fresh; a job that waits in the queue is
canceled by cactup only, since canceling the middle of a chain by hand frees the
next job beside the run before it; and requeues happen any time a job runs.
`clean`, which looks at nothing before it unlinks, is typed in
`sim_failed_queries` only: beside it `OneRun` and `RunIsActive` are the user's
business.

**Properties.** `OneRun`, `JobsKnown` (no queued job without a record), `RunIsActive` (stop and delete find the running restart), `ReapsTheDead`
and, with failing queries, `ReaperSparesRuns`, `EndIsTrue`, `DeleteSparesJobs`,
and `JobsLeave` (a queued job does not wait for ever). `OneActive` follows from
`SimInv`; with it `RunIsActive` says for requeued jobs what `OneRun` says.
`DeleteSparesRuns`, the same as `DeleteSparesJobs` for foreground runs, is proved only.
Restarts whose stop the scheduler accepted are excepted where a property says so:
the scheduler takes its time.

**Bounds.** Three restarts in `sim_chains`: one active, one chained behind it and
one behind that is the smallest chain with a middle, and it admits a submission
beside a chain. Two in the runs with requeues, failing queries, foreground runs
and fairness: a predecessor and a successor. One requeue, one failed query: each
is followed by every order of everything else. `MaxRestarts` also lets the
directory run full, the code's limit of 10000.

**Fairness** (`sim_requeue`). A command that began goes on and so does a process;
the scheduler starts a job that may start and lets go of one whose process is
done. That a run of Cactus ends (`ExecEnds`) is the scheduler's doing, which
ends every job at its walltime; a stop that was accepted needs no fairness then.

**Left out.** Machines whose job ids are pids (`recorded_elsewhere`, process
groups), `list`, `show`, `log`, script generation, `sim create`, and a walltime's
division into segments.

## The object cache: ObjectCache

**Code.** `objcache/wrapper.rs::cached`, `store.rs::{read, publish, invalidate}`,
`key.rs::{Keyed::build, still_holds}`. A wrapper preprocesses, reads every file
the preprocessor entered and takes each file's stamp before its bytes, looks for
an entry, and restores it or compiles. After a compile it preprocesses again,
compares text, bytes and stamps, compares the compile's own list of files with
the key's, and only then publishes: temp file, fsync, `hard_link`, link count.

**State.** `src` and `stamp` are the files, `text`, `files`, `seen`, `made` what
one wrapper has read in each of its four passes, `disk` and `linked` the store's
inodes and which of them have a name, `ino` the inode a wrapper has open.
Readers and publishers know nothing of each other.

**Abstraction of data.** A file's content is one of a few values. `codeOf` maps it
to the part a plain key has: two contents with one code differ in macro
definitions alone, which the key leaves out (decision 30 of
`design/build-cache/DECISIONS.md`). A compile's result is the code it read and,
if its messages speak of definitions (`Speaking`), the contents whole; the code
then keys the entry with the whole files. The two laws assumed of `codeOf`
(`ContentAssumption`) say that contents with nothing to leave out (`Bare`) are
determined by their code, and that no file has the code of an absent one.
A name looked up leads to an entry by the key in the entry's header.

**What goes wrong.** Edits at any moment, in place and by rename, also back to the
old content; a stalled file system that hides a file from the compiler
(decision 28); killed wrappers, power loss that tears what was not synced,
decay, `cache gc`, lost replies of `hard_link`, failing reads, compiles and
writes.

**Properties.** `ServesAsCompiled`: ObjectCache implements `CompileService`, in
which a compile ends with the result of contents its files had while it ran.
`EntriesTrue`: an entry that reads back has the object the compiler makes of the
files in its key. `NamesWhole`: no name leads to a torn file. `LinkedIsStored` (proved, in no run).
`Heals`: once the files rest and nothing fails, the store gets a good entry for
them and keeps it.

**Bounds.** Two wrappers on one file and three contents in `cache_share` (a pair
with one code, and none), with one edit and one fault of any kind, a stall
included: two are what a race for one name takes, and the second inode lets a
damaged entry be replaced. Several files, and an edit of one between the readings
of another, are the theorems' business.

**Fairness** (`cache_share`). Every wrapper goes on, and `make` asks for the
compile again and again (`WF` on `Step`): without a compile nothing can heal a
store.

**Simplifications.** Every edit moves the stamp: ctime is part of it and nothing
sets it back. A stall hides a file from the compile alone, which is the decision's
case. The second look at a file is one step, since an edit within it could only
make the comparison fail. Entries of foreign format and unreadable ones are
`ReadFails`.

**Left out.** Audit mode and recording mode, Fortran and CUDA, the watch of the
compiler's own files (its identity enters the key as a constant), unit records
and use logs.

## CacheUpkeep: last uses and garbage collection

**State.** `entry` is what is under each key's name, by publication (`gen`, for
device, inode, size and mtime) and time; `record` the keys with a unit record,
`linked` those whose publisher has it still to write; `logs` the use logs, a
build's `.keys` file and a fold's `.times` file alike the time of the last use of
each key they name. `hits` is what each build will log. A `gc` has what its walk
read (`seen`, `recs`, `inLogs`), its `plan`, and the file it has looked at and
is about to remove (`target`).

**Actions.** A build is served (`Hit`), publishes an entry and then its record
(`Publish`, `RecordUnit`), and logs its uses at its end (`LogUse`); damaged
entries are removed (`Invalidate`). `GcBegin`, one step per directory in any
order (`WalkEntries`, `WalkUnits`, `WalkUsed`), `Plan` with both criteria, and
`carry_out` file by file, each look and each removal a step (`LookEntry`,
`RemoveEntry`, `LookRecord`, `RemoveRecord`, `Fold`, `RemoveLog`). Looks that
fail, removals that fail, unwritten logs, and a `gc` that stops at any step are
actions too. There is one `gc` at a time: `gc.lock` is a `LinkLock`.

**Properties.** `SparesUsed`: an entry that is about to go for its age was neither
published nor, by any log on disk when the `gc` began, used since the cutoff.
`RemovesWhatItSaw`: a removal takes the entry of the walk, or the record of an
entry that is not there, except what was published between the look and the
removal, and the record of an entry whose look failed. `FoldKeepsUses`: no step lets an entry that stays look less recently
used, wherever a `gc` is cut short, except entries that the `gc` whose old logs
are being removed does not keep.

**What the exceptions say.** The code makes stronger claims, and each has a gap
that the model shows: TLC finds a violation as soon as an exception is left out.
The look at a record's entry takes any failed `symlink_metadata` for an entry that
is gone (506), so that the record of an entry that is there may go. The comment at `upkeep.rs:501` says that an
entry published since the walk keeps its record: if it is published between the
look at the entry and the removal of the record, whose `record_unit` then found
the old record in place, it does not. And a use that was logged is forgotten if
the entry was published after its directory was walked but before `used/` was,
or if the look at it failed: `Plan` folds the uses of entries it knows. All cost
a diagnosis or a miss, and never a wrong object.

**Bounds.** One key, three logs, one build at a time, two publications, a clock
of three ticks, both kinds of aim: a log of two builds and the fold of both fit,
a use can be older, newer and exactly at the cutoff, and an entry can be replaced
during a `gc`. Keys meet only in a log's lines and in `--to-size`; the theorems
are for any number of them.

**Left out.** Temporary files, which have no name anything reads, and the size
stamp that `gc` writes at its end, `stats` writes and builds add to: it is an
estimate, and decides no more than whether a notice is shown.

## What a build means: ConfigBuild

**Code.** `build/mod.rs`: `rebuild_decision`, `prepare_with_cache`, `execute`.
`cactup build` compares the sources, the thornlist and the optionlist of now with
what the config's last successful build recorded, decides between nothing, an
incremental and a full build, and freezes the decision into an attempt. The
attempt runs at once or hours later, looks at the sources again, removes what
they invalidate, runs make, and records what it found.

**State.** What the user has (`opts`, `list`, `flesh`, `tree`), the three records
of the last success (`meta`, `snapshot`, `processed`), the objects and the
executable (`obj`, `exe`), and the attempt (`att`). A thorn's files are a text, a
write count that mtimes and source states tell apart, and a shape, what the
fingerprint of its `.ccl` files and file names tells apart. An object is the
sources it was compiled from, so an executable of mixed sources is seen to be one.
`Make` is make as the code relies on it: it compiles what is newer than its
object, and keeps some, any or none of the objects it has no reason to doubt.

**Properties.** `UpToDateIsTrue`: when `cactup build` says "up to date" after a
build that succeeded, the executable holds exactly the sources the user has now,
whatever was edited, swapped, dropped and put back before and during the builds
that led there. `DeletedStaysDeleted`: a queued build whose config was deleted
does not bring it back.

**Assumptions, as constants.** `SettledTree`: nobody moves the flesh or changes a
thorn's shape while a build works with what it read of them; what it records is
what it read at its start. `ForcesAfterFailure`: a build that did not finish is
followed by one with `-f`; without it objects of sources no record has survive,
and a change made and taken back is no difference any more. `RequeueEscalated`:
whether the scheduler may start an escalated build again; `build_sources` has it
`FALSE`, and `build_preempted` shows why (below).

**Bounds.** One thorn that two directories provide, two options, flesh commits and
shapes, four changes by the user: change, build, change back, build is two, and
two more fall between any two steps of a build. Thorns do not interact: each is
compiled from its own files, and the theorems are for any number of them.

**Left out.** A job that runs again after it has recorded its outcome (in
`BuildAttempt`); what a probe of a repository costs and its cache; reading a
thornlist.

## Who writes a build's record: BuildAttempt

**Code.** `commands/build.rs` (`run`, `submit`, `stop`, `prune`, `watch_build`,
`guard_no_live_attempt`) and `build/attempt.rs`. An attempt is a directory with a
record, `build.toml`. The command that staged it, the process that executes it,
`build stop` and `build prune` each read it, work for a while, and write.

**State.** `rec` the records, `jobs` what the scheduler has of each job, `run` the
process that executes an attempt with the copy of the record it holds, `cmd` what
each terminal is doing, to which attempt and with which copy.

**What goes wrong.** Commands die at any step, jobs start before their submission
is recorded, are killed, forgotten and queued again (also after their outcome),
and queries fail.

**Properties.** `JobsKnown`: a job the scheduler has is on the record of its
attempt, or its submitter is about to write it. `NeverChain`: at most one attempt
of a config waits or runs. `OutcomeKept`: no stale copy overwrites a recorded
success. `WatchEnds`: `--block` and `--follow` end, whatever becomes of the job.

**Assumptions, as constants.** `StartsApart`: no two builds of a config are
started at the same time; the guard takes no lock, and two that pass it both
submit. `StopsInPeace`: nobody writes a record while a stop works on it; the stop
reads it without its lock, and a build that completes meanwhile is recorded as
failed. `JobsRecorded`: no command dies between the scheduler's answer and the
record; otherwise nothing on disk says that the job is queued.

**Bounds.** Two terminals, two attempts, one requeue, one failed query: an attempt
and the one that follows it, and a command beside another's.

**Fairness** (`build_jobs`). A command and a process that can go on do (`WF`); the
scheduler starts a queued job and lets go of one that is done. The writes that
wait for `record.lock` or for a stop's end are strongly fair: nobody calls stop
so often that no other write ever comes through. That make ends is the job's
walltime.

**Simplifications and what is left out.** `StopEnded` takes the query and what
follows it as one step, `Watch` the look at the record and at the queue: that the
watch ends is checked, what it reports is not. Prune has `--keep 1`. Machines
whose job ids are pids and the window within which a requeue is looked for are
left out; a job may be queued again at any time.

## Fetching sources: Fetch

**Code.** `fetch/git.rs` (`probe`, `align`, `clone`, `local_edits`), `fetch/mod.rs`
(`plan`, `execute`, `FetchState`) and `commands/refetch.rs` (`dispatch`,
`backup_dirty`, `prune_orphans`). A refetch probes each repository of the
thornlist. Where the user has something it skips it, or copies his files out and
fetches over it when told to. The rest it brings to upstream's tip: it marks that
an align is under way, moves the branch and HEAD, writes the files that differ one
by one, then the index, and sweeps what the old index had and the new has not. A
repository the list no longer names may be pruned, after a prompt.

**State.** One repository: the trees of HEAD, of the index and of the directory
(`head`, `index`, `work`), the marker of an align under way, what is `odd` about
HEAD or origin, whether HEAD is `ahead`. A commit is its tree; what the user writes
is never what upstream has. `kept` is what of his is in a backup or in a commit of
his, `missed` what a refetch was told to fetch over when a look for it had failed,
`cmd` the refetch, with the paths its probe named and those it is `blind` to. The other repositories of the list are fetched beside this one
and touch nothing of its.

**What goes wrong.** The network or the disk fails, Ctrl-C sets a flag that is
looked for at some places and not at others, a kill ends the refetch between any two
files; the probe's look whether the repository is there fails (`ProbeMisses`), or its
inspection, its status walk, or the lstat of a modified file (`Looks`); upstream moves in between; and the user edits, stages, commits, resets,
switches the branch and re-points origin whenever no refetch runs, and at the
prompt of a prune.

**Properties.** `EditsKept`: no step of a refetch takes away what the user wrote,
unless it is in a backup or was committed, or the refetch was told to fetch over a
repository where a look for it had failed. `FetchedIsWhole`: a repository that a
refetch adopts as fetched has the fetched commit in HEAD, in the index and in
every file, however many aligns and clones were cut short before. Both rest on the
probe's telling a cut align's leftovers from edits (`interrupted_align`,
`local_edits`).

**What the exception says.** An inspection that fails gives the reason "unknown",
which carries no paths (`git.rs` 102-108); a status walk that fails under another
origin is replaced by an empty list (149); and an lstat that fails is taken for a
deleted file (569). Told to fetch over such a repository, a refetch backs up
nothing, or not that file, where the guide says that the affected files are backed
up first, and the comments that a skipped walk would silently drop edits (141-144)
and that a path which cannot be checked counts as an edit (552). Without the
exception TLC finds `EditsKept` violated, with one edit and one failed look.

**Assumptions, as a constant.** `Upsets` names what the user may do besides, and
no value but `{}` keeps `EditsKept`. `"detach"`: HEAD is detached or a merge is
under way; see `fetch_detached` below. `"untracked"`: he has a file of his own at a
path that a new commit brings; the checkout overwrites it and nothing backs it up,
as the backup has only what git knows. `"hands"`: he works in the repository while
a refetch does, between the probe and the checkout.

**Bounds.** Two paths, two commits, so that upstream changes, drops and adds a file, one text of
the user's, and two refetches cut short or looks that fail: one that leaves two commits' files on disk
and one that meets them.

**Left out.** Downloads, external tools and the symlink pass; `settle_index` and the
racy entries it is for (a file written in the second of its index is taken to
differ, as the code takes it); the branch names, but for a HEAD on another than the
list's; the guards on the thornlist itself.

## What outlives every command: Registry, Releases, MdbSync, ExeCache

**Registry** (`database.rs`, `commands/{install,uninstall,use_cmd,refetch,knob}.rs`,
`installation.rs::ensure_meta`). `disk` is `database.json`, `tree` what each
installation's directory holds, `cmd` a command with the database it read under
the lock. Readers take none; an update is `TakeLock`, which reads the file again
and may refuse, and `Write`. Between a command's snapshot and its update lie a
prompt, a fetch or the removal of a tree, each a step of its own, and `Die` ends a
command anywhere. `DatabaseTrue` is `ActiveRegistered` and `RegisteredWhole` (a
registered tree was fetched to its end, with its own root directory on record, or
has met an uninstall). `UpdatesKeep` (against the file as it is when
it is replaced, a command changes only what it owns). An install updates the knobs
twice before it fetches: `SeedKnob` writes the derived `user` if the file still has
none under the lock; `Ask` prompts for what a snapshot has not, and the answers are
written whatever the file has by then (`install.rs` 256-279). `UpdatesKeep` excepts
the answers. Aliases in `Shared` are installed and removed by two at
once, for which `RegisteredWhole` is not claimed. `Upsets` names two departures
the run leaves out. With `"look"`, a look at the file that fails counts as a
missing file (`exists()` is false on every error) and the update writes an empty
database over everybody's. With `"relist"`, an interrupted install is run again
with another thornlist, and keeps the root directory on record that the new list
does not have.

**Releases** (`update.rs`, `freeze.rs`, `cactup-init.sh`). `bin/cactup` is a link
to a build; an update persists the new build, swaps the link, takes the new
build's stamp off and stamps the old one retired, each a step; a prune removes
builds whose stamp is `Keep` old. `left` is the time since the link left a build,
`jobs` the builds that submitted jobs name; a job whose build is there runs and may
submit the next (`Run`, `Submit`). What a submission names is found out once per
process (`Frozen`): a plain executable is copied to its versioned name, a versioned
one names itself, its file there or not. Where that file was removed on the same
host, `/proc/self/exe` says " (deleted)", which is no versioned name, and the
process copies itself back; removed on another host, the name stays. Both outcomes
are in the model. `BuildsThere` is both: `LinkRuns`: the link leads to a build, through
updates, prunes, installations and deaths. `JobsStart`: every build that a job
names is there while it is current and for `RETIRED_KEEP` after. It promises no
more: a chain submits for months under the build it began with, and once that build
is pruned its jobs cannot start (updating.md:116-122). One death per behaviour (`MaxDeaths`): after two a stale
stamp can meet a prune before anything takes it off. With `"reinstall"` the
installer, which takes no lock and looks at no stamp, brings back a build that a
prune then takes. Left out is a copy that fails, after which the submission warns
and names the running file.

**MdbSync** (`mdb/sync.rs`). `tree` is the export of each commit, `link` the
generations' links, `stamp` the retirement stamps. A sync fetches, exports, swaps,
stamps and prunes under `.lock`; a command resolves its generation's link once and
reads that tree while it runs. `TreesThere` is both: `LinksWhole`: no link leads to half an export or to
a pruned commit. `ReadersKeep`: a tree stays whole for `RETIRED_GRACE` after a
command resolved it, whatever other generations' syncs do. The tree of a commit
whose removal was cut short still passes for whole when upstream publishes that
commit again: `"revive"`, left out of the run. Left out too: the throttle and the
wait for the lock, which only decide whether a command is a `Resolve` or a `Lock`.

**ExeCache** (`sim/cache.rs`, `sim/mod.rs`, the end of a build). The cache, the
tree and the simulations name one executable by hard links, so the state follows
inodes: `file` their content, `exe`, `cache` and `sim` the names. A create reads
the record, looks for a build, takes the lock, collects orphans by link count,
ensures the entry and links it, each a step; collections by other commands take no
lock. `FrozenIsBuilt`: what a simulation runs is the build its record names.
`Upsets` has three departures, under each of which a simulation can hold one
build under the id of another: `"overlap"` (a create beside a build),
`"failures"` (a build that fails after its executable was linked leaves it under
the old id), `"virtual"` (a prebuilt executable is copied over the inode the cache
links to).

**Bounds** (`home`). Two commands everywhere. Registry: two aliases, one of them
shared, two thornlists, four commands started, which is an install, its
interruption, and two commands beside the next one. Releases: three builds, so that
a build can be retired, brought back and retired again, and a threshold of one
tick: young, and at the threshold. `Releases` was run by itself with two, without a
new outcome. MdbSync (`upkeep_gc`): two commands, two commits of one generation and
one of another. ExeCache: two builds, two simulations, three inodes; a third build
adds an entry that nothing distinguishes from the first.

## The test suite: TestRuns

**Code.** `testsuite/{run,manage,mod}.rs`. A config has one test run: a directory
with one record, `test.toml`, numbered result sets, of which a link makes one
active, `test.lock` and `running.lock`. `test run` executes the suite in the
foreground, `test submit` queues a job whose `test run --test-dir` executes it;
`stop` and `delete` ask the scheduler about the recorded job. There is no reaper.

**State and actions.** `rec` is the record: the job, whether its end is recorded
(`finished`), whether a later stop settled it (`job-stopped`). A start is `Start`
(registered), `Look` (the old record and `running.lock`), `Ask` (the old job; `-f` stops it), `Take`
(`test.lock` and the result set), `Write`, and then `Submit` and `RecordJob`, or the
suite in the foreground. The compute node's side is `JobStarts`, `Handoff` (the
record again, under `test.lock`, which is waited for), `Begin` (`running.lock`, which
is not), `Store`, `SuiteEnds`, `Finish`; a foreground run shares the last four.
`Store` and `Finish` write the whole record from the copy read at the handoff, under
no lock of the record's. `stop` is `StopOpens` (which reads the record before it
takes `test.lock`), `StopJudges` and `StopMarks`; `delete` is `DeleteOpens` (so does
it), `DeleteClears`, `DeleteRemoves`, `DeleteDrops`, or `Prune`. `Die` ends a command
anywhere, `JobDies` a job's process; the scheduler requeues a job it has not let go
of, also one whose run recorded its end, lists an ended one for a while in a state
that no pattern reads ("odd"), and does not answer a query. A query and the stop it
leads to are one step.

**Properties.** `JobsFound`: a job in the queue is the one the record names, or is
about to be, in a directory that is registered and there, so that stop, delete and
the next start find it. `SuiteAlone`: whoever executes the suite does so alone, and
into the active result set. Neither is claimed once a delete took an unanswered
query for a job's end and said so, which is the code's stated reading, or a start a
record that it could not open for none (`missed`).

**What the exception says.** A start checks the old run behind `if let Ok(old)`
(`run.rs` 332), and a record that is unreadable, cut short or of a newer schema is not
`Ok` (`OpenFails`): `running.lock` and the queue are passed over, a new set is
activated beside a suite that may run, and the new record replaces one that may
name a queued job, though the comment above that line says that such a job must be
dealt with first. Without the exception TLC finds both properties violated.

**Assumptions, as a constant.** `Upsets` names what the run leaves out, and every
value but `{}` breaks both properties. `"overlap"`: two commands at a time, but for a
suite in the foreground with commands beside it, which the run has. Stop and delete
read the record before they take `test.lock`, so that a submission that records its
job in between is taken for a run with no job, and its directory removed under the
job; the comment at `manage.rs:636` says it is not. Two starts both find nothing in
their way, and the slower one's record replaces the faster one's job. `"lingers"`: a
job whose stop the scheduler took goes on for a moment, and writes its end over the
record of the next run (`run.rs` 575). `"unrecorded"`: a submission dies between the
scheduler's answer and the record of its job. The requeue window (`REQUEUE_WINDOW`)
is taken to cover every requeue.

**Bounds.** Two terminals, two jobs, two result sets, one requeue, one query
unanswered or record not opened: a run, the next one, and everything that the first one's job may still do.
Three jobs were run apart from the suite of runs, without a new outcome.

**Left out.** Machines whose job ids are pids; a job the scheduler lists as
suspended, in the state that means an ended one; the selection, the scripts, the
summary's text, `show`, `list`, `log`; and `test clean`, which removes what no run
reads.

## Following a log: LogFollow

**Code.** `tail/tui.rs`, `LogTail` and the search prompt. Behind a pane of
`sim log --follow` are two threads. The reader polls the file, appends what is new
to the lines the pane keeps, and drops the oldest past `MAX_LINES`. The main thread
handles keys and mouse, and draws. Its scroll offset, selection and search hit are
indices into those lines; the reader does not touch them, it counts what it
dropped (`evicted`), and the main thread slides them.

**State and actions.** `log` is the file, as numbered units of which two in three
end a line; `tail` how far the reader is; `buf` the lines; `view`, `mode` and `drag`
what the main thread has; `dirty` and `viewDirty` the two reasons to draw. The
window at the end of the file is read in two looks (`SeedLooks`, `SeedReads`), so is
every poll (`Poll`, `Read`), and the flag goes up after the lock is dropped
(`Raise`). The main thread's loop is `Top`, an event or `Tick`, `Autoscroll`, `Skip` or
`Clear`, `Render`, `Written`. An event's handler holds the lock once and is one step,
but for a search, which takes it anew to focus what it found (`Focus`).

**Properties.** `LogWhole`: no unit twice, none left out, each line whole. `FrameDue`:
whatever landed is on the screen or a frame is due. `ViewStays`: from one frame to
the next, with no event between, a paused view, the selection and the hit name the
same lines, or the oldest left. It says nothing of the line a drag started on and of
the offset a search prompt saved, which the code does not slide either.

**Bounds** (`upkeep_gc`). Two lines kept and one shown, a window of three units, one
cut, six steps of log and user together: enough for lines to be dropped between any
two steps of the main thread.

**Left out.** A second pane and the focus between them, resizing, panning, copying,
pacing and colours, and `--follow` where there is no terminal.

## Runs at a glance

| run | instance | shows |
|---|---|---|
| `lock_timely` | 3 processes, 2 hosts, 1 crash | exclusion, no theft, and the refinement, in a timely world |
| `lock_live` | 2 processes, 1 crash, 2 errors, fair | acquires end; a dead holder's lock goes |
| `sim_chains` | 3 restarts, 2 segments, batch jobs | chains, reaping, stop and delete |
| `sim_requeue` | 2 restarts, 1 requeue, foreground runs, fair | requeued runs; every job leaves the queue; the inductive invariant |
| `sim_failed_queries` | 2 restarts, 1 failed query, submissions may die unrecorded | the reaper spares runs |
| `cache_share` | 2 wrappers, 1 file, 1 edit, 1 fault or stall, fair | sharing is safe, names are whole, the refinement; the store heals |
| `upkeep_gc` | 1 key, 3 logs, gc beside a build, any failure; 2 syncs of the machine database; a followed log | nothing in use is removed, no use is forgotten; links lead to whole trees; the pane shows the log |
| `build_sources` | 1 thorn, 2 providers, 4 changes | "up to date" is true; deleted configs stay deleted |
| `build_jobs` | 2 terminals, 2 attempts, 1 requeue, 1 failed query, fair | no job, no outcome is lost; one build at a time; watches end |
| `home` | a refetch and its user; registry, releases and executables, 2 commands each; a config's test run | sources, registry, binaries and executables, through deaths and overlaps; test jobs and suites, through deaths and requeues |
| `build_preempted` | as `build_sources`, 3 changes, escalated builds requeued | violated: an executable of mixed sources is called up to date |
| `fetch_detached` | one edit, a HEAD that may be detached | violated: an edited file is fetched over without a backup |

Every property of a passing run has a mutant in `PROJECT.json`: one definition
with a plausible slip, named after it in the module (`Reread_FirstVerdict`,
`Callback_OwnCopy`, ...), under which TLC finds the property violated. Deadlock is
checked for the lock, where somebody can always begin an acquire; a deleted
simulation, a cache whose edits and faults are used up, a store at the end of its
bounded clock, and commands that have used up their bounds may stop. The type
invariants are theorems where a module has proofs; `SimInv` and `HomeTypeOK` have
them in the runs too.

## What is proved, and what is only checked

TLAPS proves the following for every value of the constants the assumptions
admit: any number of processes, hosts, restarts, builds, files and inodes.

**LinkLockProofs.** `TypesHold` in any world. In the timely world `Exclusion`,
`OneBreaks`, `NoTheft` and `Implementation`, all from `TimelyInv`, the conjunction of three
facts. A holder's file is at the path and younger than `LockStale`, and so is
the temp file of whoever is about to link. Whoever breaks has the side-lock, and
it is younger than `BreakerStale`, so that it is never swept. What a breaker has
judged stale under the side-lock is nobody's: only a break or a dead owner's file
is left at the path, and since no acquire can succeed while a file is there, it
stays so until the rename. Neither exclusion nor `NeverStolen` is inductive
without the second and third: the rename removes whatever file is there, and only
the history of the two judgements says whose it can be.

**SimLifecycleProofs.** `Invariance` of `SimInv`, which has three layers, each
inductive only on top of the one before.

1. In any case: `TypeOK`; `LockInv`, `LinkInv` and `CmdInv` (commands and handoffs
   exclude each other, and there is no link between a handoff's two steps); `MadeInv`
   (restarts are made in order); `RunsInv` (which command is at which step, which process
   is a job's, what the restart at hand may look like, whose heartbeat is fresh);
   and `JobInv` if `JobsRecorded`: what a process read under `sim.lock` and writes
   back names its job. From it follow `OneLink`, `JobsOnRecord` and, where launches
   are quick, `RunsAreSpared`: `HeldLive` can say no only of a process without its
   `running.lock` and with a stale heartbeat, and `BeatInv` says that this is none that
   began.
2. Where every query is answered, submissions record their jobs, launches are quick and
   nobody cleans (`Certain`): `PartedInv`. What the reaper judged dead, and what a stop
   waited for, stays parted from queue and run until its link and its record are
   written, since only a launch or a new job brings a restart to life and both are made
   for a new restart. `EndsAreTrue` and `TheDeadAreReaped` follow.
3. Where, besides, users wait and deletes remove (`Orderly`): `OrderInv`. Of what is
   `Ahead` (a run, or a job that may still take the link) everything made later is
   `Behind`, queued with a dependency that is no earlier; what has begun has the link;
   and a submission, at each of its steps, knows of everything that is ahead of the
   restart it makes (`SubmitInv`), from the reaper's look to the last job it queues.
   `OneRun` is not inductive without this: that two jobs never run together is
   decided when the second is chained, not when it starts. `RunsAlone`,
   `TheRunIsActive`, `JobsAreSpared` and `ForegroundIsSpared` follow.

**ObjectCacheProofs.** `Invariance` of `CacheInv`, and from it `EntriesAreTrue`,
`NamesAreWhole`, `LinksAreStored`, and `Implements`: the whole module implements
`CompileService`. The heart is `KeyInv` and `MadeInv`: from the moment a wrapper
has taken a file's stamp, as long as the stamp is unmoved the file holds what the
wrapper read, hence so did the compiler and the second preprocessor run. Taken
after the bytes, the stamp would say nothing. At `publish` all stamps were found
unmoved one after the other, each at a moment after the compile read that file,
which is why `made[p] = files[p]` then, though an edit may have come since. The
refinement maps an idle, running or finished wrapper to the service's `status`,
and its result to the output; a served compile uses `DiskInv` for the entry's
truth and `KeyInv` for the files' having been as in the key while it ran.

**UpkeepProofs**, about `CacheUpkeep`. `Invariance` of `Inv`, and from it `UsedSpared`,
`RemovalsSeen` (of `RemovesWhatItSaw`, with its two exceptions) and `UsesKept`. `WalkInv` says what a walk that read `used/` may
rely on: the logs it read are still there, as only a `gc` removes logs, and any
other is newer than the `gc`. `AgeInv` carries the plan's judgement to the last
removal. `FoldInv` is the order of `carry_out`: once the first old log goes, each
use to keep is in a log that is not among those to be removed.

**ConfigBuildProofs.** `TypeCorrect` in any world. Where the assumptions hold
(`Careful`: `SettledTree`, `ForcesAfterFailure`, no `RequeueEscalated`), `Inductive`
states the invariance of `IInv`, and `UpToDateHolds` and `DeletedHolds` follow.
`IInv` says for each stage of a build what the objects may hold given the records
of the last success: what the decision found unchanged is what the objects were
compiled from or is newer than them (`ProbeHolds`), what it found changed is in
the plan (`PlanHolds`) until the build has removed it (`Progress`), and a settled
config's records and objects agree (`Settlement`). `UpToDateIsTrue` looks at one
decision, and only the history of the builds before it can say why the records
may be believed.

**BuildAttemptProofs.** `AttemptInvHolds`: the invariant `AttemptInv`, and from it
`JobsKnownHolds`, `NeverChainHolds` and `OutcomeKeptHolds`, each under the constants its
property needs and no others. `NumberInv` (a number is given once) and `OwnInv` (an
attempt has one job, and nothing else names it) hold in any world: they are what
lets a step of one attempt be told apart from all others. `JobsKnown` needs
`StopsInPeace` and `JobsRecorded`: where a record names no job its submitter still
waits, and it leaves only by recording. `NeverChain` needs `StartsApart` too: only
the latest attempt is busy, and between a start's guard and its job nothing is
(`StartInv`). `OutcomeKept` needs `StopsInPeace`: a copy that is about to be written
says incomplete while its attempt's record does (`StopInv`, `RunInv`).

**UpkeepProofs**, about `MdbSync` and the three together. `SyncsKeep`: the invariant
`MdbInv`, where at most one command dies and no tree is taken up again (`Modest`).
`StampInv` is the reason why links lead to whole trees: until the first death a
linked tree bears no stamp, except one that was linked a step ago. `ReadInv` is the
argument for readers: a tree that is read is linked, or unstamped, or about to be
stamped, or was stamped no longer ago than it was resolved, so that a prune's grace
runs out after the reader's. `PartsRun` says that a behaviour of `Upkeep` is one of each
of its components, and carries over what is proved of `MdbSync` (`TreesHold`, for
`TreesThere`) and of `LogFollow` (`LogIsWhole`, `FramesDue`, `ViewsStay`).

**LogFollowProofs.** `PaneHolds`: the invariant `PaneInv`, for any sizes of file, seed,
buffer and screen, and any keys. From it `LogIsWhole` (`LogWhole`), `FramesDue`
(`FrameDue`) and `ViewsStay` (`ViewStays`). `LogWhole` compares the lines with each other
and is not inductive: `TailInv` adds that the reader goes on where the lines end, and
that the last line is open just when it has no newline yet. `ViewStays` compares two
frames, between which the reader may drop lines at any step of the main thread;
`StaysInv` says in between that the view is where the last frame left it, less the
lines that were dropped and are already folded in (`Gone`), so that the fold within
the next frame makes up the difference. `PlaceInv` is what an event relies on: a mode
that selects has a selection, a hit to be focused has a search. What one `ingest` makes
of all that was read is the one induction: the function `Puts` goes through the units
one by one, and `PutsKeep` takes the least prefix after which the lines would not be
whole, which cannot exist.

**HomeProofs**, about `Fetch`. For any paths and commits, any number of edits and of refetches
cut short, where the user does none of `Upsets`: `Typed`, `Invariance` of `Inv`, and
from it `EditsSpared` (`EditsKept`). `Inv` says that from the moment a refetch may
write, each text of the user's in the directory is kept, or at a path that upstream
never uses, so that neither checkout nor sweep comes near it, or is one for which a
look of this refetch failed (`RepoInv`, `CmdInv`).
It holds at that moment by `ReasonSays`: a repository that probes as clean has no
text of his at a path of upstream's, one that probes as an unfinished checkout
none that is not a commit's, and the backup copies what the other reasons name, but
for the files that the refetch is `blind` to.
`FetchedWhole` (`FetchedIsWhole`) adds `WholeInv`: what is still to be written is all in
which the directory differs from the target.

**HomeProofs**, about the instances of `Home`, which has each with its `Upsets`
empty. `HomeParts`: a behaviour of `Home` is one of each of its components, so that
what holds of a component holds of it.

- `DatabaseIsTrue` (`DatabaseTrue`) and `UpdatesAreKept` (`UpdatesKeep`, which excepts
  the answers to an install's prompt), from `RegInv`. The
  file alone says too little: what an `install` registers was fetched long before it
  took the lock. So `LockInv` says that the one command which is about to write read
  the file as it still is, and `InstallInv`, of an alias that is not `Shared`, at each step of
  its install what the tree has by then; that nobody else touches that tree
  is `SoleInv`, which users see to outside `Shared`.
- `FrozenAreBuilt` (`FrozenIsBuilt`), from `ExeInv`. An inode has many names, and what is
  written through one is read through all. `TreeInv` and `EntryInv` say of the config's
  name and of each entry what a name promises of its inode, at each step of the
  build; a build that writes has unlinked its output first, and between a create's
  look and its links no build is under way (`CreateInv`, `HoldInv`).
- `TheLinkRuns`, the first half of `BuildsThere`, however many processes die, and
  `BuildsStay`, all of it where at most one dies, from `BinInv`: updates, prunes and
  installations exclude each other (`OneBusy`), and a stamp that is older than the
  time since the link left its build is of the current build, or of one being
  retired (`AgeInv`), so that a prune takes no build that left the link less than
  `Keep` ago. What runs from the file of such a build has the file (`RunInv`): this is
  why a job's process may name it without a copy. The current build has a stamp of
  old only after a death (`StampInv`). The hypothesis is
  needed: with two deaths TLC finds a job whose build was pruned too early.
- `JobsAreFound` (`JobsFound`) and `SuitesAlone` (`SuiteAlone`), from `TestInv`, through
  any number of jobs, result sets, requeues, deaths and unanswered queries. Commands
  look first and act many steps later. `CopyInv` says that what they saw is still so:
  from the moment the last run is found to be over until the next one's job is
  submitted, or the directory removed, nothing is queued and nothing runs (`Calm`).
  `RecordInv` has the one job that the scheduler may have on record, or in the hands
  of the command that is about to record it; `ExecInv` has one process at most, whose
  copy of the record agrees with it, so that writing all of it back loses nothing.
  `TestAtInv` holds whatever the scheduler answers, the rest until a delete takes no
  answer for an end, or a start a record that does not open for none.
- `HomeTyped` (`HomeTypeOK`), from the five components' invariants, under the hypothesis
  of `Fetch`'s (`Upsets` is empty).

Checked by TLC only: everything that has to happen eventually (`AcquireEnds`,
`CorpseGoes`, `JobsLeave`, `Heals`, `WatchEnds`), since the prover has no rule for
`ENABLED`; and the two findings. Every other property of the runs is a theorem's. No
module declares a recursive operator.

## Disagreements found

`build_preempted`: `build/mod.rs` decides on a full build when the sources moved
under a queued one, writes "full" into the attempt's record (2654), and only then
cleans the config. A build that the scheduler kills in between and starts again
finds the record saying what it wanted to decide, takes the escalation for done,
and cleans nothing (2559-2567). Make then keeps what it has no reason to doubt, the
build succeeds, and an executable of mixed sources is called up to date. The
other runs keep such requeues out (`RequeueEscalated`).

`fetch_detached`: the user's guide says that a refetch leaves alone a repository
with a detached HEAD or a merge or rebase in progress, and that
`--overwrite-modified` fetches over it "anyway — the affected files are backed up
first" (getting-started.md:189). The probe reports both before it looks at any file
(`git.rs` 114-127, 168-174), so that the reason carries no paths; `backup_dirty`
(`refetch.rs` 1118) copies files for the two reasons that do, and the forced align
then writes over every file. The comment there relies on the reflog, which has
commits and not the files that were edited.

Other departures are narrower, and kept out of the runs by constants whose
value names what they assume. Each is described in its module's section and
listed as a hazard at its line. Where the table names no constant the departure is in
the runs, and the property named excepts it; TLC finds that property violated
without the exception.

| constant | what happens without it |
|---|---|
| `TimelyBreakers`, `BreakersFinish` (`LinkLock`) | the age of a dead breaker's side-lock is read before it is removed, and the removal does not look whose it is by then: two processes break at once, and the slower takes away the lock the faster has acquired |
| `UserWaits` (`SimLifecycle`) | a submission beside a waiting chain forks it: two runs at once |
| `QuickLaunch` (`SimLifecycle`) | a delete between a foreground run's launch and its `running.lock` removes the directory under the run |
| `DeletesRemove` (`SimLifecycle`) | a delete that dies between the stops and the removal leaves a requeued job that takes the link from a later run |
| `JobsRecorded` (`SimLifecycle`, `BuildAttempt`) | a submission that dies after the scheduler took its job leaves a job no record knows |
| `StopsInPeace` (`BuildAttempt`) | a stop writes a stale copy over a success recorded meanwhile |
| `StartsApart` (`BuildAttempt`) | two starts pass the guard together and both submit |
| `ForcesAfterFailure` (`ConfigBuild`) | objects of a build that failed are reused after its change was taken back |
| `Upsets` (`Fetch`) | `"detach"`: above; `"untracked"`: a file of the user's at a path upstream adds is overwritten; `"hands"`: an edit after the probe is |
| `Upsets` (`Registry`) | `"look"`: a failed look at the database empties it, although an update touches "only the keys the caller owns" (`database.rs` 514); `"relist"`: an install run again keeps a root directory its thornlist does not have |
| `Upsets` (`Releases`) | `"reinstall"`: a build the installer brought back is pruned |
| `Upsets` (`MdbSync`) | `"revive"`: half a tree that a prune left passes for whole when upstream publishes its commit again |
| `Upsets` (`TestRuns`) | `"overlap"`: a delete takes a run that is being submitted for one with no job, against the comment at `manage.rs:636`; `"lingers"`: a stopped job writes its end over the next run's record; `"unrecorded"`: a queued job no record knows |
| `Upsets` (`ExeCache`) | `"overlap"`, `"failures"`, `"virtual"`: a simulation holds one build under the id of another |
| (`EditsKept`, `Fetch`) | a refetch told to fetch over a repository that it could not look at, or a file that it could not, backs up nothing of it, against getting-started.md:189 and the comments at `git.rs` 141-144 and 552-553 |
| (`UpdatesKeep`, `Registry`) | what an install is answered replaces a knob that was set while it asked (`install.rs` 274), though by `database.rs` 7-9 "a long command can never clobber an unrelated change made while it worked" |
| (`RemovesWhatItSaw`, `CacheUpkeep`) | a failed look at its entry removes a record (`upkeep.rs` 506), which by the comment at 500-501 goes when the entry is gone |
| (`JobsFound`, `SuiteAlone`, `TestRuns`) | a record that does not open is replaced although it names a queued job (`run.rs` 332), which by the comment at 330-331 must be dealt with first |

## Not modelled, and what remains

- **The cache's size stamp** (`add_to_size`, `stamp_size`, `cache stats`) is an
  estimate that decides nothing but whether a notice is shown.
- **Key material, Fortran, CUDA**: which inputs decide an object is a question about
  compilers. A model could only repeat the code's lists.
- **Fetch**: one repository is modelled. Downloads, external tools and the symlink
  pass write files no other part reads back; the racy index (`settle_index`,
  `reconcile_exec_bits`) is a question of timestamps within a second, for a module of
  its own. A prune deletes the reflog with the repository, and so what was only
  there: `EditsKept` counts what was committed as kept.
- **Machine database contents, discovery, walltimes, layouts, templates,
  thornlists**: functions of their input without state.
- **The command line, reports**: display and dispatch.
- **Machines whose job ids are pids**, `create -f` under a live job, and the cache's
  audit mode are left out of the modules they belong to.
- **Proofs**: liveness is checked by TLC only.
