# A verification of preheat in TLA+

preheat is a daemon that watches which applications run, learns which of them
run together, and reads the files of those it expects next into the page cache.
This directory holds TLA+ models of its parts, the TLC configurations that check
them on small instances, and theorems about them that TLAPS proves for every
value of their constants. `PROJECT.json` names the source lines each definition
stands for.

Commands, in this directory:

    tlc -workers 2 -config ExeModelTable.cfg MCExeModel
    tlapm ExeModel_proofs.tla

Every safety property that a run checks is also a theorem (section 4); the
properties about time to come are left to TLC.

## 1. The system

One process and, but for the children that read files, one thread: a GLib main
loop runs one handler at a time. Handlers are the two half-cycle ticks, the
autosave timer and `sig_handler_sync`. Only the signal handler proper can
interrupt another handler. What makes the program hard is therefore

- the order of handlers: a scan leaves lists of pointers that the update reads
  half a cycle later, and an autosave, a reload or a save may run in between;
- state kept twice and changed in steps: a running list and the timestamps that
  define it, a table and an array of the same maps, counters and the walk they
  count, memory and its file;
- what survives a kill, a power loss or a restart;
- other processes: the children, a second daemon, `preheat-ctl` and the files
  it edits while the daemon reads them.

| Component | Source | State it keeps | Operations | Talks to | What makes it correct |
|---|---|---|---|---|---|
| Tick loop, executables | `state.c`, `state_exe.c` | table of executables, clocks, the dirty flags | tick, tick2, register, reload of manual apps, save, evict | spy, chains, file | nothing freed stays referenced; what is learnt is saved |
| Markov chains | `state_markov.c` | a four-state chain per pair: counters, mean stays, time | create, change state, mesh, free | executables | one walk per chain, one chain per pair, states that agree with the executables |
| Spy | `spy.c` | running list, lists of changed and new executables | scan, update | `/proc`, chains, registry | lists agree with timestamps; times stay nested |
| `/proc` reader | `proc.c` | none | list processes, read maps | spy, registry | an early end of a process is harmless |
| Map registry | `state_map.c` | reference-counted regions, in a table and an array | find or make, count, register, free | spy, prediction, session, file | a region is one object, in both or in neither |
| State file | `state_io.c`, `kp_state_save` | the file and a temporary one | write, read, set aside | tables | reads back whole, through any crash |
| Seeding | `seeding.c`, `desktop.c`, `pattern.c` | none | find applications on first run | tables, chains | chains of the seeded are unique |
| Families | `state_family.c` | families and a reverse index nobody reads | load, replace, sum up, save, free | configuration, file, statistics | what is configured is in force, no launch counted twice or dropped |
| Prediction | `prophet.c` | probabilities | bid, choose maps within a budget | chains, registry, readahead | what is read fits in free memory, likeliest first |
| Readahead | `readahead.c` | children under way | sort, merge, fork, wait | prediction, kernel | everything wanted is read, nothing else; limits kept |
| Session | `session.c`, `lib_scanner.c` | boot window | load the maps of the top applications | registry, prediction | within the window of a login; a map bids once |
| Pause | `pause.c`, `ctl_cmd_basic.c` | pause file, the daemon's copy | pause, resume, expire | `preheat-ctl` | the latest command wins |
| Signals | `signals.c` | four flags, queued calls | handle, reload, dump, save, quit | main loop | no signal is lost |
| Main, single instance | `main.c`, `daemon.c` | PID file and its lock | start, lock, write, stop | other daemons | one daemon at a time |
| Statistics | `stats.c` | hits, misses, preload times, pools | record, dump, save | spy, file | counts match launches, classes follow the lists |
| Configuration, blacklist | `config.c`, `blacklist.c` | settings, lists, time of the blacklist | load, reload | all | a reload takes effect everywhere |
| `preheat-ctl` | `tools/` | none | edit lists, signal, display | files the daemon reads | no edit is lost, and the daemon sees it |
| Logging, common code | `logging.c`, `common.h` | a file handle | log | all | output only |

## 2. The modules

| Module | Models | Checked by |
|---|---|---|
| `MarkovChain` | `kp_markov_t` and the operations on one chain, as operators | `exe_learn`, `exe_table` |
| `ExeModel` | the tables of executables and chains with every handler that changes them | `exe_learn`, `exe_table`; proved in `ExeModel_proofs` |
| `MapRegistry` | maps, exemaps, their counts, the table and the array | `maps`; proved in `MapRegistry_proofs` |
| `RegionSet` | abstract: the set of regions in use | `Promise` of `maps` |
| `StateFormat` | the lines of the state file, written and read | through `StateFile` |
| `StateFile` | saving and starting, with failing steps, kills and power losses | `state_file`, `state_preload`; proved in `Daemon_proofs` |
| `SavedTables` | abstract: the tables saved last, or after a power loss those before | `Promise` of `state_file` |
| `Readahead` | one call of `kp_readahead` after another, with its children | `readahead`; proved in `Readahead_proofs` |
| `Signals` | the handlers and the main loop | `signals`; proved in `Daemon_proofs` |
| `InstanceLock` | daemons that start, stop and are killed around the PID file | `instance`; proved in `Daemon_proofs` |
| `Launches` | the processes a scan sees, launches, hits, misses, seconds | `launches`; proved in `Launches_proofs` |
| `Clock` | the time that passes for the next three | through `DaemonTick` |
| `Pause` | `preheat-ctl pause` and `resume`, the pause file, the daemon's copy | through `DaemonTick` |
| `Prediction` | the boot window, boosts, scores and the budget of one tick | `prediction`, through `DaemonTick`; proved in `DaemonTick_proofs` |
| `DaemonTick` | the predicting half of `kp_state_tick`: composes `Pause` and `Prediction` | `daemon_tick`; proved in `DaemonTick_proofs` |
| `AppPaths` | what a name, a path, a wrapper or a desktop file resolves to, and the class of an executable, as operators | through `Reload` |
| `Lists` | the files a user configures the daemon by, and the `preheat-ctl` processes that edit them | through `Reload` |
| `Families` | the table of families, its lines in the state file, the rows of the summary | through `Reload` |
| `Reload` | what the daemon reads of those files and derives from them, from start to end: composes `Lists` and `Families` | `reload`; proved, with `Lists`, `Families` and `AppPaths`, in `Reload_proofs` |
| `SumLemmas` | lemmas on numbers, finite sets and sums | used by four of the modules with proofs |

`MC...` modules give the constants their values. They and the `.cfg` files
replace no definition. Operators that carry the name of another definition and a
suffix (`StoppedAgainstLastScan`, `LockAnyway`, `KeptBefore` ...) are slips the
code could have: `PROJECT.json` lists under `mutants` which property each breaks.

### ExeModel

Each handler of the main loop is an action, because nothing interrupts one.
`Tick` is `kp_state_tick` with `kp_spy_scan`; `Tick2Learn` is `kp_state_tick2`
with all of `kp_spy_update_model`: registering what is new, noting changes,
moving the chains and accounting for time, in the order of the code.
`Tick2Idle` is the same tick with nothing scanned, `Tick2Overwrite` the one that
inserts a path twice, after which the table is corrupt and the model stops.
`Reload`, `Save`, `Autosave` and `Stop` are the other handlers, each with the
save it ends in. `phase` is the timer that is armed.

The prediction that runs at the end of `kp_state_tick` is not in this module: it
changes only probabilities and maps. `Init` covers a first run with seeding, a
start from a file, and a start from a file with an error (`LoadedTable` with `ok`
false): what was read before the error stays, seeding adds to it, and nothing notes
what runs or sets the state of a chain. `state_preload` shows that any start after a
preload is of that kind. Chains from a file have a `change_timestamp` nothing has
set, after an error no `state` either: `Garbage` and `GarbageStates` are the values
the memory may hold. A file gives chains back the way round they were saved, which
the new table may order otherwise; `MeshPairs` looks for a chain both ways round, as
the code does. A chain whose state is not one of the four counts its first move
outside its weights: `Tick2Stray` is that step, and the model stops there. The
history `doubtful` has the chains of which a property can say nothing before their
first move. Abstractions:

- `total` and a chain's `time` are exact; `time_to_leave`, a running mean in
  floating point, is kept as the sum it is the mean of (`stay`);
- `weighted_launches` is the set `heavy` of executables above the threshold 0.1
  that eviction asks about, and grows in any scan that saw the executable;
- counters of a chain read from a file begin at zero (the walk is the one seen
  by this run);
- the pool of a discovered executable is arbitrary: the constructor does not set
  it before classification reads it.

### MapRegistry

A map object is a region and the number of the object made for it, since two
objects can stand for one region. `Discover` reads `/proc`, where an executable
may show a region several times and gets an exemap for each; `LoadFiles` is the
loading of whole files by prediction and session, which looks nothing up, at any
time and of each file as often as it is listed: `kp_scan_libraries` lists a library
twice that both `ldd` and the directory of the application have
(`lib_scanner.c:91-149`). A second object of a region is refused by the table, but
counted; freed as the last of its users goes, it takes the entry of the first along.
The histories `doubled` and `robbed` have the regions this happened to. `Free` is
eviction and, after `Close`, `kp_state_free`. `DiscoverLate` is a
process that ends between the two reads of its maps; the caller then frees a set
that was never assigned, and the model stops.

### StateFormat, StateFile

A file is a sequence of lines, a line a tag and what it is about. `Wrong` says
which line is an error given those before; `Read` keeps what precedes the first
one, as the code does. Lines of bad executables, PIDs and families are left out
and so are numbers within lines. `StateFile` takes `kp_state_save` apart into
its system calls, any of which may fail, with `Killed` and `PowerLoss` between any
two. The names of this module and of InstanceLock tell them from those of Signals
(`SavingNext`, `LockNext`), since `Daemon_proofs` extends the three. The file system
is external: rename is atomic, what was not synced may be cut, here at the end of a
line.

### Readahead

The steps of the loop over the sorted maps, of `process_file` and of
`wait_for_children`; `ChildExits` may come at any time. Regions carry real
offsets and lengths, because merging is arithmetic on them. `SIGCHLD` is set to
`SA_NOCLDWAIT`, so `wait` returns when the last child is gone, and `procs` is
then 0 whether or not it counted right.

### Signals

`Signal` interrupts between any two steps. `sig_handler_sync` is split at each
test, each clearing and each piece of work. The main loop is GLib's and
external: it holds the lock of its context part of the time; a signal that
comes then waits in `g_timeout_add` for the thread it interrupted, and the
daemon hangs (`stage = "stuck"`).

### InstanceLock

Each attempt to start is a process. A name refers to a file or to none; a file
that was unlinked can still be open and locked. `Run` rewrites the file by name;
`Quit` unlinks it by name; `Release` and `Unlink` are the two halves of
`release_pidfile_lock`. The children a daemon forks in its ticks inherit the
descriptor: when it is killed, `Children` may hold the lock until `ChildrenEnd`.
Errors of `open` and `flock` after which the daemon
goes on without a lock (no permission, no directory) are left out.

### Launches

`procs` is what `/proc` would show; the actions that change it (`Start`, `Exec`,
`Exit`, `Orphan`) belong to the system and happen between any two ticks. `Scan`
is the part of `kp_spy_scan` that deals with PIDs: `clean_exited_pids`, then
`track_process_start` or `update_weight_for_pid` for every process. `byUser`
stands for the walk up the parents that `is_user_initiated` makes. `credited`
and `total` are seconds: the weight that is computed from them is a logarithm in
floating point. `Stop` and `Restart` are a shutdown with its save and a start
that reads the PIDs back; a kill would lose what came after the last save, and
is in StateFile. Preload times are not read back, since the file that holds them
is set aside (`state_preload`). Which executables a tick preloads is an input.
`Switch` is a reload of `system.doscan`: a tick without a scan still predicts, and
what it preloads of an application whose process no scan has tracked is noted in the
history `overlooked`. `MaxTime` bounds the clock; nobody starts anything at its end.

### Pause, Prediction, DaemonTick

`CtlOpen` and `CtlClose` are the two moments at which `cmd_pause` changes the
file: `fopen` truncates it, `fclose` writes it. A tick asks `kp_pause_is_active`
and is one of `PausedTick`, `OpenTick` and `ExpireTick` with `UnlinkedTick`: in
between, the file may be written anew, and is removed all the same.

`Predict` is the rest of the tick: `kp_session_check`, the boosts of the session
with the maps they load, then `kp_prophet_predict`: every score is zeroed, the
manual applications are boosted, the chains bid, the maps are scored and sorted,
and the longest prefix that fits in the budget is read ahead. A score is the
logarithm the code keeps, in whole numbers; what all chains bid for an
executable together, the percentages of the configuration and the memory the system
has are inputs, of which `Budget` makes the kilobytes as `kp_prophet_readahead`
does, and `Kb` those of a map. The boost of -15 that the session gives has no part
in this: the prediction of the same tick overwrites it (section 5).

`login` is what `get_session_creation_time` reads, `st_ctime` of `/run/user/UID`. It
moves with every entry made or removed there (`Touch`); the comment at
`session.c:183-185` says that is rare. A map is a whole file, whose object the
registry makes once: of several exemaps loaded for it, by listing a library twice or
for two applications, the first is in `exemaps` and the others in `refused`, where
they neither bid nor are read. The number of a refused object was never set, so that
a save writes its exemaps with any number: `StopPrediction` lets each be read back as
one of another registered map (`Strays`), or end the reading (`Kept`).

### AppPaths, Lists, Families, Reload

`Lists` has the edits. `AppendEntry` is the `fopen("a")` and `fclose` of
`promote` and `demote`, which `Add` begins by looking for the entry. A `reset`
handles `apps.list`, then the blacklist, each in three steps: `OpenTemp` opens
and reads the list and truncates the temporary file, `CloseTemp` writes what
stdio buffered, `Replace` renames or unlinks the temporary name. Names refer to
inodes, since what a process has open stays open when the name goes to another
file, and since the temporary name of a list is the same for every process. The
last step of a command is `Signalled`, which `Signal` of `Reload` joins with what
the signal does to the daemon. `KillCtl` may end a command at any step;
`AppendFails` and `NoList` are the errors. `Configure` stands for an editor that
saves `preheat.conf` in one step, and for `preheat-ctl reload`. All entries are
equally long, so a write over another process's file replaces whole lines.

`Reload` takes a start and a reload apart where another process can come in
between: `Start` or `ReloadConfig` (`kp_config_load` with the manual list),
`Stat` and `Read` (the blacklist: its time of change is noted before it is
read), then for a start `Handle` (`kp_signals_init`) and `Load`, for a reload
`Sync`, which is `kp_state_register_manual_apps` with the save that follows.
`Scan` and `Discover` (the two ticks), `Autosave`, `Dump` and `Stop` are the other
handlers as far as they touch classes, launches and families; a start that finds
nothing in the state file seeds any of the executables. A step of the signal's way through the
main loop is in Signals, a save that fails in StateFile, a weight that is not
zero but small in ExeModel. `pool` has the class of every known executable; a
discovered one gets any class, since the constructor does not set it.

`Families` keeps, besides the members, the names that the summary has freed:
what a later save writes for such a family is `FamiliesWritten`, and `Abort` is
the second free. The records in `saved` are the classes, launches and families
of the state file.

## 3. The runs

Runs that pass:

| Run | Question | Bounds, and why they are enough |
|---|---|---|
| `exe_learn` | Do the counters of a chain come from one unbroken walk (`WeightsFormWalk`), and its stays add up to its age (`StaysAddUp`)? | two executables, so one chain through all four states in any order; three cycles of three seconds, so that states are left and entered again; a cycle is odd, and its halves differ; scanning may be switched off and on; a file with an error leaves a chain in a state of the four that nobody set (`exe_table` has one out of range) |
| `exe_table` | Do the lists, the timestamps and the chains agree whatever runs between the ticks (`NoDangling`, `RunningExact`, `MarkovAgrees`, `TimesNested`, `OneChainPerPair`)? | two executables, one manual and one blacklisted; eviction as soon as the age allows, so that autosave frees in the middle of a cycle; saves that fail; starts from a file with an error, with states in and out of range and timestamps past and due |
| `maps` | Are the counts exact and the table, the array and the users in step (`RefsExact`, `TablesAgree`, `FreeLeavesNothing`), and does the registry implement a set of regions (`Promise`)? | two executables, of which one lists its library twice and the other once, while `/proc` may show it to both; three objects of a region at a time, each shown up to twice. What a second object does to its region is excepted by each property in its own way (`doubled`, `robbed`) |
| `state_file` | Does the file read back as the whole of the last save or the one before (`Promise`, `SavingTypeOK`), does the file catch up (`SavesGoOn`)? | two tables to change between, of which one has every kind of line; open, write and rename may fail; kills and power losses anywhere. The sync succeeds: if it fails a power loss may cut the file |
| `readahead` | Are the limit on children and the merge right (`WithinLimit`, which also says that none is left at the end; `AllRead`, `MergesRight`), and does a call return (`Returns`)? | every subset of five maps that overlap, touch or are apart, sets with a map in another, and with a replaced library; all three sortings; limits 0, 1 and 2; forks may fail |
| `signals` | Is any signal forgotten (`NoneForgotten`) or unserved (`EachServed`)? | two signals of each kind, so that a second one meets the service of the first |
| `instance` | Do the lock and the daemons agree (`LockExact`), and until one is stopped, is there one (`OneDaemon`) that the file names (`NamedDaemon`)? | three processes that may start again, so that one can start while two others are in the middle of stopping; three files |
| `launches` | Is no process a launch twice (`LaunchesAreNew`), is a hit for a preload that came first (`HitsCameFirst`), is the next launch seen (`RestartsCounted`), and does every second count once (`SecondsBalance`)? | two executables, one with a desktop file, and two PIDs, so that a PID is used again by either; ticks one or two seconds apart in a window of three, so that a preload comes in time and too late; scanning off and on; five seconds, enough for two runs of an application and a restart in between |
| `prediction` | Is what is read the most needed part (`MostNeededFirst`), does it fit in free memory (`FreeMemoryOnly`), and does no application bid twice for a map (`BidsOnce`)? | one application seen running and one known by name only, with a library in common that the latter lists twice; a `minsize` that changes between ticks; percentages beyond their limits and below zero, with memory just too small for two maps of which one ends within a kilobyte; restarts with stray exemaps. Time stands still and the boot window is open after a login: the order of ticks, loads, reloads and restarts decides here, not their times |
| `daemon_tick` | Does a pause survive a restart (`RestartHonoured`) and end (`PauseEnds`), and do boosts stay in the boot window (`BoostsAfterLogin`)? | one application; pauses of two seconds and until reboot, a window of two seconds, four seconds in all: a login, or a later change of its directory, can be noticed in its window, at its end or after it |
| `reload` | Once all commands are served, is in force what the files say (`FilesInForce`)? Do the classes follow lists and rules (`PoolsFollow`), does the summary count every launch once (`SummaryCountsOnce`), and is an edit lost only where section 5 says so (`EditsKept`)? | two commands at a time and two in all (the processes are symmetric), each of promote, demote, reset and configure, so that any two meet at any step; two seconds, so that edits fall in one second and in two; one executable with a desktop file and one behind a wrapper, manual, blacklisted, both or neither; one family that is saved, configured anew and invalid; with each command left out, three more scans, autosaves, dumps and ends of the daemon |

Each component has one type invariant, checked by itself in `exe_learn` (`TypeOK`)
and `state_file` (`SavingTypeOK`), and as a part of `TablesAgree`, `MergesRight`,
`SecondsBalance`, `LockExact`, `BidsOnce` and `FilesInForce`; that of Signals is
proved. `WeightsFormWalk` includes that the counters of a chain add up.
`TablesAgree` is the conjunction of `ArrayIsTable`, `OneObjectPerRegion` and
`UsedIsRegistered` with the types, `MergesRight` that of `NothingUnwanted` and
`RequestsApart`.

A run that TLC finds violated, for a sentence of the repository that the code
does not keep:

| Run | What happens |
|---|---|
| `state_preload` | Preload times are written under the tag of the header, and reading takes them for a second header. After any preload, the next start sets the file aside as corrupt. |

`CHECK_DEADLOCK FALSE` is said where the model really stops: after `Stop` and at
`MaxTime` in ExeModel, at `MaxTime` in Launches and DaemonTick, after
`kp_state_free` in MapRegistry, when the daemon ended or hangs in Signals, when
all `Files` were created in InstanceLock,
when the bounds of Reload are reached with the daemon down or `preheat.conf`
invalid.

The bounds are constants or guards: `MaxTime` (clock), `Copies`, `MaxLists` and
`MaxShows` (objects, listings and mappings of a region), `MaxCount` and `MaxStrays`
(exemaps of one application for one map, and stray ones among them), `MaxAsked` (signals), `Files` (files created
under one name), `MaxCommands` (commands of `preheat-ctl`) and, for the daemon's
life in Reload, `MaxEvents`, of which a command takes `Weight`. No other variable
grows.

### Fairness

- StateFile: the timers go on firing (`Tick`, `Save("run")`), and a save is one
  handler, so it goes on. Opening, writing and renaming are strongly fair in
  their success: an error of the disk does not come at every attempt. Starting
  again is not fair: nothing in the code restarts the daemon.
- Readahead: the daemon runs, and `readahead(2)` in a child returns.
- Signals: a callback that was entered goes on, the loop gives its lock up, and
  dispatching and ending are strongly fair, since the loop takes and releases
  its lock forever and dispatches what is due each time round.
- DaemonTick (`FairSpec`): time passes, and a daemon that runs goes on ticking,
  since its timer is armed anew at the end of each tick. Nothing starts a daemon,
  logs in or gives a command by itself.

## 4. The theorems

"None" means no more than the assumptions the model's own modules state about
their constants: that sets are finite, delays positive and the like.

| Theorem | States | Assumes |
|---|---|---|
| `ExeModel_proofs!TypeCorrect` | `TypeOK`, and that no clock is ahead of the time | none |
| `ExeModel_proofs!ListsNeverDangle` | `NoDangling` | `AlwaysScans` |
| `ExeModel_proofs!RunningListExact` | `RunningExact` | the same |
| `ExeModel_proofs!ChainsAgree` | `MarkovAgrees` | the same |
| `ExeModel_proofs!TimesStayNested` | `TimesNested` | the same |
| `ExeModel_proofs!WalksCounted` | `WeightsFormWalk` | none |
| `ExeModel_proofs!StaysCounted` | `StaysAddUp` | `TimestampsSet` |
| `ExeModel_proofs!PairsChainedOnce` | `OneChainPerPair` | none |
| `MapRegistry_proofs!CountsExact` | `RefsExact` | none |
| `MapRegistry_proofs!TablesConsistent` | `TablesAgree` | none |
| `MapRegistry_proofs!NothingLeft` | `FreeLeavesNothing` | none |
| `MapRegistry_proofs!ImplementsRegionSet` | `Promise`: MapRegistry implements RegionSet | none |
| `Daemon_proofs!SignalsTyped`, `NoSignalForgotten` | `TypeOK`, `NoneForgotten` | none |
| `Daemon_proofs!LocksExact` | `LockExact` | none |
| `Daemon_proofs!AtMostOneDaemon` | `OneDaemon` | none |
| `Daemon_proofs!PidFileNames` | `NamedDaemon` | none |
| `Daemon_proofs!RoundTrip` | what was written is read back, without an error | tables well formed, nothing preloaded |
| `Daemon_proofs!SavingTyped` | `SavingTypeOK` | none |
| `Daemon_proofs!PromiseKept` | `Promise`: StateFile implements SavedTables | nothing preloaded, `fsync` succeeds |
| `Readahead_proofs!LimitKept` | `WithinLimit` | none |
| `Readahead_proofs!Merged` | `MergesRight` | none |
| `Readahead_proofs!ReadToTheEnd` | `AllRead` | none |
| `Launches_proofs!NoProcessTwice` | `LaunchesAreNew` | none |
| `Launches_proofs!NoRestartMissed` | `RestartsCounted` | none |
| `Launches_proofs!NoHitAfterTheFact` | `HitsCameFirst` | `DistinctNames` |
| `Launches_proofs!SecondsKept` | `SecondsBalance` | none |
| `DaemonTick_proofs!PauseSurvivesRestart` | `RestartHonoured` | none |
| `DaemonTick_proofs!BoostsInWindow` | `BoostsAfterLogin` | none |
| `DaemonTick_proofs!NeededFirst` | `MostNeededFirst` | none |
| `DaemonTick_proofs!FreeMemoryKept` | `FreeMemoryOnly` | none |
| `DaemonTick_proofs!OneBidEach` | `BidsOnce` | none |
| `Reload_proofs!CopiesFollow` | `FilesInForce` | none |
| `Reload_proofs!ClassesFollow` | `PoolsFollow` | none |
| `Reload_proofs!CountedOnce` | `SummaryCountsOnce` | none |
| `Reload_proofs!EditsStay` | `EditsKept` | none |

The lemmas of `SumLemmas` are about sums over any finite set of an unknown size.
The induction theorems of the library take an operator, which the provers here
cannot instantiate; the statements about least elements of well-founded sets take a
set instead, and are enough: the least number, and the smallest subset, for which
a claim fails.

**ExeModel.** The first four properties are not inductive alone. `IInv` adds
`Recent`: the last scan is at most one cycle old, between the ticks at most half
a cycle, the update has work to do exactly then, and an executable on the list
of changes was seen running at most a cycle and a half ago; and `Dated`: no
timestamp is in the future and no chain was handled yet at the time of the
coming update. The argument for `NoDangling` is one of age: autosave frees what
has not run for `MaxAge`, and `MaxAge > 2 * CycleMax` (part of
`ConstantAssumption`; `EXE_EVICTION_MAX_AGE` is 30 days, `config.c:738` allows
cycles of 300 seconds) makes everything on a list too young. It holds after a start
from a file with an error, too, whose last scan is at time 0 and whose running list
is empty. `MarkovAgrees` needs `Dated`, since `kp_markov_state_changed` ignores a
second change at the same time: a chain dated in the future, which an uninitialised
`change_timestamp` could be, would ignore the first one. `Trusted` is where the two
meet: a chain the file left half set is right from its first move on, because a move
sets both its state and its time.
`AlwaysScans` says a reload never switches scanning off. Without it
`NoDangling` is false: the running list goes stale, the clock goes on, and
autosave frees executables still on the list.

The other three need none of this. `WeightsFormWalk` and `StaysAddUp` say of each
chain what `Walked` and `Stayed` say of one: each operation on a chain keeps them,
and a tick applies such operations to some of the chains. Of a chain with a garbage
state the walk begins there, if it is one of the four; if not, `Strays` keeps the
move out of the tick. `StaysAddUp` is false of a
chain whose `change_timestamp` was left unset, as one from a state file is
(section 5): hence `TimestampsSet`. `OneChainPerPair` becomes inductive with what
`OnePerPair` adds, that no executable is chained to itself and none that is gone is
chained at all.

**MapRegistry.** `RefsExact` is inductive with `OnlyKnownUse`, that an executable
which is not in the table uses nothing: registering one adds its uses, and its sum
over the executables changes by what one term does. `Ledger` relates array, table and
the objects with a count. An entry of the table is an object in use, whatever was
loaded, since an object that is freed takes the entry of its region along, be it its
own. The other way round an object in use is the one in the table unless its region
was loaded anew (`doubled`), and one in the array is unless the entry went with
another (`robbed`): discovery looks the region up, the loads of prophet and session
do not. Nothing is assumed of what is loaded or how often.

**Readahead.** `ChildrenInv` adds to the property the places in the code
where the limit has just been tested; what `wait_for_children` does when
`procs` is 0 and when `wait` fails is the case that needs thought.

Merging is a matter of order. Whatever the sorting, `Covered` holds: a request is
made of what was wanted. With the maps sorted by path, `Ordered` says that the queue
stays sorted, that the request under way ends where the last map merged into it
ends, and that it and all that is queued lie behind everything issued; so two
requests cannot touch. `Coming` says that what is wanted is issued, under way or
queued, as long as no map lies within another: a map within another would pull the
end of the request back. It assumes only what `strcmp` does, that two paths are
told apart.

**Signals.** `NoneForgotten` is inductive with the types: a flag that is set is
ahead of the call under way, or a call is queued. The handler sets the flag
before it queues, and `sig_handler_sync` clears it before it works.

**InstanceLock.** `LockExact` is inductive, also with children that keep the lock of
a daemon that was killed: they are no daemon, and only keep others from starting. For the others `OneFile` says that
until a daemon is stopped in order nobody unlinks the name: one file was made, all
who start open that one, its lock admits one of them, and the one that runs has
written its PID there. After a stop this is over, as section 5 tells.

**StateFile.** `SavingTypeOK` needs no assumption: whatever lines a file holds, cut
where it may, `Read` keeps only lines that refer to earlier ones (`ReadTyped`), and a
start makes well-formed tables of them. `RoundTrip` goes through the file a section
at a time: a section whose lines say something new, and refer only to what was said,
adds exactly what it says (`AddSection`). `PromiseKept` maps each step to one of
SavedTables: a rename to `Replace`, a sync or a writeback to `Settle`, a power loss
to `Revert` or `Settle`, the others to a stutter. `KeptInv` says why: what is
renamed was synced and is all of the tables, and no file that is there or may come
back is one that would be set aside. Both hypotheses are needed: `state_preload`
shows a file set aside once an application was preloaded, and a file whose sync
failed may come back cut.

**Launches.** `RestartsCounted` follows from one scan. `LaunchesAreNew` rests on
`SeenInv`: a process that a scan has tracked as what it runs is tracked by that
executable still, through restarts as well, since `read_pid` resumes what runs the
same program. `HitsCameFirst` rests on `HitInv`: a process of a known executable
which the executable does not remember began after the preload noted for its name,
unless the executable is `overlooked`. It holds because the scan comes first in the
tick that predicts, and because only known executables are preloaded, whose
processes that scan has remembered; a tick that does not scan makes the exception. Two executables of one name share a preload time, and the property
is then false: hence the assumption.

`SecondsBalance` says of each executable that the seconds credited are those
it had at its start, those of processes it forgot, and those of the ones it
remembers up to their last update (`Balanced`): a sum over PIDs, of which a scan
changes some terms, drops some and adds some.

**DaemonTick.** `RestartHonoured` rests on `UnderPause`: as long as the pause a
daemon started under (`found`) has not ended and no command was given, either
the file still holds it, or the daemon has loaded it. `BoostsAfterLogin` rests
on `WindowInv`: the end of the window that the session keeps is at most that of
the last login, or of a change of the directory at a time when the session was not
noticed yet. It is computed from the time that is read, not from the time of reading,
which is why a login noticed late gets what is left of its window.

In Prediction the maps are a sorted sequence and what is read is its longest
prefix within the budget. `MostNeededFirst` follows from what sorting and the
greatest number with a property are. `FreeMemoryOnly` goes through the numbers of
`kp_prophet_readahead`: percentages that are clamped, hundredths of the memory that
are rounded down and sizes that are rounded up, so that the sum of the rounded sizes
bounds that of the sizes (`SumScaled`), and rounding errs to less each time.
`memtotal` above zero is excepted: it may let more be read than is free. `BidsOnce`
rests on `Counted`: what is loaded has an exemap of its own only if its map has none
registered yet; the exceptions are what a discovery or a stray number gave.

**Reload.** `PoolsFollow` speaks of an idle daemon; in the middle of a reload the
new manual list is loaded and the classes are still the old ones. `ClassInv`
therefore keeps apart what the rules decide (`ByRules`, which holds at any
moment, since what a list or a discovery gave its class is recorded in
`touched`) and what the lists decide (`ByLists`, which holds when the daemon is
idle). `Sync` and `Load` restore the latter whatever the lists were before. That
`classify_app_pool` also compares resolved paths (`is_manual_app`) is why an
executable that merely resolves like a listed one counts as touched.

`FilesInForce` follows from `InForce`: what the daemon has agrees with the files
(`Current`), or a SIGHUP is waiting (`hup`), or a command is past its edit and has
still to send one, or was killed before it did (`Pending`). `SummaryCountsOnce`
follows from `OfConfs`: each family in memory and in the state file is one that a
configuration of the user gave it, so one executable is in two families only if two
configurations said so. That the first state file is such a one is part of
`ReloadAssumption`, since a daemon wrote it. `EditsKept` needs to know whose the
inodes are. `OwnFiles`: lists, their temporary names and what a command is writing
are different files, but for the temporary file of one list, which its resets share.
`Undisturbed`: the file of a reset that shares with nobody is the one that has the
temporary name, nobody else writes it, and it holds the list as it was read without
the line. The attempt to prove `EditsKept` showed that its first form was false with
three resets, two more commands than the run has: the reset that opened the temporary
file may rename one that another has made since. What counts as shared says so now.

Only model-checked: everything about time to come (`SavesGoOn`, `Returns`,
`EachServed`, `PauseEnds`), since the prover has neither fairness nor ENABLED.
What the theorems do not reach: the models' abstractions (sections 2 and 7), and
the resolution of names in AppPaths, of which the proofs about Reload use only the
results.

## 5. Disagreements seen while modelling, not held by a run

Where a model contains the step, it is named:

- `state_exe.c:188`: a path queued by the scan and registered by a reload before
  the update is inserted twice; the guard looks a pointer up in a table of
  strings, and the table keeps a key that was freed (`Tick2Overwrite`).
- `session.c:77`: two applications whose files are loaded share a library, or one
  lists it twice (`lib_scanner.c:91-149`): the second object is refused by the table
  but counted, and takes the entry of the first with it when it is freed
  (`state.h:247`). The first stays in the array after it was freed, and the next
  prediction reads freed memory (`robbed`); the second assertion of `kp_state_free`
  fails.
- `session.c:107`: the loading of an application's maps begins by setting its size
  to 0, and counts only maps of `model.minsize` and more. A reload that raises
  `model.minsize` above all of them makes the daemon forget the size, one that
  lowers it again makes it load the same files again. The objects are refused, so
  that nothing bids twice (`BidsOnce`).
- `session.c:186`: the time of a login is `st_ctime` of its directory, which moves
  with every socket made or removed there, against the comment above it. A daemon
  started long after a login, or unpaused, may open a boot window and boost in it
  (`Touch`; `BoostsAfterLogin` makes that exception).
- `state_io.c:693`: after an error nothing sets the state of the chains that were
  read (`state_markov.c:57` does not clear them) or notes what runs. Their first move
  counts from whatever the memory held (`Tick2Stray`), and they may be timed while
  their executables do not run, which the next file keeps (`doubtful`).
- `state.c:375`: predictions go on while `doscan` is off, and note preloads of what
  runs already; the first scan afterwards credits them as hits (`overlooked`).
- `main.c:225`: the lock is not released when the process exits, but when the
  children that inherited its descriptor have ended, too (`ChildrenEnd`).
- `readahead.c:416`: a map within the one before it cuts the merged request to
  its own end (`AllRead`).
- `main.c:290`, `main.c:427`: a daemon that stops unlinks the PID file twice, by
  name; two that start meanwhile lock different files, and both run (`Unlink`).
- `pause.c:157`: a pause that expires removes the file, and with it a newer pause
  (`ExpireTick`); a file just truncated is taken as invalid and removed, while
  `preheat-ctl` reports success (`CtlClose`).
- `pause.c:142`: the daemon reads the pause file at its first tick only:
  `preheat-ctl pause` does not stop a daemon that has ticked (`man/preheat.8:100`)
  and `resume` does not end a pause it has loaded (`PausedNow`).
- `prophet.c:503`: the boosts of the session are overwritten by the prediction in
  the same tick, so that the -15 schedules nothing (`session.c:26-27`,
  `docs/how-it-works.md:411-415`): what the session achieves is that maps are loaded.
- `session.c:276`: after a logout and a new login no second boot window begins
  (`man/preheat.8:84`).
- `prophet.c:203`: a blacklisted executable starts at 1, but the chains bid and
  the manual boost come later, and its maps may be shared
  (`man/preheat.8:107`: "are never preloaded").
- `prophet.c:454`: an executable known by seeding has no maps, and gets some only
  from the manual boost or in the boot window: maps are read from `/proc` when an
  executable is discovered, and it never is.
- `spy.c:489`: a PID used again, or a process that executes another program,
  stays with the executable it was remembered for, and a launch of that one
  counts as a worker (`RestartsCounted` makes the exception).
- `stats.c:412`: executables of one base name share a preload time.
- `readahead.c:422`: a preload is recorded although its fork failed.
- `state.c:360`: tick2 changes the tables and does not set `dirty`; a stop after
  a save and an update does not save the update (`man/preheat.8:65`).
- `state.c:188`: a reload that only adds applications does not set `dirty`, and
  the save that follows is skipped unless a scan set it (`signals.c:88`).
- `state.c:293`: `dirty` is cleared when a save failed, too (`state.h:255`).
- `state.c:132`: a start with a corrupt file keeps what it read before the error
  (`docs/state-restrictions.md:54`).
- `state_io.c:418`: the checksum is not compared and the footer not required
  (`docs/state-file-format.md:244`).
- `state_io.c:563`: a chain from a file has no `change_timestamp`, and its first
  stay may have any length (`state.h:174`).
- `state.c:443`: with `doscan` off, autosave frees executables still on the
  running list (`state.h:246`).
- `state_map.c:86`: a map refused by the table gets no number, and its `seq` was
  never cleared: the exemaps that refer to it are written with what the memory held,
  and read back as those of another map or as an error (`Strays`, `Kept`).
- `spy.c:535`: the set of a process that ended is freed although it was never
  assigned.
- `signals.c:143`: every signal queues a call (`signals.c:136`), from a handler
  that may wait for a lock of the thread it interrupted.
- `ctl_config.c:162`: resets of one list share a temporary name, so that one may
  rename or unlink the file of another, or write over it; an entry appended
  after a reset has read the list goes with the old file (`EditsKept` names
  these cases).
- `blacklist.c:190`: an edit in the same second as the one before is not read by
  the reload it asks for (`Stat`).
- `main.c:434`: a SIGHUP that comes before `kp_signals_init` ends the daemon that
  is starting (`Signal`).
- `config.c:672`: a reload of an invalid `preheat.conf` keeps the old settings;
  `config.c:646` says it continues with defaults (`ReloadConfig`).
- `config.c:878`: families are deferred at a start, and loaded by nothing but a
  later SIGHUP; a family dropped from `preheat.conf` stays, and an executable
  moved to another family is counted in both (`LoadFamilies`). A reload that
  changes only families does not set `dirty`.
- `stats.c:593`: the names of the summary's rows are freed as duplicates, but the
  name of a family's row is the family's own: the next save writes a freed name,
  the next dump or reload frees it again (`FreeNames`, `Abort`).
- `stats.c:506`: rows of families count members of the observation pool, too.
- `ctl_cmd_apps.c:381`: `reset` looks for the name as typed, while `promote` and
  `demote` write the path it resolves to: `reset firefox` does not undo
  `promote firefox` (`docs/api-reference.md:364`). After a reset that does remove
  the line, the class stays until the daemon is started again (`Synced`).
- `ctl_cmd_apps.c:355`: `demote` of a name that is found in `/usr/bin` writes a
  path, which the blacklist skips for its slashes (`blacklist.c:132`).
- `ctl_cmd_apps.c:321`: `promote` leaves the entry of an earlier `demote`, and the
  blacklist wins (`Synced`); `manualapps` is commented out in the installed
  `preheat.conf`, and `promote` then has no effect (`ManualListed`).
- `pattern.c:143`: a prefix with a slash at its end, as in the function's own
  example, is in front of no path (`kp_path_in_directories`).
- `state.c:177`, `state.c:196`: an executable that a reload promotes or registers
  gets no chains until the next start.
- `config.c:739`: the message says a cycle out of range becomes 20; it becomes 90.

## 6. Plan

Order by weight of what can go wrong; the first nine items are done.

1. ExeModel with MarkovChain. *Done.*
2. MapRegistry implementing RegionSet. *Done.*
3. StateFormat and StateFile implementing SavedTables. *Done.*
4. Readahead. *Done.*
5. Signals, InstanceLock. *Done.*
6. Launches. *Done.*
7. Pause, Prediction with the session, DaemonTick which composes them. *Done.*
8. AppPaths and Lists: the edits of `preheat-ctl` that the daemon reads. *Done.*
9. Families and Reload: manual list, blacklist, classes, families, through starts
   and reloads. *Done.*
10. A composition of ticks, saves and file: what a restart forgets.

Abstract specifications still worth stating: the pause (the latest command
decides, which this code does not implement) and the statistics (a bag of
launches).

Theorems to come: that a file written after a preload is read whole, although it
is then taken for corrupt; what a reset does when it shares its temporary file; how
AppPaths resolves a name whatever files there are.

## 7. Not modelled, and why

- Probabilities, correlations and weights are floating point; the counters and
  times they are computed from are modelled.
- What the predictor makes of a chain whose state is out of range (`prophet.c`
  indexes its weights by it): ExeModel stops at the first move of such a chain.
- Evictions in Prediction, which take exemaps away and may take the entry of a map
  along: they are in MapRegistry.
- Parsing of `/proc`, of desktop files, shell history, `ldd` output, the
  configuration and command lines: text, whose result is an input here. The
  limits of single keys (`config.c:738-766`) are with them.
- `exe_to_family`: written, and read by a function that nothing calls.
- Memory that a reload leaves uninitialised: `mapprefix` and `exeprefix` when their
  raw strings are empty (`config.c:778`); the default is not empty.
- The readings of block numbers (`set_block`): a constant per map.
- What `preheat-ctl` displays and exports (`import` only validates), the sizes and
  rates of the statistics, logging, self tests and the check for competing
  daemons: output, or input without state.
