------------------------------ MODULE ExeModel ------------------------------
(***************************************************************************)
(* The daemon's model of the applications it watches: the table of known   *)
(* executables, the Markov chains between them, and the handlers that      *)
(* change them.  The GLib main loop runs one handler at a time: the two    *)
(* half-cycle ticks (src/src/state/state.c, src/src/monitor/spy.c), the    *)
(* autosave timer, and the signal handler (src/src/daemon/signals.c).      *)
(* Any of the last two may run between Tick, which scans /proc, and Tick2, *)
(* which learns from the scan.                                             *)
(***************************************************************************)
EXTENDS MarkovChain, FiniteSets

CONSTANTS
  Exes,            \* paths of executables
  Cycles,          \* values the model.cycle key takes, in seconds
  CycleMax,        \* the longest of them
  MaxAge,          \* EXE_EVICTION_MAX_AGE
  EvictThreshold,  \* EXE_EVICTION_THRESHOLD
  ScanSettings,    \* values the system.doscan key takes
  ManualLists,     \* contents the manual apps file may have
  Blacklists,      \* contents the blacklist file may have
  SaveOutcomes,    \* whether a save can succeed (TRUE), fail (FALSE), or both
  Garbage,         \* values an uninitialised change_timestamp may hold
  GarbageStates,   \* values an uninitialised state may hold
  BootTime,        \* kp_state->time found in the state file
  MaxTime          \* bound on kp_state->time

ASSUME ConstantAssumption ==
  /\ Cycles \subseteq 2..CycleMax /\ Cycles # {}
  /\ CycleMax \in Nat /\ MaxAge \in Nat /\ MaxAge > 2 * CycleMax
  /\ EvictThreshold \in Nat
  /\ ScanSettings \subseteq BOOLEAN /\ ScanSettings # {}
  /\ ManualLists \subseteq SUBSET Exes
  /\ Blacklists \subseteq SUBSET Exes
  /\ SaveOutcomes \subseteq BOOLEAN
  /\ Garbage \subseteq Int /\ GarbageStates \subseteq Int
  /\ BootTime \in Nat /\ MaxTime \in Nat

Pools == {"priority", "observation"}

VARIABLES
  time,        \* kp_state->time
  phase,       \* the tick the armed timer will run, "off" after the main loop
  cycle,       \* kp_conf->model.cycle
  doscan,      \* kp_conf->system.doscan
  lastRun,     \* kp_state->last_running_timestamp
  lastAcct,    \* kp_state->last_accounting_timestamp
  known,       \* keys of kp_state->exes
  pool,        \* exe->pool
  rt,          \* exe->running_timestamp
  ct,          \* exe->change_timestamp
  total,       \* exe->time
  heavy,       \* the exes whose weighted_launches exceeds 0.1
  chain,       \* the chains, indexed by the pair <<markov->a, markov->b>>
  running,     \* kp_state->running_exes
  changed,     \* state_changed_exes
  newExes,     \* new_exes
  bad,         \* kp_state->bad_exes
  dirty,       \* kp_state->dirty
  modelDirty,  \* kp_state->model_dirty
  unsaved,     \* history: the tables differ from the last one written to disk
  doubtful,    \* history: the chains a state file left wrong or half set
  corrupt      \* history: a key of kp_state->exes points to freed memory, or a
               \* chain counted outside its weights

timers == <<time, phase, cycle, doscan>>
stamps == <<lastRun, lastAcct>>
table  == <<known, pool, rt, ct, total, heavy>>
lists  == <<running, changed, newExes, modelDirty>>
disk   == <<bad, dirty, unsaved>>
ghosts == <<doubtful, corrupt>>
vars   == <<timers, stamps, table, chain, lists, disk, ghosts>>

Pairs == Exes \X Exes

TypeOK ==
  /\ time \in Nat /\ phase \in {"tick", "tick2", "off"}
  /\ cycle \in Cycles /\ doscan \in BOOLEAN
  /\ lastRun \in Nat /\ lastAcct \in Nat
  /\ known \subseteq Exes /\ heavy \subseteq Exes
  /\ pool \in [Exes -> Pools]
  /\ rt \in [Exes -> Int] /\ ct \in [Exes -> Int] /\ total \in [Exes -> Nat]
  /\ DOMAIN chain \subseteq Pairs /\ chain \in [DOMAIN chain -> Chain]
  /\ running \subseteq Exes /\ changed \subseteq Exes
  /\ newExes \subseteq Exes /\ bad \subseteq Exes
  /\ dirty \in BOOLEAN /\ modelDirty \in BOOLEAN
  /\ unsaved \in BOOLEAN /\ corrupt \in BOOLEAN /\ doubtful \subseteq Pairs

\* The macro exe_is_running.
IsRunning(e) == rt[e] >= lastRun

\* The order in which a set of executables is taken from a hash table.
Orders(S) == {o \in [S -> 1..Cardinality(S)] : \A a, b \in S : o[a] = o[b] => a = b}

-----------------------------------------------------------------------------
(* Starting up: main() up to kp_daemon_run.                                *)

\* The manual list promotes, then the blacklist demotes.
SyncedPool(p, tracked, M, B) ==
  [e \in Exes |-> CASE e \notin tracked -> p[e]
                    [] e \in B          -> "observation"
                    [] e \in M          -> "priority"
                    [] OTHER            -> p[e]]

\* The pairs a state file may hold chains for, each one way round, whichever of
\* the two comes first in the new table.
FilePairs(F) ==
  {D \in SUBSET (F \X F) : \A p \in D : p[1] # p[2] /\ <<p[2], p[1]>> \notin D}

\* kp_seed_from_sources: the applications of D are added one by one, each of them
\* chained to all there were before it.
SeedPairs(o, F, D) == {p \in (F \cup D) \X D : o[p[1]] < o[p[2]]}

\* kp_markov_build_priority_mesh: the priority pairs, in the order of the table,
\* that no chain joins yet, either way round.
MeshPairsSameWay(o, priority, joined) ==
  {p \in priority \X priority : o[p[1]] < o[p[2]]} \ joined
MeshPairs(o, priority, joined) ==
  {p \in priority \X priority :
     o[p[1]] < o[p[2]] /\ p \notin joined /\ <<p[2], p[1]>> \notin joined}

\* kp_state_load and the mesh: the state file, saved at the time boot, gave back the
\* executables F and their chains, all of it or up to an error (~ok); D were seeded,
\* because there was an error or nothing.  Only a file read to its end has what runs
\* now noted, and the state of its chains set.  What no one sets in either case is
\* their change_timestamp: it holds what the memory held.  The chains an error left
\* without a state, those that happen to be dated in the future, and those saved with
\* more time than their executables are doubtful.
LoadedTable(boot, F, D, priority, ok) ==
  /\ D = {} \/ F = {} \/ ~ok
  /\ time = boot /\ lastAcct = boot /\ lastRun = (IF ok THEN boot ELSE 0)
  /\ running \in (IF ok THEN SUBSET F ELSE {{}})
  /\ ct = [e \in Exes |-> IF e \in F THEN -1 ELSE boot]
  /\ rt = [e \in Exes |-> IF e \in running THEN boot ELSE -1]
  /\ total \in {f \in [Exes -> {0, boot}] : \A e \in Exes \ F : f[e] = 0}
  /\ \E o \in Orders(F \cup D), file \in FilePairs(F) :
       /\ \A f \in F, d \in D : o[f] < o[d]
       /\ LET Now(p) == MarkovState(p[1] \in running, p[2] \in running)
              joined == file \cup SeedPairs(o, F, D)
          IN \E g \in [file -> Garbage], t \in [file -> {0, boot}],
                s \in [file -> IF ok THEN {-1} ELSE GarbageStates] :
               /\ chain = [p \in joined \cup MeshPairs(o, priority, joined) |->
                            IF p \in file
                              THEN ReadChain(IF ok THEN Now(p) ELSE s[p], g[p], boot, t[p])
                              ELSE NewChain(ct[p[1]], ct[p[2]], Now(p), boot)]
               /\ doubtful = {p \in file : \/ ~ok \/ g[p] > boot
                                           \/ t[p] > total[p[1]] \/ t[p] > total[p[2]]}

\* Nothing is in the table before the file is read; where there is none, or its
\* header is not understood, the time is 0.  Reclassification may then put any
\* executable in either pool, before the mesh and the manual list.
Init ==
  /\ \E boot \in {0, BootTime}, F, D \in SUBSET Exes, ok \in BOOLEAN,
        M \in ManualLists, B \in Blacklists :
     \E priority \in SUBSET (F \cup D) :
       /\ F \cap D = {} /\ (boot = 0 => F = {})
       /\ known = F \cup D \cup M
       /\ heavy \in SUBSET (F \cup D)
       /\ pool = SyncedPool([e \in Exes |-> IF e \in priority THEN "priority"
                                                              ELSE "observation"],
                            known, M, B)
       /\ LoadedTable(boot, F, D, priority, ok)
  /\ phase = "tick" /\ cycle \in Cycles /\ doscan \in ScanSettings
  /\ changed = {} /\ newExes = {} /\ modelDirty = FALSE
  /\ bad = {} /\ dirty = FALSE /\ unsaved \in {~ok : ok \in SaveOutcomes}
  /\ corrupt = FALSE

-----------------------------------------------------------------------------
(* The two half-cycle ticks.                                               *)

\* The main loop runs, and nothing undefined has happened yet.
Alive == phase # "off" /\ ~corrupt

\* Which of the executables seen were not running at the last scan, and which
\* of those on the running list were not seen by this one.
Started(seen) == {e \in seen : ~IsRunning(e)}
StoppedAgainstLastScan(seen) == {e \in running : rt[e] < lastRun /\ e \notin seen}
Stopped(seen) == {e \in running : rt[e] < time /\ e \notin seen}

\* kp_spy_scan when /proc shows the executables R; G are those whose launch
\* weight has now passed 0.1: only what was ever seen running gains any.
Scan(R, G) ==
  LET seen == R \cap known IN
     /\ G \subseteq {e \in known : e \in R \/ rt[e] >= 0}
     /\ rt' = [e \in Exes |-> IF e \in seen THEN time ELSE rt[e]]
     /\ lastRun' = time
     /\ heavy' = heavy \cup G
     /\ newExes' = R \ (known \cup bad)
     /\ changed' = Started(seen) \cup Stopped(seen)
     /\ running' = Started(seen) \cup (running \ Stopped(seen))
     /\ dirty' = TRUE /\ modelDirty' = TRUE /\ unsaved' = TRUE

Tick ==
  /\ Alive /\ phase = "tick" /\ time < MaxTime
  /\ IF doscan
       THEN \E R, G \in SUBSET Exes : Scan(R, G)
       ELSE UNCHANGED <<lastRun, rt, heavy, running, changed, newExes,
                        modelDirty, dirty, unsaved>>
  /\ time' = time + cycle \div 2
  /\ phase' = "tick2"
  /\ UNCHANGED <<cycle, doscan, lastAcct, known, pool, ct, total, chain, bad, ghosts>>

\* Of the executables queued by the scan, W are alive and large, and become
\* known in the order o; nothing sets the pool of a new one, so P is arbitrary.
\* A priority one is chained to every one known before it.
NewPairs(W, o, P) ==
  {p \in (known \cup W) \X W : /\ P[p[2]] = "priority"
                               /\ p[1] \in W => o[p[1]] < o[p[2]]}

\* The chains of the executables on the list of changes.
MovesFromItsA(p) == p[1] \in changed
Moves(p) == p[1] \in changed \/ p[2] \in changed

\* running_markov_inc_time.
TimedUnlessIdle(c, period) == IF c.state # 0 THEN [c EXCEPT !.time = @ + period] ELSE c
Timed(c, period) == IF c.state = 3 THEN [c EXCEPT !.time = @ + period] ELSE c

\* What holds once the executables W are registered: which run, and so the state
\* of a pair; and when each last changed, the changes of this scan not noted yet.
RunsAfter(W, e)    == e \in W \/ IsRunning(e)
StateAfter(W, p)   == MarkovState(RunsAfter(W, p[1]), RunsAfter(W, p[2]))
ChangeBefore(W, e) == IF e \in W THEN time ELSE ct[e]

\* The chain of a pair after the update: created if the pair is new, moved if one
\* of the two changed, and timed if both run.
ChainAfter(W, p) ==
  LET old   == IF p \in DOMAIN chain
                 THEN chain[p]
                 ELSE NewChain(ChangeBefore(W, p[1]), ChangeBefore(W, p[2]),
                               StateAfter(W, p), time)
      moved == IF Moves(p) THEN StateChanged(old, StateAfter(W, p), time) ELSE old
  IN  Timed(moved, time - lastAcct)

\* kp_spy_update_model: register, note the changes of state, then account for
\* the time since the last accounting.
Learn(W, o, P) ==
  LET Ran(e) == IF e \in known \cup W /\ RunsAfter(W, e) THEN time - lastAcct ELSE 0
  IN /\ known' = known \cup W
     /\ pool'  = [e \in Exes |-> IF e \in W THEN P[e] ELSE pool[e]]
     /\ rt'    = [e \in Exes |-> IF e \in W THEN lastRun ELSE rt[e]]
     /\ ct'    = [e \in Exes |-> IF e \in W \cup changed THEN time ELSE ct[e]]
     /\ total' = [e \in Exes |-> (IF e \in W THEN 0 ELSE total[e]) + Ran(e)]
     /\ chain' = [p \in DOMAIN chain \cup NewPairs(W, o, P) |-> ChainAfter(W, p)]
     /\ running' = running \cup W
     /\ lastAcct' = time
     /\ unsaved' = (unsaved \/ <<known', total', chain'>> # <<known, total, chain>>)

\* The moves that would be counted from a state that was never set.
Strays == {p \in DOMAIN chain : /\ Moves(p) /\ chain[p].ct # time
                                /\ chain[p].state \notin States}

Tick2Learn ==
  /\ Alive /\ phase = "tick2" /\ modelDirty /\ Strays = {}
  /\ \E W \in SUBSET newExes :
       /\ W \cap known = {}
       /\ \E o \in Orders(W), P \in [W -> Pools] : Learn(W, o, P)
       /\ \E small \in SUBSET (newExes \ W) : bad' = bad \cup small
  /\ changed' = {} /\ newExes' = {} /\ modelDirty' = FALSE
  /\ time' = time + (cycle + 1) \div 2
  /\ phase' = "tick"
  /\ UNCHANGED <<cycle, doscan, lastRun, heavy, dirty, ghosts>>

\* A queued executable became known in the meantime: inserting it again frees
\* the old entry and with it the key the table keeps.  The model stops there.
Tick2Overwrite ==
  /\ Alive /\ phase = "tick2" /\ modelDirty
  /\ newExes \cap known # {}
  /\ corrupt' = TRUE
  /\ UNCHANGED <<timers, stamps, table, chain, lists, disk, doubtful>>

\* A chain whose state is out of range moves: the counter it adds to is not one
\* of its own.  The model stops there, too.
Tick2Stray ==
  /\ Alive /\ phase = "tick2" /\ modelDirty
  /\ Strays # {}
  /\ corrupt' = TRUE
  /\ UNCHANGED <<timers, stamps, table, chain, lists, disk, doubtful>>

\* No scan since the last update.
Tick2Idle ==
  /\ Alive /\ phase = "tick2" /\ ~modelDirty
  /\ time' = time + (cycle + 1) \div 2
  /\ phase' = "tick"
  /\ UNCHANGED <<cycle, doscan, stamps, table, chain, lists, disk, ghosts>>

-----------------------------------------------------------------------------
(* The handlers that may run at any time between ticks.                    *)

\* kp_state_save, of tables that are dirty (d) and differ from the file (u).
\* Whether the write succeeded or not, the tables count as clean afterwards.
SaveWith(d, u) ==
  /\ bad' = {} /\ dirty' = FALSE
  /\ IF d THEN \E ok \in SaveOutcomes : unsaved' = (u /\ ~ok)
          ELSE unsaved' = u

\* SIGHUP: read the configuration, synchronise the table with the manual list M
\* and the blacklist B, save.
Reload(M, B) ==
  LET added    == M \ known
      promoted == {e \in M \cap known : pool[e] # "priority"}
      demoted  == {e \in B \cap (known \cup M) : e \in M \/ pool[e] # "observation"}
  IN /\ Alive
     /\ known' = known \cup M
     /\ pool' = SyncedPool(pool, known', M, B)
     /\ rt' = [e \in Exes |-> IF e \in added THEN -1 ELSE rt[e]]
     /\ ct' = [e \in Exes |-> IF e \in added THEN time ELSE ct[e]]
     /\ total' = [e \in Exes |-> IF e \in added THEN 0 ELSE total[e]]
     /\ cycle' \in Cycles /\ doscan' \in ScanSettings
     /\ SaveWith(dirty \/ promoted \cup demoted # {},
                 unsaved \/ added \cup promoted \cup demoted # {})
     /\ UNCHANGED <<time, phase, stamps, heavy, chain, lists, ghosts>>

\* SIGUSR2.
Save ==
  /\ Alive
  /\ SaveWith(dirty, unsaved)
  /\ UNCHANGED <<timers, stamps, table, chain, lists, ghosts>>

\* should_evict_exe.
EvictableAtAnyAge == {e \in known : e \notin heavy}
Evictable == {e \in known : e \notin heavy /\ rt[e] <= time - MaxAge}

\* kp_state_autosave: when the table is too large, drop what is old and unused,
\* and with an executable its chains; then save.
Autosave ==
  /\ Alive
  /\ LET evicted == IF Cardinality(known) > EvictThreshold THEN Evictable ELSE {} IN
       /\ known' = known \ evicted
       /\ chain' = [p \in {q \in DOMAIN chain : {q[1], q[2]} \cap evicted = {}} |-> chain[p]]
       /\ SaveWith(dirty, unsaved \/ evicted # {})
  /\ doubtful' = doubtful \cap DOMAIN chain'
  /\ UNCHANGED <<timers, stamps, pool, rt, ct, total, heavy, lists, corrupt>>

\* SIGTERM or SIGINT: the main loop ends and main() saves once more.
Stop ==
  /\ Alive
  /\ SaveWith(dirty, unsaved)
  /\ phase' = "off"
  /\ UNCHANGED <<time, cycle, doscan, stamps, table, chain, lists, ghosts>>

Next ==
  \/ Tick \/ Tick2Learn \/ Tick2Overwrite \/ Tick2Stray \/ Tick2Idle
  \/ \E M \in ManualLists, B \in Blacklists : Reload(M, B)
  \/ Save \/ Autosave \/ Stop

Spec == Init /\ [][Next]_vars

-----------------------------------------------------------------------------
(* Safety.                                                                 *)

\* No list the ticks hand to one another points to an executable the autosave
\* timer has freed in between: what runs, what changed and the ends of every
\* chain are in the table (state.c:443 frees, spy.c:627 and spy.c:685 follow).
NoDangling ==
  /\ running \cup changed \subseteq known
  /\ \A p \in DOMAIN chain : p[1] \in known /\ p[2] \in known

\* running_exes, kept incrementally from one scan to the next, is exactly what
\* the timestamps say: an executable lost from the list would never be noticed
\* to stop, and one left in it would be noticed twice (spy.c:480, spy.c:505).
RunningExact == running = {e \in known : IsRunning(e)}

\* A chain is right from the start, unless the file left it half set; from its
\* first move on, in either case.
Trusted(p) == p \notin doubtful \/ Moved(chain[p])

\* Once the model has been updated from the last scan, every chain is in the
\* state its two executables are in; before, only those with an end on the list
\* of changes may lag.  A chain that missed a change would stay wrong for good,
\* as the next change would be counted from the wrong state (state_markov.c:97).
\* One that the state file left in a state nobody set rights itself when it moves.
MarkovAgrees ==
  \A p \in DOMAIN chain :
    (Trusted(p) /\ p[1] \notin changed /\ p[2] \notin changed)
      => chain[p].state = MarkovState(IsRunning(p[1]), IsRunning(p[2]))

\* The order kp_markov_correlation relies on for its denominator to be positive
\* and its result to be a correlation: no executable has run for longer than
\* has been accounted for, and no pair together for longer than either alone.
\* A chain without a state may be timed while its executables do not run, and
\* keeps that time, also in the file.
TimesNested ==
  /\ lastAcct <= time /\ lastRun <= time
  /\ \A e \in known : total[e] <= lastAcct
  /\ \A p \in DOMAIN chain \ doubtful :
       chain[p].time <= total[p[1]] /\ chain[p].time <= total[p[2]]

\* The four above together; they hold of any table when scanning is never
\* switched off.
ModelConsistent == NoDangling /\ RunningExact /\ MarkovAgrees /\ TimesNested
AlwaysScans == ScanSettings = {TRUE}

\* What makes it inductive.  The last scan is at most one cycle old, unless the
\* state file could not be read and there was none, so what it saw, and what the
\* one before saw, is too young to be evicted; and no chain has yet been handled
\* at the time the second tick will handle it.
Recent ==
  /\ doscan
  /\ running # {} => time - lastRun <= CycleMax
  /\ phase = "tick2" =>
       modelDirty /\ lastRun < time /\ time - lastRun <= CycleMax \div 2
  /\ phase = "tick" => ~modelDirty
  /\ ~modelDirty => changed = {}
  /\ \A x \in changed : time - rt[x] <= CycleMax + CycleMax \div 2

Dated ==
  /\ \A x \in Exes : ct[x] <= time
  /\ \A p \in DOMAIN chain : Trusted(p) =>
       chain[p].ct <= time /\ (phase = "tick2" => chain[p].ct < time)

IInv == TypeOK /\ ModelConsistent /\ Recent /\ Dated

\* weight[i][i] is the number of times state i was left, the sum of the other
\* weight[i][j]: what state.h:168-170 says and the predictor divides by.  The moves
\* a chain counted since the daemon started form one unbroken walk to its current
\* state: every state was entered as often as it was left, but for the two ends of
\* the walk.  Of a chain whose state was never set the first move is one that was
\* never made: it starts from whatever of the four states the memory held.
WeightsFormWalk ==
  \A p \in DOMAIN chain : LET w == chain[p].weight IN
    /\ \A i \in States : 2 * w[i][i] = w[i][0] + w[i][1] + w[i][2] + w[i][3]
    /\ chain[p].state \in States => \E first \in States : \A i \in States :
         LET entered == w[0][i] + w[1][i] + w[2][i] + w[3][i] - w[i][i]
         IN  entered + (IF i = first THEN 1 ELSE 0)
               = w[i][i] + (IF i = chain[p].state THEN 1 ELSE 0)

\* The stays a chain recorded add up to the time from its start to its last
\* change: no second is counted twice or lost, and none is from the future.
StaysAddUp ==
  \A p \in DOMAIN chain : LET stay == chain[p].stay IN
    /\ chain[p].ct <= time
    /\ \A i \in States : stay[i] >= 0
    /\ stay[0] + stay[1] + stay[2] + stay[3] = chain[p].ct - chain[p].born

\* No two chains join the same two executables, whichever of the ways to create
\* one (seeding, the state file, the mesh, discovery) made them: the mesh meets chains
\* of the file that run the other way round (state_markov.c:287).
OneChainPerPair ==
  \A p \in DOMAIN chain : p[1] # p[2] /\ <<p[2], p[1]>> \notin DOMAIN chain
=============================================================================
