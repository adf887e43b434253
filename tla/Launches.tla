------------------------------ MODULE Launches ------------------------------
(***************************************************************************)
(* Counting launches (src/src/monitor/spy.c) and judging each of them a    *)
(* hit or a miss (src/src/daemon/stats.c).  Every scan compares the        *)
(* processes of /proc with the PIDs remembered for each executable: what   *)
(* is gone has exited, the first user-initiated one that is new while no   *)
(* other is remembered is a launch, the other new ones are workers.  The   *)
(* prediction that ends the same tick notes what it preloads, whether the  *)
(* tick scanned or system.doscan, which a reload may change, forbids it.   *)
(*                                                                         *)
(* Between the ticks processes start, exit, execute another program, lose  *)
(* their parent, and the kernel may give a PID to a new process.           *)
(***************************************************************************)
EXTENDS Integers, FiniteSets, Functions

CONSTANTS
  Exes,      \* paths of executables
  NameOf,    \* NameOf[e]: the base name of e
  Pids,      \* process identifiers
  Desktop,   \* executables that have a .desktop file
  Delays,    \* seconds that pass from one tick to the next
  Window,    \* stats.hitstats_window
  MaxTime,   \* bound on the clock
  Never      \* no preload is noted for a name

ASSUME LaunchAssumption ==
  /\ Delays \subseteq Nat \ {0}
  /\ Window \in Nat \ {0} /\ MaxTime \in Nat
  /\ Desktop \subseteq Exes
  /\ NameOf \in [Exes -> {NameOf[e] : e \in Exes}]
  /\ Never \notin Nat /\ IsFiniteSet(Pids)

Names == {NameOf[e] : e \in Exes}

VARIABLES
  now,        \* time(NULL)
  phase,      \* the tick the armed timer will run, "down" between two runs
  procs,      \* /proc: the program of each process, whether its parent is a
              \* shell, a terminal or a launcher, and when it became that program
  doscan,     \* system.doscan
  known,      \* keys of kp_state->exes
  queue,      \* new_exes
  tracked,    \* exe->running_pids
  raw,        \* exe->raw_launches, which the state file keeps
  credited,   \* the seconds weighted_launches has been given weight for
  total,      \* exe->total_duration_sec, which the state file keeps
  preloaded,  \* stats.preload_times
  hit,        \* the executables the last tick counted a hit for; of the other
              \* launches it counted, a miss
  seen,       \* history: the processes a scan has tracked as what they run
  overlooked, \* history: what was preloaded while a process of it ran unscanned
  forgotten   \* history: seconds of processes a restart did not find again

counters == <<raw, credited, total, hit, forgotten>>
memory == <<known, queue, tracked, counters, preloaded, overlooked>>
vars == <<now, phase, procs, doscan, seen, memory>>

Process == [exe : Exes, byUser : BOOLEAN, since : Nat]
Entry   == [byUser : BOOLEAN, start : Nat, last : Nat]

TypeOK ==
  /\ now \in Nat /\ phase \in {"tick", "tick2", "down"}
  /\ DOMAIN procs \subseteq Pids /\ \A p \in DOMAIN procs : procs[p] \in Process
  /\ known \subseteq Exes /\ queue \subseteq Exes \ known
  /\ DOMAIN tracked = Exes
  /\ \A e \in Exes : /\ DOMAIN tracked[e] \subseteq Pids
                     /\ \A p \in DOMAIN tracked[e] : tracked[e][p] \in Entry
  /\ \A f \in {raw, credited, total, forgotten} : f \in [Exes -> Nat]
  /\ preloaded \in [Names -> Nat \cup {Never}]
  /\ doscan \in BOOLEAN /\ hit \subseteq Exes /\ overlooked \subseteq Exes
  /\ seen \subseteq Pids

Init ==
  /\ now = 0 /\ phase = "tick"
  /\ procs = <<>>
  /\ known \in SUBSET Exes /\ queue = {}
  /\ tracked = [e \in Exes |-> <<>>]
  /\ raw = [e \in Exes |-> 0] /\ credited = raw /\ total = raw
  /\ seen = {} /\ forgotten = raw
  /\ preloaded = [n \in Names |-> Never]
  /\ doscan \in BOOLEAN /\ hit = {} /\ overlooked = {}

-----------------------------------------------------------------------------
(* What the processes do between two ticks.                                *)

Become(p, e, byUser) ==
  /\ procs' = [q \in DOMAIN procs \cup {p} |->
                 IF q = p THEN [exe |-> e, byUser |-> byUser, since |-> now] ELSE procs[q]]
  /\ seen' = seen \ {p}

Parents(e) == IF e \in Desktop THEN {TRUE} ELSE BOOLEAN

Start(p, e, byUser) == p \notin DOMAIN procs /\ Become(p, e, byUser)

Exec(p, e) == p \in DOMAIN procs /\ procs[p].exe # e /\ Become(p, e, procs[p].byUser \/ e \in Desktop)

Exit(p) ==
  /\ p \in DOMAIN procs
  /\ procs' = [q \in DOMAIN procs \ {p} |-> procs[q]]
  /\ seen' = seen \ {p}

\* Its parent exits: get_parent_pid then gives a process no user works with.
\* Of a desktop application nothing asks who started it.
Orphan(p) ==
  /\ p \in DOMAIN procs /\ procs[p].byUser /\ procs[p].exe \notin Desktop
  /\ procs' = [procs EXCEPT ![p].byUser = FALSE]
  /\ UNCHANGED seen

Processes ==
  /\ now < MaxTime
  /\ \E p \in Pids : \/ \E e \in Exes : Exec(p, e) \/ \E b \in Parents(e) : Start(p, e, b)
                     \/ Exit(p) \/ Orphan(p)
  /\ UNCHANGED <<now, phase, doscan, memory>>

-----------------------------------------------------------------------------
(* The scan.                                                               *)

AtLeastZero(n) == IF n > 0 THEN n ELSE 0

\* clean_exited_pids looks only whether the PID still exists.
ExitedNone(e) == {}
Exited(e)     == DOMAIN tracked[e] \ DOMAIN procs
Remain(e) == DOMAIN tracked[e] \ Exited(e)

\* Processes of a known executable that are not tracked for it yet.
Fresh(e) == IF e \in known THEN {p \in DOMAIN procs : procs[p].exe = e} \ Remain(e) ELSE {}

\* is_user_initiated, and the fallback for desktop applications.
UserInitiated(p) == procs[p].byUser \/ procs[p].exe \in Desktop

\* exe_has_user_initiated_running.
HasUserInstance(e) == \E p \in Remain(e) : tracked[e][p].byUser

\* The first user-initiated process found of an executable that has none.
Launched(e) == ~HasUserInstance(e) /\ \E p \in Fresh(e) : UserInitiated(p)

\* kp_stats_is_app_preloaded.
IsPreloadedEver(e) == preloaded[NameOf[e]] # Never
IsPreloaded(e) ==
  /\ preloaded[NameOf[e]] # Never
  /\ AtLeastZero(now - preloaded[NameOf[e]]) < Window

\* track_process_start for the fresh ones, update_weight_for_pid for the others.
TrackedAfter(e) ==
  [p \in Remain(e) \cup Fresh(e) |->
     IF p \in Fresh(e)
       THEN [byUser |-> UserInitiated(p), start |-> now, last |-> now]
       ELSE [tracked[e][p] EXCEPT !.last = IF now > @ THEN now ELSE @]]

\* Seconds not accounted for yet, of the exited and of the running ones alike.
Lifetime(e, p)    == AtLeastZero(now - tracked[e][p].start)
Unaccounted(e, p) == AtLeastZero(now - tracked[e][p].last)
Gained(e) == SumFunction([p \in DOMAIN tracked[e] |-> Unaccounted(e, p)])
Ended(e)  == SumFunction([p \in Exited(e) |-> Lifetime(e, p)])

\* What a launch counts: kp_stats_record_hit or kp_stats_record_miss.
CountLaunches(L) ==
  /\ raw' = [e \in Exes |-> raw[e] + IF e \in L THEN 1 ELSE 0]
  /\ hit' = {e \in L : IsPreloaded(e)}

\* running_process_callback queues what is running and not known.
Queued == {procs[p].exe : p \in DOMAIN procs} \ known

\* kp_spy_scan, as far as launches go.
Scan ==
  /\ queue' = Queued
  /\ tracked' = [e \in Exes |-> TrackedAfter(e)]
  /\ credited' = [e \in Exes |-> credited[e] + Gained(e)]
  /\ total'    = [e \in Exes |-> total[e] + Ended(e)]
  /\ CountLaunches({e \in Exes : Launched(e)})
  /\ seen' = seen \cup UNION {Fresh(e) : e \in Exes}

\* kp_stats_record_preload for the executables P.
Noted(P, t) == [n \in Names |-> IF \E e \in P : NameOf[e] = n THEN t ELSE preloaded[n]]

NoScan == hit' = {} /\ UNCHANGED <<queue, tracked, raw, credited, total, seen>>

\* kp_state_tick: scan, if allowed, then predict.  Which executables are preloaded is
\* the prediction's business; only known ones can be.
Scanned == (doscan /\ Scan) \/ (~doscan /\ NoScan)

Tick ==
  /\ phase = "tick" /\ now < MaxTime
  /\ Scanned
  /\ \E P \in SUBSET known :
       /\ preloaded' = Noted(P, now)
       /\ overlooked' = IF doscan THEN {} ELSE overlooked \cup {e \in P : Fresh(e) # {}}
  /\ \E d \in Delays : now' = now + d
  /\ phase' = "tick2"
  /\ UNCHANGED <<procs, doscan, known, forgotten>>

\* kp_state_tick2: of the executables queued, those still alive and large enough
\* become known; their processes are tracked from the next scan on.
Tick2 ==
  /\ phase = "tick2" /\ now < MaxTime
  /\ \E W \in SUBSET queue : known' = known \cup W
  /\ queue' = {}
  /\ \E d \in Delays : now' = now + d
  /\ phase' = "tick"
  /\ UNCHANGED <<procs, doscan, seen, tracked, counters, preloaded, overlooked>>

\* A reload registers an application from the manual list.  One the last scan
\* has queued is registered a second time: ExeModel shows what that does.
Register(e) ==
  /\ phase # "down" /\ now < MaxTime
  /\ e \notin known \cup queue
  /\ known' = known \cup {e}
  /\ UNCHANGED <<now, phase, procs, doscan, seen, queue, tracked, counters, preloaded,
                 overlooked>>

\* A reload allows scanning, or forbids it.
Switch ==
  /\ phase # "down" /\ now < MaxTime
  /\ doscan' = ~doscan
  /\ UNCHANGED <<now, phase, procs, seen, memory>>

\* The seconds accounted for of the processes P.
Accounted(e, P) == SumFunction([p \in P |-> tracked[e][p].last - tracked[e][p].start])

\* Keep of the PIDs tracked for each executable those in kept[e].
Forget(kept) ==
  /\ tracked' = [e \in Exes |-> [p \in kept[e] |-> tracked[e][p]]]
  /\ forgotten' = [e \in Exes |-> forgotten[e] + Accounted(e, DOMAIN tracked[e] \ kept[e])]

\* The final save writes the PIDs that still exist.
Stop ==
  /\ phase # "down" /\ now < MaxTime
  /\ Forget([e \in Exes |-> Remain(e)])
  /\ phase' = "down" /\ queue' = {}
  /\ UNCHANGED <<now, procs, doscan, seen, known, raw, credited, total, hit, preloaded,
                 overlooked>>

\* read_pid resumes those that still run the executable they were tracked for.
\* The statistics start anew; no preload time is ever read back (StateFile).
ResumableNone(e) == {}
Resumable(e) == {p \in Remain(e) : p \in DOMAIN procs /\ procs[p].exe = e}

Restart ==
  /\ phase = "down" /\ now < MaxTime
  /\ Forget([e \in Exes |-> Resumable(e)])
  /\ preloaded' = [n \in Names |-> Never] /\ hit' = {} /\ overlooked' = {}
  /\ doscan' \in BOOLEAN
  /\ \E d \in Delays : now' = now + d
  /\ phase' = "tick"
  /\ UNCHANGED <<procs, seen, known, queue, raw, credited, total>>

Next ==
  \/ Tick \/ Tick2 \/ Processes \/ Switch \/ Stop \/ Restart
  \/ \E e \in Exes : Register(e)

Spec == Init /\ [][Next]_vars

-----------------------------------------------------------------------------
(* Properties.                                                             *)

\* The seconds weight was given for are those of the processes that exited, those
\* so far of the ones still tracked, and those of the ones that ended or changed
\* their program while the daemon was down: giving weight at every scan and the
\* rest at exit counts no second twice and loses none (spy.c:363, spy.c:444).  Its terms are
\* sums of seconds, so it rests on the types.
SecondsBalance ==
  /\ TypeOK
  /\ \A e \in Exes :
       credited[e] = total[e] + forgotten[e] + Accounted(e, DOMAIN tracked[e])

\* No process is a launch twice: what a launch is counted for no scan has tracked
\* before, whatever its workers do, who gets its PIDs, and however often the daemon
\* stops and starts while it runs (spy.c:300, state_io.c:99).
LaunchesAreNew ==
  [][\A e \in Exes : raw'[e] > raw[e] =>
       \A p \in Fresh(e) : UserInitiated(p) => p \notin seen]_vars

\* A scan credits a hit only for a preload that was over before any of the
\* processes it is credited for began, and that is still in the window: the
\* preloads of its own tick, or of processes already running, never count.  While
\* scanning is off predictions go on and note preloads of what runs already; the
\* first scan afterwards may take such a process for a hit (state.c:375).
HitsCameFirst ==
  [][\A e \in hit' : phase = "tick" /\ phase' = "tick2" =>
       LET t == preloaded[NameOf[e]] IN
         /\ t # Never /\ now - t < Window
         /\ e \notin overlooked => \A p \in Fresh(e) : t < procs[p].since]_vars

\* Two executables of one base name would share a preload time.
DistinctNames == \A e, f \in Exes : NameOf[e] = NameOf[f] => e = f

\* An application that was closed and opened again between two scans is a new
\* launch, when a tick scans, provided no process has the PID of one that is remembered.
RestartsCounted ==
  [][phase = "tick" /\ phase' = "tick2" /\ doscan =>
       \A e \in known :
         (/\ \E p \in DOMAIN procs : procs[p].exe = e /\ UserInitiated(p)
          /\ DOMAIN tracked[e] \cap DOMAIN procs = {})
           => raw'[e] = raw[e] + 1]_vars
=============================================================================
