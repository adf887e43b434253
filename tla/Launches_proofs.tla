-------------------------- MODULE Launches_proofs --------------------------
(***************************************************************************)
(* Launches, the hits among them and the balance of their seconds, for any *)
(* executables, processes and delays.                                      *)
(***************************************************************************)
EXTENDS Launches, SumLemmas

-----------------------------------------------------------------------------
(* The executables known and the PIDs remembered.                          *)

KnownInv ==
  /\ known \subseteq Exes /\ queue \subseteq Exes \ known
  /\ DOMAIN tracked = Exes
  /\ now \in Nat
  /\ \A p \in DOMAIN procs : procs[p] \in Process
  /\ raw \in [Exes -> Nat]

\* What is among the processes afterwards either was before, with its program and
\* since the same time, or became this program now.
LEMMA ProcessesKeep ==
  ASSUME KnownInv, Processes, NEW p \in DOMAIN procs'
  PROVE  /\ procs'[p] \in Process
         /\ \/ procs'[p].since = now
            \/ /\ p \in DOMAIN procs
               /\ procs'[p].exe = procs[p].exe /\ procs'[p].since = procs[p].since
<1> USE DEF KnownInv
<1>1. ASSUME NEW q \in Pids, NEW e \in Exes, NEW b \in BOOLEAN, Become(q, e, b)
      PROVE  /\ procs'[p] \in Process
             /\ \/ procs'[p].since = now
                \/ /\ p \in DOMAIN procs
                   /\ procs'[p].exe = procs[p].exe /\ procs'[p].since = procs[p].since
      BY <1>1 DEF Become, Process
<1>2. ASSUME NEW q \in Pids, NEW e \in Exes, Exec(q, e)
      PROVE  \E b \in BOOLEAN : Become(q, e, b)
  <2>1. (procs[q].byUser \/ e \in Desktop) \in BOOLEAN
        OBVIOUS
  <2>2. QED
        BY <1>2, <2>1 DEF Exec
<1>3. ASSUME NEW q \in Pids, Exit(q)
      PROVE  p \in DOMAIN procs /\ procs'[p] = procs[p]
      BY <1>3 DEF Exit
<1>4. ASSUME NEW q \in Pids, Orphan(q)
      PROVE  /\ p \in DOMAIN procs /\ procs'[p] \in Process
             /\ procs'[p].exe = procs[p].exe /\ procs'[p].since = procs[p].since
  <2>1. /\ q \in DOMAIN procs
        /\ procs' = [procs EXCEPT ![q] = [procs[q] EXCEPT !.byUser = FALSE]]
        BY <1>4 DEF Orphan
  <2>2. p \in DOMAIN procs /\ procs[p] \in Process
        BY <2>1
  <2>3. CASE p = q
    <3>1. procs'[p] = [procs[p] EXCEPT !.byUser = FALSE]
          BY <2>1, <2>2, <2>3
    <3>2. QED
          BY <2>2, <3>1 DEF Process
  <2>4. CASE p # q
        BY <2>1, <2>2, <2>4
  <2>5. QED
        BY <2>3, <2>4
<1>5. QED
      BY <1>1, <1>2, <1>3, <1>4 DEF Processes, Start, Parents

LEMMA KnownInit == Init => KnownInv
  BY DEF Init, KnownInv

LEMMA KnownStep == KnownInv /\ [Next]_vars => KnownInv'
<1> SUFFICES ASSUME KnownInv, [Next]_vars PROVE KnownInv'
    OBVIOUS
<1> USE DEF KnownInv
<1>1. CASE Tick
  <2>1. /\ now' \in Nat /\ UNCHANGED <<procs, known>>
        BY <1>1, LaunchAssumption DEF Tick
  <2>2. CASE Scan
        BY <2>1, <2>2 DEF Scan, Queued, Process, CountLaunches
  <2>3. CASE NoScan
        BY <2>1, <2>3 DEF NoScan
  <2> QED
      BY <1>1, <2>2, <2>3 DEF Tick, Scanned
<1>2. CASE Tick2
      BY <1>2, LaunchAssumption DEF Tick2, counters
<1>3. CASE Processes
      BY <1>3, ProcessesKeep DEF Processes, memory, counters
<1>4. CASE Stop
      BY <1>4 DEF Stop, Forget
<1>5. CASE Restart
      BY <1>5, LaunchAssumption DEF Restart, Forget
<1>6. CASE \E e \in Exes : Register(e)
      BY <1>6 DEF Register, counters
<1>7. CASE Switch \/ UNCHANGED vars
      BY <1>7 DEF Switch, vars, memory, counters
<1>8. QED
      BY <1>1, <1>2, <1>3, <1>4, <1>5, <1>6, <1>7 DEF Next

-----------------------------------------------------------------------------
(* A launch is counted for new processes, and always for the first one of  *)
(* an application.                                                         *)

\* Only a scan counts launches, those of executables without a process remembered.
LEMMA OnlyScansCount ==
  ASSUME KnownInv, [Next]_vars, NEW e \in Exes, raw'[e] > raw[e]
  PROVE  Tick /\ Scan /\ Launched(e)
<1>1. raw \in [Exes -> Nat]
      BY DEF KnownInv
<1>2. raw' # raw
      BY <1>1
<1>3. Tick /\ Scan
  <2>1. Tick
        BY <1>2 DEF Next, Tick2, Processes, Switch, Stop, Restart, Register, vars, memory,
           counters
  <2> QED
      BY <1>2, <2>1 DEF Tick, Scanned, NoScan
<1> DEFINE L == {x \in Exes : Launched(x)}
<1>4. CountLaunches(L)
      BY <1>3 DEF Scan
<1> HIDE DEF L
<1>5. raw'[e] = raw[e] + IF e \in L THEN 1 ELSE 0
      BY <1>4 DEF CountLaunches
<1>6. e \in L
      BY <1>1, <1>5
<1> QED
    BY <1>3, <1>6 DEF L

\* What a scan has tracked stays tracked as long as it runs the same program: a
\* clean-up drops it only when its PID is gone, a restart only if it runs another.
SeenInv == \A p \in seen : p \in DOMAIN procs => p \in DOMAIN tracked[procs[p].exe]

LEMMA SeenStep ==
  ASSUME KnownInv, SeenInv, [Next]_vars
  PROVE  SeenInv'
<1> USE DEF KnownInv
<1>1. CASE Tick
  <2>1. procs' = procs /\ \A p \in DOMAIN procs : procs[p].exe \in Exes
        BY <1>1 DEF Tick, Process
  <2>2. CASE Scan
    <3>1. /\ tracked' = [e \in Exes |-> TrackedAfter(e)]
          /\ seen' = seen \cup UNION {Fresh(e) : e \in Exes}
          BY <2>2 DEF Scan
    <3>2. ASSUME NEW e \in Exes PROVE DOMAIN tracked'[e] = Remain(e) \cup Fresh(e)
          BY <3>1 DEF TrackedAfter
    <3>3. ASSUME NEW p \in seen', p \in DOMAIN procs
          PROVE  p \in Remain(procs[p].exe) \cup Fresh(procs[p].exe)
      <4>1. CASE p \in seen
            BY <3>3, <4>1 DEF SeenInv, Remain, Exited
      <4>2. CASE \E e \in Exes : p \in Fresh(e)
            BY <4>2 DEF Fresh
      <4> QED
          BY <3>1, <3>3, <4>1, <4>2
    <3> QED
        BY <2>1, <3>2, <3>3 DEF SeenInv
  <2>3. CASE NoScan
        BY <2>1, <2>3 DEF NoScan, SeenInv
  <2> QED
      BY <1>1, <2>2, <2>3 DEF Tick, Scanned
<1>2. CASE Processes
  <2>1. tracked' = tracked
        BY <1>2 DEF Processes, memory
  <2>2. ASSUME NEW p \in DOMAIN procs', p \in seen'
        PROVE  p \in seen /\ p \in DOMAIN procs /\ procs'[p].exe = procs[p].exe
    <3>1. ASSUME NEW q \in Pids, NEW e, NEW b, Become(q, e, b)
          PROVE  p \in seen /\ p \in DOMAIN procs /\ procs'[p].exe = procs[p].exe
          BY <2>2, <3>1 DEF Become
    <3>2. ASSUME NEW q \in Pids, Exit(q)
          PROVE  p \in seen /\ p \in DOMAIN procs /\ procs'[p].exe = procs[p].exe
          BY <2>2, <3>2 DEF Exit
    <3>3. ASSUME NEW q \in Pids, Orphan(q)
          PROVE  p \in seen /\ p \in DOMAIN procs /\ procs'[p].exe = procs[p].exe
      <4>1. /\ seen' = seen
            /\ procs' = [procs EXCEPT ![q] = [procs[q] EXCEPT !.byUser = FALSE]]
            BY <3>3 DEF Orphan
      <4>2. p \in DOMAIN procs /\ procs[p] \in Process
            BY <4>1
      <4> QED
          BY <2>2, <4>1, <4>2 DEF Process
    <3> QED
        BY <1>2, <3>1, <3>2, <3>3 DEF Processes, Start, Exec
  <2> QED
      BY <2>1, <2>2 DEF SeenInv
<1>3. CASE Stop
  <2>1. /\ UNCHANGED <<procs, seen>>
        /\ tracked' = [e \in Exes |-> [p \in Remain(e) |-> tracked[e][p]]]
        BY <1>3 DEF Stop, Forget
  <2> QED
      BY <2>1 DEF SeenInv, Remain, Exited, Process
<1>4. CASE Restart
  <2>1. /\ UNCHANGED <<procs, seen>>
        /\ tracked' = [e \in Exes |-> [p \in Resumable(e) |-> tracked[e][p]]]
        BY <1>4 DEF Restart, Forget
  <2> QED
      BY <2>1 DEF SeenInv, Resumable, Remain, Exited, Process
<1>5. CASE UNCHANGED <<procs, seen, tracked>>
      BY <1>5 DEF SeenInv
<1> QED
    BY <1>1, <1>2, <1>3, <1>4, <1>5
    DEF Next, Tick2, Register, Switch, vars, memory

\* No process is counted as a launch twice, whatever executables are found, reloaded,
\* executed by others or restarted around it (spy.c:300, state_io.c:99).
THEOREM NoProcessTwice == Spec => LaunchesAreNew
<1>1. ASSUME KnownInv, SeenInv, [Next]_vars
      PROVE  \A e \in Exes : raw'[e] > raw[e] =>
               \A p \in Fresh(e) : UserInitiated(p) => p \notin seen
  <2> SUFFICES ASSUME NEW e \in Exes, raw'[e] > raw[e], NEW p \in Fresh(e), p \in seen
               PROVE  FALSE
      OBVIOUS
  <2>1. p \in DOMAIN procs /\ procs[p].exe = e /\ p \notin Remain(e)
        BY DEF Fresh
  <2>2. p \in DOMAIN tracked[e]
        BY <1>1, <2>1 DEF SeenInv
  <2> QED
      BY <2>1, <2>2 DEF Remain, Exited
<1>2. KnownInv /\ SeenInv /\ [Next]_vars =>
        [\A e \in Exes : raw'[e] > raw[e] =>
           \A p \in Fresh(e) : UserInitiated(p) => p \notin seen]_vars
      BY <1>1
<1>3. Init => SeenInv
      BY DEF Init, SeenInv
<1>4. KnownInv /\ SeenInv /\ [Next]_vars => SeenInv'
      BY SeenStep
<1> QED
    BY <1>2, <1>3, <1>4, KnownInit, KnownStep, PTL DEF Spec, LaunchesAreNew

\* A scan that finds an application running of which it remembers no process still
\* running counts a launch: none is taken for a worker of what has ended.
THEOREM NoRestartMissed == Spec => RestartsCounted
<1>1. ASSUME KnownInv, [Next]_vars, phase = "tick", phase' = "tick2", doscan, NEW e \in known,
             \E p \in DOMAIN procs : procs[p].exe = e /\ UserInitiated(p),
             DOMAIN tracked[e] \cap DOMAIN procs = {}
      PROVE  raw'[e] = raw[e] + 1
  <2> DEFINE L == {x \in Exes : Launched(x)}
  <2>1. Tick
        BY <1>1 DEF Next, Tick2, Processes, Switch, Stop, Restart, Register, vars
  <2>2. Remain(e) = {}
        BY <1>1 DEF Remain, Exited
  <2>3. Launched(e)
        BY <1>1, <2>2 DEF Launched, HasUserInstance, Fresh
  <2>4. CountLaunches(L)
        BY <1>1, <2>1 DEF Tick, Scanned, Scan
  <2>5. e \in L
        BY <1>1, <2>3 DEF KnownInv
  <2> HIDE DEF L
  <2> QED
      BY <1>1, <2>4, <2>5 DEF CountLaunches, KnownInv
<1>2. KnownInv /\ [Next]_vars =>
        [phase = "tick" /\ phase' = "tick2" /\ doscan =>
           \A e \in known :
             (/\ \E p \in DOMAIN procs : procs[p].exe = e /\ UserInitiated(p)
              /\ DOMAIN tracked[e] \cap DOMAIN procs = {})
               => raw'[e] = raw[e] + 1]_vars
      BY <1>1
<1> QED
    BY <1>2, KnownInit, KnownStep, PTL DEF Spec, RestartsCounted

-----------------------------------------------------------------------------
(* What is counted as a hit was preloaded first.                           *)

\* Why the scan may judge by the clock alone: every preload noted is in the past,
\* none is noted for an executable not known, and every process of a known one that
\* is not remembered began after the last preload of that executable, since the
\* scan of the tick that preloaded remembered all that ran; if that tick did not scan
\* and one was running, the executable is among the overlooked.
HitInv ==
  /\ phase \in {"tick", "tick2", "down"}
  /\ \A e \in Exes : preloaded[NameOf[e]] # Never =>
       preloaded[NameOf[e]] \in Nat /\ preloaded[NameOf[e]] < now
  /\ \A e \in Exes \ known : preloaded[NameOf[e]] = Never
  /\ \A e \in known \ overlooked : \A p \in DOMAIN procs \ DOMAIN tracked[e] :
       procs[p].exe = e /\ preloaded[NameOf[e]] # Never => preloaded[NameOf[e]] < procs[p].since

LEMMA HitInit == Init => HitInv
  BY DEF Init, HitInv, Names

LEMMA HitTick ==
  ASSUME DistinctNames, KnownInv, HitInv, Tick
  PROVE  HitInv'
<1> USE DEF KnownInv
<1>1. /\ phase' = "tick2" /\ procs' = procs /\ known' = known
      /\ now' \in Nat /\ now < now'
      BY LaunchAssumption DEF Tick
<1>2. PICK P \in SUBSET known :
        /\ preloaded' = Noted(P, now)
        /\ overlooked' = IF doscan THEN {} ELSE overlooked \cup {e \in P : Fresh(e) # {}}
      BY DEF Tick
<1>3. ASSUME NEW e \in Exes
      PROVE  preloaded'[NameOf[e]] = IF e \in P THEN now ELSE preloaded[NameOf[e]]
      BY <1>2 DEF Noted, Names, DistinctNames
<1>4. ASSUME NEW e \in known \ overlooked', NEW p \in DOMAIN procs \ DOMAIN tracked'[e],
             procs[p].exe = e, preloaded'[NameOf[e]] # Never
      PROVE  preloaded'[NameOf[e]] < procs[p].since
  <2>1. CASE doscan
    <3>1. tracked'[e] = TrackedAfter(e)
          BY <2>1 DEF Tick, Scanned, Scan
    <3>2. p \in DOMAIN tracked'[e]
          BY <1>4, <3>1 DEF TrackedAfter, Fresh
    <3> QED
        BY <1>4, <3>2
  <2>2. CASE ~doscan
    <3>1. tracked' = tracked
          BY <2>2 DEF Tick, Scanned, NoScan
    <3>2. p \in Fresh(e)
          BY <1>4, <3>1 DEF Fresh, Remain
    <3>3. e \notin P /\ e \notin overlooked
          BY <1>2, <1>4, <2>2, <3>2
    <3> QED
        BY <1>3, <1>4, <3>1, <3>3 DEF HitInv
  <2> QED
      BY <2>1, <2>2
<1>5. \A e \in Exes : preloaded'[NameOf[e]] # Never =>
        preloaded'[NameOf[e]] \in Nat /\ preloaded'[NameOf[e]] < now'
      BY <1>1, <1>3 DEF HitInv
<1>6. \A e \in Exes \ known' : preloaded'[NameOf[e]] = Never
      BY <1>1, <1>3 DEF HitInv
<1> QED
    BY <1>1, <1>4, <1>5, <1>6 DEF HitInv

\* The scans that stop and start the daemon forget no process that still runs
\* the executable it was remembered for, unless every preload is forgotten too.
LEMMA HitStep ==
  ASSUME DistinctNames, KnownInv, HitInv, [Next]_vars
  PROVE  HitInv'
<1> USE DEF KnownInv
<1>1. CASE Tick
      BY <1>1, HitTick
<1>2. CASE Tick2
  <2>1. /\ phase' = "tick" /\ UNCHANGED <<procs, tracked, preloaded, overlooked>>
        /\ known \subseteq known' /\ known' \subseteq known \cup queue
        /\ now' \in Nat /\ now < now'
        BY <1>2, LaunchAssumption DEF Tick2
  <2>2. \A e \in known' \ known : preloaded[NameOf[e]] = Never
        BY <2>1 DEF HitInv
  <2>3. \A e \in Exes : preloaded[NameOf[e]] # Never =>
          preloaded[NameOf[e]] \in Nat /\ preloaded[NameOf[e]] < now'
        BY <2>1 DEF HitInv
  <2>4. QED
        BY <2>1, <2>2, <2>3 DEF HitInv
<1>3. CASE Processes
  <2>1. UNCHANGED <<now, phase, known, tracked, preloaded, overlooked>>
        BY <1>3 DEF Processes, memory
  <2>2. ASSUME NEW e \in known \ overlooked, NEW p \in DOMAIN procs' \ DOMAIN tracked[e],
               procs'[p].exe = e, preloaded[NameOf[e]] # Never
        PROVE  preloaded[NameOf[e]] < procs'[p].since
        BY <1>3, <2>2, ProcessesKeep DEF HitInv
  <2>3. QED
        BY <2>1, <2>2 DEF HitInv
<1>4. CASE Stop
  <2>1. /\ phase' = "down" /\ UNCHANGED <<now, procs, known, preloaded, overlooked>>
        /\ tracked' = [e \in Exes |-> [p \in Remain(e) |-> tracked[e][p]]]
        BY <1>4 DEF Stop, Forget
  <2>2. ASSUME NEW e \in known, NEW p \in DOMAIN procs \ DOMAIN tracked'[e]
        PROVE  p \notin DOMAIN tracked[e]
        BY <2>1 DEF Remain, Exited
  <2>3. QED
        BY <2>1, <2>2 DEF HitInv
<1>5. CASE Restart
  <2>1. /\ phase' = "tick" /\ preloaded' = [n \in Names |-> Never]
        BY <1>5 DEF Restart
  <2>2. \A e \in Exes : preloaded'[NameOf[e]] = Never
        BY <2>1 DEF Names
  <2>3. known' = known
        BY <1>5 DEF Restart
  <2>4. QED
        BY <2>1, <2>2, <2>3 DEF HitInv
<1>6. CASE \E e \in Exes : Register(e)
      BY <1>6 DEF Register, HitInv
<1>7. CASE Switch \/ UNCHANGED vars
      BY <1>7 DEF Switch, vars, memory, HitInv
<1>8. QED
      BY <1>1, <1>2, <1>3, <1>4, <1>5, <1>6, <1>7 DEF Next

\* No hit is credited for a preload that came after, or with, the processes it is
\* credited for, unless it was noted without a scan while one of them ran: executables
\* whose base names differ are judged by their own preloads only (stats.c:402, spy.c:309).
THEOREM NoHitAfterTheFact == DistinctNames => (Spec => HitsCameFirst)
<1> SUFFICES ASSUME DistinctNames PROVE Spec => HitsCameFirst
    OBVIOUS
<1>1. ASSUME KnownInv, HitInv, [Next]_vars, phase = "tick", phase' = "tick2",
             NEW e \in hit'
      PROVE  LET t == preloaded[NameOf[e]] IN
               /\ t # Never /\ now - t < Window
               /\ e \notin overlooked => \A p \in Fresh(e) : t < procs[p].since
  <2>1. Tick
        BY <1>1 DEF Next, Tick2, Processes, Switch, Stop, Restart, Register, vars
  <2>2. e \in Exes /\ IsPreloaded(e)
        BY <1>1, <2>1 DEF Tick, Scanned, Scan, NoScan, CountLaunches
  <2> DEFINE t == preloaded[NameOf[e]]
  <2>3. t # Never /\ t \in Nat /\ t < now
        BY <1>1, <2>2 DEF IsPreloaded, HitInv
  <2>4. now - t < Window
        BY <1>1, <2>2, <2>3 DEF IsPreloaded, AtLeastZero, KnownInv
  <2>5. ASSUME NEW p \in Fresh(e), e \notin overlooked
        PROVE  t < procs[p].since
        BY <1>1, <2>3, <2>5 DEF Fresh, Remain, Exited, HitInv, KnownInv
  <2>6. QED
        BY <2>3, <2>4, <2>5
<1>2. KnownInv /\ HitInv /\ [Next]_vars =>
        [\A e \in hit' : phase = "tick" /\ phase' = "tick2" =>
           LET t == preloaded[NameOf[e]] IN
             /\ t # Never /\ now - t < Window
             /\ e \notin overlooked => \A p \in Fresh(e) : t < procs[p].since]_vars
      BY <1>1
<1>3. KnownInv /\ HitInv /\ [Next]_vars => HitInv'
      BY HitStep
<1>4. QED
      BY <1>2, <1>3, KnownInit, KnownStep, HitInit, PTL DEF Spec, HitsCameFirst

-----------------------------------------------------------------------------
(* The seconds.                                                            *)

\* The clock never goes back, so what is noted of a process is in order and none
\* of the differences the code cuts off at zero is negative.
TimesInv ==
  /\ TypeOK
  /\ \A e \in Exes : \A p \in DOMAIN tracked[e] :
       tracked[e][p].start <= tracked[e][p].last /\ tracked[e][p].last <= now

Balanced(e) == credited[e] = total[e] + forgotten[e] + Accounted(e, DOMAIN tracked[e])

\* Every term of a sum over PIDs of one executable is a number of seconds.
LEMMA SecondsTyped ==
  ASSUME TimesInv, NEW e \in Exes
  PROVE  /\ IsFiniteSet(DOMAIN tracked[e])
         /\ \A p \in DOMAIN tracked[e] :
              /\ tracked[e][p] \in Entry
              /\ tracked[e][p].last - tracked[e][p].start \in Nat
              /\ Lifetime(e, p) = now - tracked[e][p].start /\ Lifetime(e, p) \in Nat
              /\ Unaccounted(e, p) = now - tracked[e][p].last /\ Unaccounted(e, p) \in Nat
<1>1. DOMAIN tracked[e] \subseteq Pids /\ now \in Nat
      BY DEF TimesInv, TypeOK
<1>2. IsFiniteSet(DOMAIN tracked[e])
      BY <1>1, FS_Subset, LaunchAssumption
<1>3. ASSUME NEW p \in DOMAIN tracked[e]
      PROVE  /\ tracked[e][p] \in Entry
             /\ tracked[e][p].start \in Nat /\ tracked[e][p].last \in Nat
             /\ tracked[e][p].start <= tracked[e][p].last /\ tracked[e][p].last <= now
      BY DEF TimesInv, TypeOK, Entry
<1> QED
    BY <1>1, <1>2, <1>3 DEF Lifetime, Unaccounted, AtLeastZero

\* The seconds accounted for, as a sum over some of the PIDs of one function.
LEMMA AccountedOf ==
  ASSUME TimesInv, NEW e \in Exes, NEW P \in SUBSET (DOMAIN tracked[e])
  PROVE  LET f == [p \in DOMAIN tracked[e] |-> tracked[e][p].last - tracked[e][p].start]
         IN  Accounted(e, P) = SumFunctionOnSet(f, P) /\ Accounted(e, P) \in Nat
<1> DEFINE f == [p \in DOMAIN tracked[e] |-> tracked[e][p].last - tracked[e][p].start]
           g == [p \in P |-> tracked[e][p].last - tracked[e][p].start]
<1>1. IsFiniteSet(P)
      BY SecondsTyped, FS_Subset
<1>2. \A p \in P : f[p] = g[p] /\ g[p] \in Nat
      BY SecondsTyped
<1>3. DOMAIN g = P
      OBVIOUS
<1>4. Accounted(e, P) = SumFunctionOnSet(g, P)
      BY <1>3 DEF Accounted, SumFunction
<1> HIDE DEF f, g
<1>5. SumFunctionOnSet(f, P) = SumFunctionOnSet(g, P) /\ SumFunctionOnSet(g, P) \in Nat
      BY <1>1, <1>2, SumSame, SumNat
<1> QED
    BY <1>4, <1>5 DEF f

\* Of the PIDs that are forgotten, the seconds go to their own account.
LEMMA ForgettingBalances ==
  ASSUME TimesInv, NEW e \in Exes, NEW P \in SUBSET (DOMAIN tracked[e])
  PROVE  Accounted(e, DOMAIN tracked[e]) = Accounted(e, P) + Accounted(e, DOMAIN tracked[e] \ P)
<1> DEFINE D == DOMAIN tracked[e]
           f == [p \in D |-> tracked[e][p].last - tracked[e][p].start]
<1>1. IsFiniteSet(D) /\ \A p \in D : f[p] \in Int
      BY SecondsTyped
<1>2. P \cup (D \ P) = D /\ P \cap (D \ P) = {} /\ D \ P \in SUBSET D
      OBVIOUS
<1>3. /\ Accounted(e, D) = SumFunctionOnSet(f, D)
      /\ Accounted(e, P) = SumFunctionOnSet(f, P)
      /\ Accounted(e, D \ P) = SumFunctionOnSet(f, D \ P)
      BY <1>2, AccountedOf
<1> HIDE DEF D, f
<1>4. SumFunctionOnSet(f, D) = SumFunctionOnSet(f, P) + SumFunctionOnSet(f, D \ P)
      BY <1>1, <1>2, SumParts
<1> QED
    BY <1>2, <1>3, <1>4 DEF D

\* One scan: the seconds gained since the last one, with those accounted for
\* before, are the whole lives of the exited and what the others have lived so far.
LEMMA ScanBalances ==
  ASSUME TimesInv, NEW e \in Exes, tracked' = [x \in Exes |-> TrackedAfter(x)]
  PROVE  /\ Gained(e) + Accounted(e, DOMAIN tracked[e])
              = Ended(e) + Accounted(e, DOMAIN tracked[e])'
         /\ Gained(e) \in Nat /\ Ended(e) \in Nat
         /\ Accounted(e, DOMAIN tracked[e])' \in Nat
<1> DEFINE D     == DOMAIN tracked[e]
           life  == [p \in D |-> Lifetime(e, p)]
           since == [p \in D |-> Unaccounted(e, p)]
           past  == [p \in D |-> tracked[e][p].last - tracked[e][p].start]
           ended == [p \in Exited(e) |-> Lifetime(e, p)]
           after == [p \in DOMAIN tracked'[e] |-> tracked'[e][p].last - tracked'[e][p].start]
<1>1. /\ Remain(e) \cup Exited(e) = D /\ Remain(e) \cap Exited(e) = {}
      /\ Remain(e) \subseteq D /\ Exited(e) \subseteq D
      /\ Remain(e) \cap Fresh(e) = {}
      BY DEF Remain, Exited, Fresh
<1>2. /\ IsFiniteSet(D)
      /\ \A p \in D : /\ tracked[e][p] \in Entry
                      /\ life[p] = now - tracked[e][p].start /\ life[p] \in Nat
                      /\ since[p] = now - tracked[e][p].last /\ since[p] \in Nat
                      /\ past[p] = tracked[e][p].last - tracked[e][p].start /\ past[p] \in Nat
      BY SecondsTyped
<1>3. now \in Nat /\ DOMAIN procs \subseteq Pids
      BY DEF TimesInv, TypeOK
<1>4. ASSUME NEW p \in D PROVE life[p] = since[p] + past[p]
  <2>1. tracked[e][p].start \in Nat /\ tracked[e][p].last \in Nat
        BY <1>2 DEF Entry
  <2>2. /\ life[p] = now - tracked[e][p].start
        /\ since[p] = now - tracked[e][p].last
        /\ past[p] = tracked[e][p].last - tracked[e][p].start
        BY <1>2
  <2> HIDE DEF life, since, past, D
  <2> QED
      BY <1>3, <2>1, <2>2
<1>5. tracked'[e] = TrackedAfter(e) /\ DOMAIN tracked'[e] = Remain(e) \cup Fresh(e)
      BY DEF TrackedAfter
<1>6. IsFiniteSet(Remain(e)) /\ IsFiniteSet(Exited(e)) /\ IsFiniteSet(Remain(e) \cup Fresh(e))
  <2>1. Fresh(e) \subseteq Pids /\ D \subseteq Pids
        BY <1>3 DEF Fresh, TimesInv, TypeOK
  <2>2. Remain(e) \cup Fresh(e) \subseteq Pids
        BY <1>1, <2>1
  <2> HIDE DEF D
  <2> QED
      BY <1>1, <1>2, <2>2, FS_Subset, LaunchAssumption
<1>7. ASSUME NEW p \in Fresh(e) PROVE after[p] = 0
  <2>1. tracked'[e][p].start = now /\ tracked'[e][p].last = now
        BY <1>5 DEF TrackedAfter
  <2> QED
      BY <1>3, <1>5, <2>1
<1>8. ASSUME NEW p \in Remain(e) PROVE after[p] = life[p]
  <2>1. tracked'[e][p] = [tracked[e][p] EXCEPT !.last = IF now > @ THEN now ELSE @]
        BY <1>1, <1>5 DEF TrackedAfter
  <2>2. p \in D /\ tracked[e][p] \in Entry /\ tracked[e][p].last <= now
        BY <1>1, <1>2 DEF TimesInv
  <2>3. tracked'[e][p].start = tracked[e][p].start /\ tracked'[e][p].last = now
        BY <1>3, <2>1, <2>2 DEF Entry
  <2>4. after[p] = now - tracked[e][p].start
        BY <1>5, <2>3
  <2> QED
      BY <1>2, <2>2, <2>4
<1>9. /\ Gained(e) = SumFunctionOnSet(since, D)
      /\ Accounted(e, D) = SumFunctionOnSet(past, D)
      /\ Ended(e) = SumFunctionOnSet(ended, Exited(e))
      /\ Accounted(e, DOMAIN tracked[e])' = SumFunctionOnSet(after, DOMAIN tracked'[e])
  <2>1. /\ DOMAIN since = D /\ DOMAIN past = D
        /\ DOMAIN ended = Exited(e) /\ DOMAIN after = DOMAIN tracked'[e]
        OBVIOUS
  <2> QED
      BY <2>1 DEF Gained, Accounted, Ended, SumFunction
<1>10. \A p \in Exited(e) : ended[p] = life[p]
      BY <1>1
<1>11. ASSUME NEW p \in Remain(e) \cup Fresh(e) PROVE after[p] \in Nat
  <2>1. CASE p \in Remain(e)
    <3>1. p \in D
          BY <1>1, <2>1
    <3> HIDE DEF D, life, since, past, ended, after
    <3> QED
        BY <1>2, <1>8, <2>1, <3>1
  <2>2. CASE p \in Fresh(e)
    <3> HIDE DEF after
    <3> QED
        BY <1>7, <2>2
  <2> QED
      BY <2>1, <2>2
<1> HIDE DEF D, life, since, past, ended, after
<1>12. SumFunctionOnSet(life, D) = SumFunctionOnSet(since, D) + SumFunctionOnSet(past, D)
      BY <1>2, <1>4, SumPlus
<1>13. SumFunctionOnSet(life, D) =
         SumFunctionOnSet(life, Remain(e)) + SumFunctionOnSet(life, Exited(e))
  <2>1. \A p \in D : life[p] \in Int
        BY <1>2
  <2> QED
      BY <1>1, <1>2, <2>1, SumParts
<1>14. SumFunctionOnSet(ended, Exited(e)) = SumFunctionOnSet(life, Exited(e))
      BY <1>6, <1>10, SumSame
<1>15. SumFunctionOnSet(after, Remain(e) \cup Fresh(e)) = SumFunctionOnSet(life, Remain(e))
  <2>1. SumFunctionOnSet(after, Remain(e) \cup Fresh(e)) =
          SumFunctionOnSet(after, Remain(e)) + SumFunctionOnSet(after, Fresh(e))
        BY <1>1, <1>6, <1>11, SumParts
  <2>2. IsFiniteSet(Fresh(e))
        BY <1>6, FS_Subset
  <2>3. SumFunctionOnSet(after, Fresh(e)) = 0
        BY <1>7, <2>2, SumZero
  <2>4. SumFunctionOnSet(after, Remain(e)) = SumFunctionOnSet(life, Remain(e))
        BY <1>6, <1>8, SumSame
  <2>5. SumFunctionOnSet(life, Remain(e)) \in Int
        BY <1>1, <1>2, <1>6, SumInt
  <2> QED
      BY <2>1, <2>3, <2>4, <2>5
<1>16. /\ SumFunctionOnSet(since, D) \in Nat /\ SumFunctionOnSet(past, D) \in Nat
       /\ SumFunctionOnSet(ended, Exited(e)) \in Nat
       /\ SumFunctionOnSet(after, DOMAIN tracked'[e]) \in Nat
       /\ SumFunctionOnSet(life, Remain(e)) \in Nat
  <2>1. \A p \in Exited(e) : ended[p] \in Nat
        BY <1>1, <1>2, <1>10
  <2>2. \A p \in Remain(e) : life[p] \in Nat
        BY <1>1, <1>2
  <2> QED
      BY <1>2, <1>5, <1>6, <1>11, <2>1, <2>2, SumNat
<1> QED
    BY <1>5, <1>9, <1>12, <1>13, <1>14, <1>15, <1>16 DEF D

LEMMA TimesInit == Init => TimesInv /\ \A e \in Exes : Balanced(e)
<1> SUFFICES ASSUME Init PROVE TimesInv /\ \A e \in Exes : Balanced(e)
    OBVIOUS
<1>1. TypeOK
      BY DEF Init, TypeOK
<1>2. \A e \in Exes : DOMAIN tracked[e] = {}
      BY DEF Init
<1>3. TimesInv
      BY <1>1, <1>2 DEF TimesInv
<1>4. ASSUME NEW e \in Exes PROVE Balanced(e)
  <2> DEFINE f == [p \in DOMAIN tracked[e] |-> tracked[e][p].last - tracked[e][p].start]
  <2>1. DOMAIN f = {} /\ Accounted(e, DOMAIN tracked[e]) = SumFunctionOnSet(f, DOMAIN f)
        BY <1>2 DEF Accounted, SumFunction
  <2> HIDE DEF f
  <2>2. Accounted(e, DOMAIN tracked[e]) = 0
        BY <2>1, SumEmpty
  <2>3. credited[e] = 0 /\ total[e] = 0 /\ forgotten[e] = 0
        BY DEF Init
  <2> QED
      BY <2>2, <2>3 DEF Balanced
<1> QED
    BY <1>3, <1>4

\* What the processes are, after any step, is of the type given.
LEMMA ProcsTyped ==
  ASSUME TypeOK, Processes
  PROVE  DOMAIN procs' \subseteq Pids /\ \A p \in DOMAIN procs' : procs'[p] \in Process
<1>1. KnownInv
      BY DEF TypeOK, KnownInv
<1>2. \A p \in DOMAIN procs' : procs'[p] \in Process
      BY <1>1, ProcessesKeep
<1>3. DOMAIN procs' \subseteq Pids
      BY DEF Processes, Exec, Start, Exit, Orphan, Become, TypeOK
<1> QED
    BY <1>2, <1>3

LEMMA SeenTyped ==
  ASSUME TypeOK, Processes
  PROVE  seen' \subseteq Pids
  BY DEF Processes, Exec, Start, Exit, Orphan, Become, TypeOK

\* A tick that scans.
LEMMA TimesScan ==
  ASSUME TimesInv, Tick, Scan
  PROVE  TimesInv' /\ \A e \in Exes : Balanced(e) => Balanced(e)'
<1>1. /\ TypeOK /\ now \in Nat /\ now' \in Nat /\ now < now'
      /\ UNCHANGED <<procs, known, forgotten>> /\ phase' = "tick2"
      BY LaunchAssumption DEF TimesInv, TypeOK, Tick
<1>2. /\ queue' = Queued /\ tracked' = [e \in Exes |-> TrackedAfter(e)]
      /\ credited' = [e \in Exes |-> credited[e] + Gained(e)]
      /\ total'    = [e \in Exes |-> total[e] + Ended(e)]
      /\ CountLaunches({e \in Exes : Launched(e)})
      /\ seen' = seen \cup UNION {Fresh(e) : e \in Exes}
      BY DEF Scan
<1>3. ASSUME NEW e \in Exes, NEW p \in DOMAIN tracked'[e]
      PROVE  /\ p \in Pids /\ tracked'[e][p] \in Entry
             /\ tracked'[e][p].start <= tracked'[e][p].last
             /\ tracked'[e][p].last <= now
  <2>1. tracked'[e] = TrackedAfter(e) /\ p \in Remain(e) \cup Fresh(e)
        BY <1>2 DEF TrackedAfter
  <2>2. CASE p \in Fresh(e)
    <3>1. p \in DOMAIN procs /\ procs[p] \in Process /\ p \in Pids
          BY <1>1, <2>2 DEF Fresh, TypeOK
    <3>2. UserInitiated(p) \in BOOLEAN
      <4>1. procs[p].byUser \in BOOLEAN
            BY <3>1 DEF Process
      <4> QED
          BY <4>1, Zenon DEF UserInitiated
    <3>3. tracked'[e][p] = [byUser |-> UserInitiated(p), start |-> now, last |-> now]
          BY <2>1, <2>2 DEF TrackedAfter
    <3> QED
        BY <1>1, <3>1, <3>2, <3>3 DEF Entry
  <2>3. CASE p \notin Fresh(e)
    <3>1. p \in DOMAIN tracked[e]
          BY <2>1, <2>3 DEF Remain
    <3>2. tracked'[e][p] = [tracked[e][p] EXCEPT !.last = IF now > @ THEN now ELSE @]
          BY <2>1, <2>3 DEF TrackedAfter
    <3>3. /\ p \in Pids /\ tracked[e][p] \in Entry
          /\ tracked[e][p].start <= tracked[e][p].last /\ tracked[e][p].last <= now
          BY <1>1, <3>1 DEF TimesInv, TypeOK
    <3> QED
        BY <1>1, <3>2, <3>3 DEF Entry
  <2> QED
      BY <2>2, <2>3
<1>4. ASSUME NEW e \in Exes
      PROVE  /\ Gained(e) + Accounted(e, DOMAIN tracked[e])
                  = Ended(e) + Accounted(e, DOMAIN tracked[e])'
             /\ Gained(e) \in Nat /\ Ended(e) \in Nat
             /\ Accounted(e, DOMAIN tracked[e])' \in Nat
             /\ Accounted(e, DOMAIN tracked[e]) \in Nat
      BY <1>2, ScanBalances, AccountedOf
<1>5. /\ raw' \in [Exes -> Nat] /\ hit' \subseteq Exes /\ seen' \subseteq Pids
      /\ doscan' \in BOOLEAN /\ overlooked' \subseteq Exes
  <2>1. /\ raw' = [e \in Exes |-> raw[e] + IF e \in {x \in Exes : Launched(x)} THEN 1 ELSE 0]
        /\ hit' \subseteq Exes
        BY <1>2 DEF CountLaunches
  <2>2. seen' \subseteq Pids
        BY <1>1, <1>2 DEF TypeOK, Fresh
  <2>3. doscan' \in BOOLEAN /\ overlooked' \subseteq Exes
        BY <1>1 DEF Tick, TypeOK
  <2> QED
      BY <1>1, <2>1, <2>2, <2>3 DEF TypeOK
<1>6. credited' \in [Exes -> Nat] /\ total' \in [Exes -> Nat]
      BY <1>1, <1>2, <1>4 DEF TypeOK
<1>7. preloaded' \in [Names -> Nat \cup {Never}]
      BY <1>1 DEF Tick, Noted, TypeOK
<1>8. queue' \subseteq Exes \ known
      BY <1>1, <1>2 DEF Queued, TypeOK, Process
<1>9. DOMAIN tracked' = Exes
      BY <1>2
<1>10. TypeOK'
       BY <1>1, <1>3, <1>5, <1>6, <1>7, <1>8, <1>9 DEF TypeOK
<1>11. TimesInv'
       BY <1>1, <1>3, <1>10 DEF TimesInv, TypeOK, Entry
<1>12. ASSUME NEW e \in Exes, Balanced(e) PROVE Balanced(e)'
  <2>1. /\ credited'[e] = credited[e] + Gained(e) /\ total'[e] = total[e] + Ended(e)
        /\ forgotten'[e] = forgotten[e]
        /\ credited[e] \in Nat /\ total[e] \in Nat /\ forgotten[e] \in Nat
        BY <1>1, <1>2 DEF TypeOK
  <2>2. credited[e] = total[e] + forgotten[e] + Accounted(e, DOMAIN tracked[e])
        BY <1>12 DEF Balanced
  <2>3. credited'[e] = total'[e] + forgotten'[e] + Accounted(e, DOMAIN tracked[e])'
        BY <1>4, <2>1, <2>2
  <2> QED
      BY <2>3 DEF Balanced
<1> QED
    BY <1>11, <1>12

LEMMA TimesForget ==
  ASSUME TimesInv, NEW kept, Forget(kept),
         \A e \in Exes : kept[e] \subseteq DOMAIN tracked[e],
         UNCHANGED <<credited, total>>, now' \in Nat, now <= now'
  PROVE  /\ \A e \in Exes : Balanced(e) => Balanced(e)'
         /\ DOMAIN tracked' = Exes /\ forgotten' \in [Exes -> Nat]
         /\ \A e \in Exes : \A p \in DOMAIN tracked'[e] :
              /\ p \in Pids /\ tracked'[e][p] \in Entry
              /\ tracked'[e][p].start <= tracked'[e][p].last /\ tracked'[e][p].last <= now'
<1>1. /\ tracked' = [e \in Exes |-> [p \in kept[e] |-> tracked[e][p]]]
      /\ forgotten' = [e \in Exes |->
           forgotten[e] + Accounted(e, DOMAIN tracked[e] \ kept[e])]
      BY DEF Forget
<1>2. /\ TypeOK /\ now \in Nat
      /\ \A e \in Exes : credited[e] \in Nat /\ total[e] \in Nat /\ forgotten[e] \in Nat
      BY DEF TimesInv, TypeOK
<1>3. ASSUME NEW e \in Exes
      PROVE  /\ Accounted(e, DOMAIN tracked[e]) =
                  Accounted(e, kept[e]) + Accounted(e, DOMAIN tracked[e] \ kept[e])
             /\ Accounted(e, kept[e]) \in Nat
             /\ Accounted(e, DOMAIN tracked[e] \ kept[e]) \in Nat
             /\ Accounted(e, DOMAIN tracked[e])' = Accounted(e, kept[e])
  <2>1. kept[e] \in SUBSET (DOMAIN tracked[e]) /\ DOMAIN tracked[e] \ kept[e] \in SUBSET (DOMAIN tracked[e])
        OBVIOUS
  <2>2. DOMAIN tracked'[e] = kept[e] /\ \A p \in kept[e] : tracked'[e][p] = tracked[e][p]
        BY <1>1
  <2>3. [p \in DOMAIN tracked'[e] |-> tracked'[e][p].last - tracked'[e][p].start]
          = [p \in kept[e] |-> tracked[e][p].last - tracked[e][p].start]
        BY <2>2
  <2>4. Accounted(e, DOMAIN tracked[e])' = Accounted(e, kept[e])
        BY <2>3, Zenon DEF Accounted
  <2> QED
      BY <2>1, <2>4, AccountedOf, ForgettingBalances
<1>4. ASSUME NEW e \in Exes, Balanced(e) PROVE Balanced(e)'
  <2>1. forgotten'[e] = forgotten[e] + Accounted(e, DOMAIN tracked[e] \ kept[e])
        BY <1>1
  <2>2. credited[e] = total[e] + forgotten[e] + Accounted(e, DOMAIN tracked[e])
        BY <1>4 DEF Balanced
  <2>3. credited'[e] = total'[e] + forgotten'[e] + Accounted(e, DOMAIN tracked[e])'
        BY <1>2, <1>3, <2>1, <2>2
  <2> QED
      BY <2>3 DEF Balanced
<1>5. forgotten' \in [Exes -> Nat]
      BY <1>1, <1>2, <1>3
<1>6. ASSUME NEW e \in Exes, NEW p \in DOMAIN tracked'[e]
      PROVE  /\ p \in Pids /\ tracked'[e][p] \in Entry
             /\ tracked'[e][p].start <= tracked'[e][p].last /\ tracked'[e][p].last <= now'
  <2>1. p \in DOMAIN tracked[e] /\ tracked'[e][p] = tracked[e][p]
        BY <1>1
  <2>2. /\ p \in Pids /\ tracked[e][p] \in Entry
        /\ tracked[e][p].start <= tracked[e][p].last /\ tracked[e][p].last <= now
        BY <1>2, <2>1 DEF TimesInv, TypeOK
  <2> QED
      BY <1>2, <2>1, <2>2 DEF Entry
<1> QED
    BY <1>1, <1>4, <1>5, <1>6

LEMMA TimesStep ==
  TimesInv /\ [Next]_vars => TimesInv' /\ \A e \in Exes : Balanced(e) => Balanced(e)'
<1> SUFFICES ASSUME TimesInv, [Next]_vars
             PROVE  TimesInv' /\ \A e \in Exes : Balanced(e) => Balanced(e)'
    OBVIOUS
<1>1. TypeOK
      BY DEF TimesInv
<1>2. CASE Tick /\ Scan
      BY <1>2, TimesScan
\* The other steps between two scans leave the accounts as they are.
<1>3. ASSUME UNCHANGED <<tracked, credited, total, forgotten>>, now' \in Nat, now <= now', TypeOK'
      PROVE  TimesInv' /\ \A e \in Exes : Balanced(e) => Balanced(e)'
  <2>1. ASSUME NEW e \in Exes PROVE Balanced(e)' = Balanced(e)
        BY <1>3 DEF Balanced, Accounted
  <2>2. ASSUME NEW e \in Exes, NEW p \in DOMAIN tracked'[e]
        PROVE  tracked'[e][p].start <= tracked'[e][p].last /\ tracked'[e][p].last <= now'
    <3>1. /\ p \in DOMAIN tracked[e] /\ tracked'[e][p] = tracked[e][p]
          /\ tracked[e][p] \in Entry /\ now \in Nat
          /\ tracked[e][p].start <= tracked[e][p].last /\ tracked[e][p].last <= now
          BY <1>1, <1>3 DEF TimesInv, TypeOK
    <3> QED
        BY <1>3, <3>1 DEF Entry
  <2> QED
      BY <1>3, <2>1, <2>2 DEF TimesInv
<1>10. CASE Tick /\ NoScan
  <2>1. /\ now' \in Nat /\ now <= now' /\ phase' = "tick2"
        /\ UNCHANGED <<procs, doscan, known, forgotten>>
        BY <1>1, <1>10, LaunchAssumption DEF Tick, TypeOK
  <2>2. hit' = {} /\ UNCHANGED <<queue, tracked, raw, credited, total, seen>>
        BY <1>10 DEF NoScan
  <2>3. preloaded' \in [Names -> Nat \cup {Never}] /\ overlooked' \subseteq Exes
        BY <1>1, <1>10 DEF Tick, Noted, TypeOK
  <2>4. TypeOK'
        BY <1>1, <2>1, <2>2, <2>3 DEF TypeOK
  <2> QED
      BY <1>3, <2>1, <2>2, <2>4
<1>4. CASE Tick2
  <2>1. now' \in Nat /\ now <= now'
        BY <1>1, <1>4, LaunchAssumption DEF Tick2, TypeOK
  <2>2. TypeOK'
        BY <1>1, <1>4, <2>1 DEF Tick2, TypeOK, counters
  <2> QED
      BY <1>3, <1>4, <2>1, <2>2 DEF Tick2, counters
<1>5. CASE Processes
  <2>1. TypeOK'
        BY <1>1, <1>5, SeenTyped, ProcsTyped DEF Processes, TypeOK, memory, counters
  <2> QED
      BY <1>1, <1>3, <1>5, <2>1 DEF Processes, TypeOK, memory, counters
<1>6. CASE Stop
  <2> DEFINE kept == [e \in Exes |-> Remain(e)]
  <2>1. \A e \in Exes : kept[e] \subseteq DOMAIN tracked[e]
        BY DEF Remain
  <2>2. /\ Forget(kept) /\ phase' = "down" /\ queue' = {}
        /\ UNCHANGED <<now, procs, doscan, seen, known, raw, credited, total, hit, preloaded,
                        overlooked>>
        BY <1>6 DEF Stop
  <2>3. now' \in Nat /\ now <= now'
        BY <1>1, <2>2 DEF TypeOK
  <2> HIDE DEF kept
  <2>4. /\ \A e \in Exes : Balanced(e) => Balanced(e)'
        /\ DOMAIN tracked' = Exes /\ forgotten' \in [Exes -> Nat]
        /\ \A e \in Exes : \A p \in DOMAIN tracked'[e] :
             /\ p \in Pids /\ tracked'[e][p] \in Entry
             /\ tracked'[e][p].start <= tracked'[e][p].last /\ tracked'[e][p].last <= now'
        BY <2>1, <2>2, <2>3, TimesForget
  <2>5. TypeOK'
        BY <1>1, <2>2, <2>4 DEF TypeOK
  <2> QED
      BY <2>4, <2>5 DEF TimesInv
<1>7. CASE Restart
  <2> DEFINE kept == [e \in Exes |-> Resumable(e)]
  <2>1. \A e \in Exes : kept[e] \subseteq DOMAIN tracked[e]
        BY DEF Resumable, Remain
  <2>2. /\ Forget(kept) /\ phase' = "tick"
        /\ preloaded' = [n \in Names |-> Never] /\ hit' = {} /\ overlooked' = {}
        /\ doscan' \in BOOLEAN
        /\ UNCHANGED <<procs, seen, known, queue, raw, credited, total>>
        BY <1>7 DEF Restart
  <2>3. now' \in Nat /\ now <= now'
        BY <1>1, <1>7, LaunchAssumption DEF Restart, TypeOK
  <2> HIDE DEF kept
  <2>4. /\ \A e \in Exes : Balanced(e) => Balanced(e)'
        /\ DOMAIN tracked' = Exes /\ forgotten' \in [Exes -> Nat]
        /\ \A e \in Exes : \A p \in DOMAIN tracked'[e] :
             /\ p \in Pids /\ tracked'[e][p] \in Entry
             /\ tracked'[e][p].start <= tracked'[e][p].last /\ tracked'[e][p].last <= now'
        BY <2>1, <2>2, <2>3, TimesForget
  <2>5. TypeOK'
        BY <1>1, <2>2, <2>3, <2>4 DEF TypeOK
  <2> QED
      BY <2>4, <2>5 DEF TimesInv
<1>8. CASE \E e \in Exes : Register(e)
  <2>1. TypeOK'
        BY <1>1, <1>8 DEF Register, TypeOK, counters
  <2> QED
      BY <1>1, <1>3, <1>8, <2>1 DEF Register, TypeOK, counters
<1>9. CASE Switch \/ UNCHANGED vars
  <2>1. TypeOK'
        BY <1>1, <1>9 DEF Switch, vars, TypeOK, memory, counters
  <2> QED
      BY <1>1, <1>3, <1>9, <2>1 DEF Switch, vars, TypeOK, memory, counters
<1>11. CASE Tick
       BY <1>2, <1>10, <1>11 DEF Tick, Scanned
<1> QED
    BY <1>4, <1>5, <1>6, <1>7, <1>8, <1>9, <1>11 DEF Next

\* No second that a process ran is given weight twice or never, however often it was
\* scanned and in which program, and whatever restarts came between (spy.c:363,
\* spy.c:444).
THEOREM SecondsKept == Spec => []SecondsBalance
<1> DEFINE Inv == TimesInv /\ \A e \in Exes : Balanced(e)
<1>1. Init => Inv
      BY TimesInit
<1>2. Inv /\ [Next]_vars => Inv'
  <2> SUFFICES ASSUME Inv, [Next]_vars PROVE Inv'
      OBVIOUS
  <2>1. TimesInv' /\ \A e \in Exes : Balanced(e)'
        BY TimesStep
  <2> QED
      BY <2>1
<1>3. Inv => SecondsBalance
      BY DEF TimesInv, Balanced, SecondsBalance
<1> HIDE DEF Inv
<1> QED
    BY <1>1, <1>2, <1>3, PTL DEF Spec
=============================================================================
