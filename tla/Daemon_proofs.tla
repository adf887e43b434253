--------------------------- MODULE Daemon_proofs ---------------------------
(***************************************************************************)
(* Theorems about the process: no signal is forgotten, however many come   *)
(* and whenever they come (Signals), one daemon runs at a time, however    *)
(* many start (InstanceLock), and saving keeps what it promises, whatever  *)
(* the tables and wherever a save is cut short (StateFile).  That signals  *)
(* are served and that saves go on needs fairness, and is left to TLC.     *)
(***************************************************************************)
EXTENDS Signals, InstanceLock, StateFile, SumLemmas, SequenceTheorems, FiniteSetTheorems, TLAPS

-----------------------------------------------------------------------------
(* Signals.                                                                *)

SigInv == TypeOK /\ NoneForgotten

LEMMA KindsEnumerated ==
  /\ Kinds = {"hup", "usr1", "usr2", "exit"}
  /\ \A i \in 1..4 : Order[i] \in Kinds
  /\ \A i, j \in 1..4 : Order[i] = Order[j] => i = j
<1>1. \A i \in 1..4 : i = 1 \/ i = 2 \/ i = 3 \/ i = 4
      OBVIOUS
<1>2. /\ Order[1] = "hup" /\ Order[2] = "usr1" /\ Order[3] = "usr2" /\ Order[4] = "exit"
      BY DEF Order
<1>3. Kinds = {"hup", "usr1", "usr2", "exit"}
      BY <1>1, <1>2 DEF Kinds
<1> QED BY <1>1, <1>2, <1>3

LEMMA SigInit == Init => SigInv
<1>1. Init => TypeOK
  <2> SUFFICES ASSUME Init PROVE TypeOK
      OBVIOUS
  <2>1. saving = (stage = "save") /\ stage # "save"
        BY DEF Init
  <2>2. \A k \in Kinds : served[k] <= asked[k]
        BY DEF Init
  <2>3. pending \in [Kinds -> BOOLEAN] /\ asked \in [Kinds -> Nat] /\ served \in [Kinds -> Nat]
        BY DEF Init
  <2>4. queued \in Nat /\ stage \in Stages /\ at \in 1..4
        BY SMT DEF Init, Stages
  <2>5. locked \in BOOLEAN /\ quitting \in BOOLEAN /\ ~locked
        BY Zenon DEF Init
  <2> QED BY <2>1, <2>2, <2>3, <2>4, <2>5 DEF TypeOK
<1>2. Init => NoneForgotten
      BY KindsEnumerated DEF Init, NoneForgotten
<1> QED BY <1>1, <1>2 DEF SigInv

\* Going on to the next flag leaves at and stage in their ranges, and ahead
\* every flag that was ahead, but for the one the call was at.
LEMMA GoingOn ==
  ASSUME at \in 1..4, stage \in {"test", "work", "save"}, GoOn
  PROVE  /\ at' \in 1..4 /\ stage' \in {"loop", "test"}
         /\ \A i \in 1..4 : at < i => Ahead(i)'
  BY DEF GoOn, Ahead

LEMMA SigTypeStep == TypeOK /\ [Next]_vars => TypeOK'
<1> SUFFICES ASSUME TypeOK, [Next]_vars PROVE TypeOK'
    OBVIOUS
<1> USE KindsEnumerated DEF TypeOK, Stages
<1>1. ASSUME NEW k \in Kinds, Signal(k) PROVE TypeOK'
      BY <1>1 DEF Signal
<1>2. CASE Lock
      BY <1>2 DEF Lock, flags, place
<1>3. CASE Unlock
      BY <1>3 DEF Unlock, flags, place
<1>4. CASE Dispatch
      BY <1>4 DEF Dispatch
<1>5. CASE LoopEnds
      BY <1>5 DEF LoopEnds, flags
<1>6. CASE Test
  <2>1. at' \in 1..4 /\ stage' \in {"loop", "test", "clear"}
        BY <1>6, GoingOn DEF Test
  <2> QED BY <1>6, <2>1 DEF Test, flags
<1>7. CASE Clear
      BY <1>7 DEF Clear
<1>8. CASE Work
  <2>1. /\ Order[at] \in Kinds
        /\ served' \in [Kinds -> Nat] /\ \A k \in Kinds : served'[k] <= asked'[k]
        BY <1>8 DEF Work
  <2>2. CASE Order[at] \in Savers
        BY <1>8, <2>1, <2>2 DEF Work, flags
  <2>3. CASE Order[at] \notin Savers
    <3>1. at' \in 1..4 /\ stage' \in {"loop", "test"}
          BY <1>8, <2>3, GoingOn DEF Work
    <3> QED BY <1>8, <2>1, <2>3, <3>1 DEF Work, flags
  <2> QED BY <2>2, <2>3
<1>9. CASE Saved
  <2>1. at' \in 1..4 /\ stage' \in {"loop", "test"}
        BY <1>9, GoingOn DEF Saved
  <2>2. queued' \in Nat /\ ~saving'
        BY <1>9 DEF Saved
  <2>3. saving' = (stage' = "save")
        BY <1>9, <2>1 DEF Saved
  <2> QED BY <1>9, <2>1, <2>2, <2>3 DEF Saved
<1>10. CASE UNCHANGED vars
       BY <1>10 DEF vars
<1> QED BY <1>1, <1>2, <1>3, <1>4, <1>5, <1>6, <1>7, <1>8, <1>9, <1>10 DEF Next, Handle

LEMMA SigStep == TypeOK /\ NoneForgotten /\ [Next]_vars => NoneForgotten'
<1> SUFFICES ASSUME TypeOK, NoneForgotten, [Next]_vars,
                    stage' \notin {"stuck", "ended"},
                    NEW i \in 1..4, pending'[Order[i]]
             PROVE  queued' > 0 \/ Ahead(i)'
    BY DEF NoneForgotten
<1> USE DEF TypeOK
<1>0. Order[i] \in Kinds
      BY KindsEnumerated
\* Where the step leaves the flag of kind i as it was, this is known of it.
<1>old. stage \notin {"stuck", "ended"} /\ pending[Order[i]] => queued > 0 \/ Ahead(i)
        BY DEF NoneForgotten
<1>1. ASSUME NEW k \in Kinds, Signal(k) PROVE queued' > 0
      BY <1>1 DEF Signal
<1>2. CASE Lock \/ Unlock
      BY <1>2, <1>old DEF Lock, Unlock, flags, place, Ahead
<1>3. CASE Dispatch
      \* The call begins at the first flag, so that every one is ahead of it.
      BY <1>3 DEF Dispatch, Ahead
<1>4. CASE LoopEnds
      BY <1>4 DEF LoopEnds
<1>5. CASE Test
  <2>1. CASE pending[Order[at]]
        \* No save is under way, so the flag is not passed over.
        BY <1>5, <2>1, <1>old DEF Test, flags, Ahead
  <2>2. CASE ~pending[Order[at]]
    <3>1. i # at /\ GoOn /\ queued' = queued /\ pending' = pending
          BY <1>5, <2>2 DEF Test, flags
    <3>2. queued > 0 \/ at < i
          BY <1>5, <3>1, <1>old DEF Test, Ahead
    <3> QED BY <1>5, <3>1, <3>2, GoingOn DEF Test
  <2> QED BY <2>1, <2>2
<1>6. CASE Clear
  <2>1. i # at
        BY <1>6, <1>0 DEF Clear
  <2>2. Order[i] # Order[at] /\ pending[Order[i]]
        BY <1>6, <1>0, <2>1, KindsEnumerated DEF Clear
  <2> QED BY <1>6, <2>1, <2>2, <1>old DEF Clear, Ahead
<1>7. CASE Work
  <2>1. queued' = queued /\ pending' = pending /\ (queued > 0 \/ at < i)
        BY <1>7, <1>old DEF Work, flags, Ahead
  <2> QED BY <1>7, <2>1, GoingOn DEF Work, Ahead
<1>8. CASE Saved
  <2>1. queued' >= queued /\ pending' = pending /\ (queued > 0 \/ at < i) /\ GoOn
        BY <1>8, <1>old DEF Saved, Ahead
  <2> QED BY <1>8, <2>1, GoingOn DEF Saved
<1>9. CASE UNCHANGED vars
      BY <1>9, <1>old DEF vars, Ahead
<1> QED BY <1>1, <1>2, <1>3, <1>4, <1>5, <1>6, <1>7, <1>8, <1>9 DEF Next, Handle

\* The state of the signals is always of the type given.
THEOREM SignalsTyped == Spec => []TypeOK
<1>1. Init => TypeOK
      BY SigInit DEF SigInv
<1> QED BY <1>1, SigTypeStep, PTL DEF Spec

\* A flag set by sig_handler is never left unserved for want of a call of
\* sig_handler_sync, whatever the order of signals and steps.
THEOREM NoSignalForgotten == Spec => []NoneForgotten
<1>1. Init => NoneForgotten
      BY SigInit DEF SigInv
<1> QED BY <1>1, SigStep, SignalsTyped, PTL DEF Spec

-----------------------------------------------------------------------------
(* The lock of the PID file.                                               *)

LEMMA LockExactInit == LockInit => LockExact
<1> SUFFICES ASSUME LockInit PROVE LockExact
    OBVIOUS
<1>1. made \in 0..Files /\ name \in 0..made
      BY LockAssumption DEF LockInit, None
<1>2. /\ pid \in [1..Files -> Procs \cup {Launcher, Nobody}]
      /\ holder \in [1..Files -> Procs \cup {Children, Nobody}]
      /\ fd \in [Procs -> 0..made]
      /\ pc \in [Procs -> Alive \cup {"out", "opened", "released"}]
      /\ stopped \in BOOLEAN
  <2>1. 0 \in 0..made
        BY DEF LockInit
  <2>2. stopped \in BOOLEAN
        BY Zenon DEF LockInit
  <2> QED
      BY <2>1, <2>2 DEF LockInit, None
<1>3. \A p \in Procs : fd[p] = 0 /\ pc[p] = "out" /\ p \notin Daemons
      BY DEF LockInit, None, Daemons, Alive
<1>4. \A f \in 1..Files, p \in Procs : holder[f] # p
      BY LockAssumption DEF LockInit
<1> QED
    BY <1>1, <1>2, <1>3, <1>4 DEF LockExact, LockTypeOK, Alive, None

LEMMA OpeningFacts ==
  ASSUME LockTypeOK, NEW f \in 1..Files, Opening(f)
  PROVE  /\ made' \in 0..Files /\ made <= made' /\ name' = f /\ f \in 1..made'
         /\ name # None => made' = made /\ f = name
         /\ name = None => made' = made + 1
  BY LockAssumption DEF Opening, LockTypeOK, None

LEMMA LockTypeStep == LockExact /\ [LockNext]_lockVars => LockTypeOK'
<1> SUFFICES ASSUME LockExact, [LockNext]_lockVars PROVE LockTypeOK'
    OBVIOUS
<1> USE LockAssumption DEF Alive, None
<1>1. LockTypeOK
      BY DEF LockExact
<1>2. ASSUME NEW p \in Procs, Open(p) PROVE LockTypeOK'
  <2>1. PICK f \in 1..Files : Opening(f) /\ fd' = [fd EXCEPT ![p] = f]
        BY <1>2 DEF Open
  <2>2. /\ made' \in 0..Files /\ made <= made' /\ name' = f /\ f \in 1..made'
        BY <1>1, <2>1, OpeningFacts
  <2> QED
      BY <1>1, <1>2, <2>1, <2>2 DEF Open, LockTypeOK
<1>3. ASSUME NEW p \in Procs, Flock(p) PROVE LockTypeOK'
  <2>0. /\ pc[p] = "opened" /\ UNCHANGED <<name, made, pid, stopped>>
        /\ fd[p] \in 1..made /\ fd[p] \in 1..Files
        BY <1>1, <1>3 DEF Flock, LockTypeOK
  <2>1. CASE holder[fd[p]] = Nobody
    <3>1. /\ holder' = [holder EXCEPT ![fd[p]] = p] /\ pc' = [pc EXCEPT ![p] = "locked"]
          /\ fd' = fd
          BY <1>3, <2>1 DEF Flock
    <3>2. holder' \in [1..Files -> Procs \cup {Children, Nobody}]
          BY <1>1, <3>1 DEF LockTypeOK
    <3>3. pc' \in [Procs -> Alive \cup {"out", "opened", "released"}]
          BY <1>1, <3>1 DEF LockTypeOK
    <3>4. \A q \in Procs : pc'[q] \in Alive \cup {"opened"} <=> fd'[q] # None
          BY <1>1, <2>0, <3>1 DEF LockTypeOK
    <3> QED
        BY <1>1, <2>0, <3>1, <3>2, <3>3, <3>4 DEF LockTypeOK
  <2>2. CASE holder[fd[p]] # Nobody
    <3>1. /\ holder' = holder /\ pc' = [pc EXCEPT ![p] = "out"]
          /\ fd' = [fd EXCEPT ![p] = None]
          BY <1>3, <2>2 DEF Flock
    <3>2. pc' \in [Procs -> Alive \cup {"out", "opened", "released"}]
          BY <1>1, <3>1 DEF LockTypeOK
    <3>3. fd' \in [Procs -> 0..made']
          BY <1>1, <2>0, <3>1 DEF LockTypeOK
    <3>4. \A q \in Procs : pc'[q] \in Alive \cup {"opened"} <=> fd'[q] # None
          BY <1>1, <2>0, <3>1 DEF LockTypeOK
    <3> QED
        BY <1>1, <2>0, <3>1, <3>2, <3>3, <3>4 DEF LockTypeOK
  <2> QED
      BY <2>1, <2>2
<1>4. ASSUME NEW p \in Procs, WritePid(p) PROVE LockTypeOK'
      BY <1>1, <1>4 DEF WritePid, LockTypeOK
<1>5. ASSUME NEW p \in Procs, Run(p) PROVE LockTypeOK'
  <2>1. PICK f \in 1..Files : Opening(f) /\ pid' = [pid EXCEPT ![f] = p]
        BY <1>5 DEF Run
  <2>2. /\ made' \in 0..Files /\ made <= made' /\ name' = f /\ f \in 1..made'
        BY <1>1, <2>1, OpeningFacts
  <2> QED
      BY <1>1, <1>5, <2>1, <2>2 DEF Run, LockTypeOK
<1>6. ASSUME NEW p \in Procs, Quit(p) PROVE LockTypeOK'
      BY <1>1, <1>6 DEF Quit, LockTypeOK
<1>7. ASSUME NEW p \in Procs, Release(p) PROVE LockTypeOK'
      BY <1>1, <1>7 DEF Release, Released, LockTypeOK
<1>8. ASSUME NEW p \in Procs, Unlink(p) PROVE LockTypeOK'
      BY <1>1, <1>8 DEF Unlink, LockTypeOK
<1>9. ASSUME NEW p \in Procs, Kill(p) PROVE LockTypeOK'
  <2>1. holder' \in [1..Files -> Procs \cup {Children, Nobody}]
        BY <1>1, <1>9 DEF Kill, LockTypeOK
  <2> QED
      BY <1>1, <1>9, <2>1 DEF Kill, LockTypeOK
<1>10. CASE ChildrenEnd
      BY <1>1, <1>10 DEF ChildrenEnd, LockTypeOK
<1>11. CASE UNCHANGED lockVars
      BY <1>1, <1>11 DEF lockVars, LockTypeOK
<1> QED
    BY <1>2, <1>3, <1>4, <1>5, <1>6, <1>7, <1>8, <1>9, <1>10, <1>11 DEF LockNext

LEMMA LockExactStep == LockExact /\ [LockNext]_lockVars => LockExact'
<1> SUFFICES ASSUME LockExact, [LockNext]_lockVars PROVE LockExact'
    OBVIOUS
<1> USE DEF Alive, None, Daemons
<1>1. /\ LockTypeOK /\ LockTypeOK'
      /\ \A f \in 1..Files, q \in Procs : holder[f] = q <=> q \in Daemons /\ fd[q] = f
      BY LockTypeStep DEF LockExact
<1>2. Nobody \notin Procs /\ Children \notin Procs
      BY LockAssumption
<1> SUFFICES ASSUME NEW f \in 1..Files, NEW q \in Procs
             PROVE  holder'[f] = q <=> q \in Daemons' /\ fd'[q] = f
    BY <1>1 DEF LockExact
<1>3. holder[f] = q <=> q \in Daemons /\ fd[q] = f
      BY <1>1
<1>4. ASSUME NEW p \in Procs, Open(p) \/ WritePid(p) \/ Run(p) \/ Quit(p) \/ Unlink(p)
      PROVE  holder'[f] = q <=> q \in Daemons' /\ fd'[q] = f
      BY <1>1, <1>3, <1>4 DEF Open, WritePid, Run, Quit, Unlink, LockTypeOK
<1>5. ASSUME NEW p \in Procs, Flock(p)
      PROVE  holder'[f] = q <=> q \in Daemons' /\ fd'[q] = f
      BY <1>1, <1>2, <1>3, <1>5 DEF Flock, LockTypeOK
<1>6. ASSUME NEW p \in Procs, Release(p) \/ Kill(p)
      PROVE  holder'[f] = q <=> q \in Daemons' /\ fd'[q] = f
  <2>1. /\ holder'[f] = holder[f] \/ (holder[f] = p /\ holder'[f] \in {Nobody, Children})
        /\ holder[f] = p => holder'[f] \in {Nobody, Children}
        /\ p \notin Daemons' /\ (q # p => (q \in Daemons' <=> q \in Daemons) /\ fd'[q] = fd[q])
        BY <1>1, <1>6 DEF Release, Kill, Released, LockTypeOK
  <2> QED
      BY <1>2, <1>3, <2>1
<1>7. CASE ChildrenEnd
      BY <1>1, <1>2, <1>3, <1>7 DEF ChildrenEnd, LockTypeOK
<1>8. CASE UNCHANGED lockVars
      BY <1>3, <1>8 DEF lockVars
<1> QED
    BY <1>4, <1>5, <1>6, <1>7, <1>8 DEF LockNext

\* The lock of a file is held by the daemon that has it open, and given up by it however
\* it ends: flock and close (main.c:245, main.c:285).
THEOREM LocksExact == LockSpec => []LockExact
  BY LockExactInit, LockExactStep, PTL DEF LockSpec

\* Until a daemon is stopped in order nobody unlinks the name, and all open the same
\* file.  The one that runs has written its PID there.
OneFile ==
  ~stopped =>
    /\ made <= 1 /\ name = made
    /\ \A p \in Procs : pc[p] \notin {"saving", "released"}
    /\ \A p \in Procs : pc[p] = "running" => pid[1] = p

\* Who has the only file open and locked is the only daemon.
LEMMA SameDaemon ==
  ASSUME LockExact, OneFile, ~stopped, NEW p \in Daemons, NEW q \in Daemons
  PROVE  p = q /\ fd[p] = 1 /\ name = 1 /\ made = 1
<1>1. /\ made \in 0..Files /\ made <= 1 /\ name = made
      /\ fd \in [Procs -> 0..made]
      /\ \A r \in Procs : pc[r] \in Alive \cup {"opened"} <=> fd[r] # None
      BY DEF LockExact, LockTypeOK, OneFile
<1>2. p \in Procs /\ q \in Procs /\ fd[p] # None /\ fd[q] # None
      BY <1>1 DEF Daemons
<1>3. fd[p] = 1 /\ fd[q] = 1 /\ made = 1 /\ 1 \in 1..Files
      BY <1>1, <1>2, LockAssumption DEF None
<1> QED
    BY <1>1, <1>2, <1>3 DEF LockExact

LEMMA OneFileInit == LockInit => OneFile
  BY DEF LockInit, OneFile, None

LEMMA OneFileStep == LockExact /\ OneFile /\ [LockNext]_lockVars => OneFile'
<1> SUFFICES ASSUME LockExact, OneFile, [LockNext]_lockVars, ~stopped' PROVE OneFile'
    BY DEF OneFile
<1>1. /\ LockTypeOK /\ LockExact'
      BY LockExactStep DEF LockExact
<1>2. ~stopped
      BY DEF LockNext, Open, Flock, WritePid, Run, Quit, Release, Unlink, Kill, ChildrenEnd, lockVars
<1>3. /\ made \in Nat /\ made <= 1 /\ name = made
      /\ \A p \in Procs : pc[p] \notin {"saving", "released"}
      /\ \A p \in Procs : pc[p] = "running" => pid[1] = p
      BY <1>1, <1>2 DEF OneFile, LockTypeOK
<1>4. pc \in [Procs -> Alive \cup {"out", "opened", "released"}]
      BY <1>1 DEF LockTypeOK
<1>5. ASSUME NEW f \in 1..Files, Opening(f) PROVE made' = 1 /\ name' = 1 /\ f = 1
      BY <1>1, <1>3, <1>5, OpeningFacts DEF None
<1>6. ASSUME NEW p \in Procs, Open(p) PROVE OneFile'
  <2>1. made' = 1 /\ name' = 1
        BY <1>5, <1>6 DEF Open
  <2> QED
      BY <1>3, <1>4, <1>6, <2>1 DEF Open, OneFile
<1>7. ASSUME NEW p \in Procs, Flock(p) \/ Kill(p) PROVE OneFile'
      BY <1>3, <1>4, <1>7 DEF Flock, Kill, OneFile
<1>8. ASSUME NEW p \in Procs, WritePid(p) PROVE OneFile'
  <2>1. p \in Daemons /\ \A q \in Procs : pc[q] = "running" => q \in Daemons
        BY <1>8 DEF WritePid, Daemons, Alive
  <2>2. ASSUME NEW q \in Procs, pc[q] = "running" PROVE FALSE
    <3>1. p = q
          BY <1>2, <2>1, <2>2, SameDaemon
    <3> QED
        BY <1>8, <2>2, <3>1 DEF WritePid
  <2> QED
      BY <1>3, <1>4, <1>8, <2>2 DEF WritePid, OneFile
<1>9. ASSUME NEW p \in Procs, Run(p) PROVE OneFile'
  <2>1. PICK f \in 1..Files : Opening(f) /\ pid' = [pid EXCEPT ![f] = p]
        BY <1>9 DEF Run
  <2>2. made' = 1 /\ name' = 1 /\ f = 1
        BY <1>5, <2>1
  <2>3. pid'[1] = p
        BY <1>1, <2>1, <2>2 DEF LockTypeOK
  <2>4. p \in Daemons /\ \A q \in Procs : pc[q] = "running" => q \in Daemons
        BY <1>9 DEF Run, Daemons, Alive
  <2>5. \A q \in Procs : pc'[q] = "running" => q = p
        BY <1>2, <1>4, <1>9, <2>4, SameDaemon DEF Run
  <2> QED
      BY <1>3, <1>4, <1>9, <2>2, <2>3, <2>5 DEF Run, OneFile
<1>10. ASSUME NEW p \in Procs, Quit(p) \/ Release(p) \/ Unlink(p) PROVE OneFile'
      BY <1>3, <1>10 DEF Quit, Release, Unlink
<1>11. CASE ChildrenEnd
      BY <1>3, <1>11 DEF ChildrenEnd, OneFile
<1>12. CASE UNCHANGED lockVars
      BY <1>3, <1>12 DEF lockVars, OneFile
<1> QED
    BY <1>6, <1>7, <1>8, <1>9, <1>10, <1>11, <1>12 DEF LockNext

LEMMA OneFileAlways == LockSpec => [](LockExact /\ OneFile)
<1>1. LockExact /\ OneFile /\ [LockNext]_lockVars => (LockExact /\ OneFile)'
      BY LockExactStep, OneFileStep
<1> QED
    BY <1>1, LockExactInit, OneFileInit, PTL DEF LockSpec

\* However many processes try to start and are killed, and wherever, one of them is
\* the daemon (main.c:427).
THEOREM AtMostOneDaemon == LockSpec => []OneDaemon
<1>1. ASSUME LockExact, OneFile, ~stopped PROVE Cardinality(Daemons) <= 1
  <2>1. \A p, q \in Daemons : p = q
        BY <1>1, SameDaemon
  <2>2. CASE Daemons = {}
        BY <2>2, FS_EmptySet
  <2>3. ASSUME NEW p \in Daemons PROVE Cardinality(Daemons) <= 1
    <3>1. Daemons = {p}
          BY <2>1
    <3> QED
        BY <3>1, FS_Singleton
  <2> QED
      BY <2>2, <2>3
<1>2. LockExact /\ OneFile => OneDaemon
      BY <1>1 DEF OneDaemon
<1> QED
    BY <1>2, OneFileAlways, PTL

\* The PID file names the daemon that runs, although what is written there first is
\* the PID of a process that ends (daemon.c:108).
THEOREM PidFileNames == LockSpec => []NamedDaemon
<1>1. ASSUME LockExact, OneFile, ~stopped, NEW p \in Procs, pc[p] = "running"
      PROVE  name # None /\ pid[name] = p
  <2>1. p \in Daemons
        BY <1>1 DEF Daemons, Alive
  <2>2. name = 1
        BY <1>1, <2>1, SameDaemon
  <2> QED
      BY <1>1, <2>2 DEF OneFile, None
<1>2. LockExact /\ OneFile => NamedDaemon
      BY <1>1 DEF NamedDaemon
<1> QED
    BY <1>2, OneFileAlways, PTL

-----------------------------------------------------------------------------
(* The lines of the state file.                                            *)

LEMMA SetInSequence ==
  ASSUME NEW S, IsFiniteSet(S)
  PROVE  /\ SetToSeq(S) \in Seq(S)
         /\ {SetToSeq(S)[i] : i \in 1..Len(SetToSeq(S))} = S
         /\ \A i, j \in 1..Len(SetToSeq(S)) : SetToSeq(S)[i] = SetToSeq(S)[j] => i = j
<1> DEFINE D == 1..Cardinality(S)
           q == SetToSeq(S)
<1>1. Cardinality(S) \in Nat /\ ExistsBijection(D, S)
      BY FS_CardinalityType
<1>2. q \in [D -> S] /\ IsInjective(q)
  <2>1. \E f \in [D -> S] : IsInjective(f)
        BY <1>1 DEF ExistsBijection, Bijection, Injection
  <2> HIDE DEF D
  <2> QED
      BY <2>1, Zenon DEF SetToSeq, D
<1>3. q \in Injection(D, S)
      BY <1>2 DEF Injection, IsInjective
<1>4. q \in Surjection(D, S)
  <2>1. IsFiniteSet(D) /\ Cardinality(D) = Cardinality(S)
        BY <1>1, FS_Interval
  <2> HIDE DEF D, q
  <2> QED
      BY <1>3, <2>1, FS_Injection
<1> HIDE DEF q
<1>5. q \in Seq(S) /\ Len(q) = Cardinality(S) /\ DOMAIN q = D
      BY <1>1, <1>2
<1>6. {q[i] : i \in 1..Len(q)} = S
      BY <1>4, <1>5 DEF Surjection
<1>7. \A i, j \in 1..Len(q) : q[i] = q[j] => i = j
      BY <1>2, <1>5 DEF IsInjective
<1> QED
    BY <1>5, <1>6, <1>7 DEF q

\* The lines of one kind, each about something else.
IsSection(u, tag, S) ==
  /\ \A i \in 1..Len(u) : u[i].tag = tag
  /\ {u[i].of : i \in 1..Len(u)} = S
  /\ \A i, j \in 1..Len(u) : u[i].of = u[j].of => i = j

LEMMA SectionOfSet ==
  ASSUME NEW S, IsFiniteSet(S), NEW tag
  PROVE  /\ Section(tag, S) \in Seq([tag : {tag}, of : S])
         /\ IsSection(Section(tag, S), tag, S)
<1> DEFINE q == SetToSeq(S)
           u == Section(tag, S)
<1>1. /\ q \in Seq(S) /\ {q[i] : i \in 1..Len(q)} = S
      /\ \A i, j \in 1..Len(q) : q[i] = q[j] => i = j
      BY SetInSequence
<1> HIDE DEF q
<1>2. Len(q) \in Nat /\ DOMAIN q = 1..Len(q) /\ \A i \in 1..Len(q) : q[i] \in S
      BY <1>1
<1>3. u = [i \in 1..Len(q) |-> [tag |-> tag, of |-> q[i]]]
      BY <1>2 DEF Section, Line, q
<1> HIDE DEF u
<1>4. u \in Seq([tag : {tag}, of : S]) /\ Len(u) = Len(q)
      BY <1>2, <1>3
<1>5. IsSection(u, tag, S)
      BY <1>1, <1>3, <1>4 DEF IsSection
<1> QED
    BY <1>4, <1>5 DEF u

LEMMA BareSection ==
  ASSUME NEW tag
  PROVE  IsSection(<<Bare(tag)>>, tag, {<<>>})
  BY DEF IsSection, Bare, Line

\* What all lines say of one kind.
All(s, tag) == Told(s, Len(s), tag)

Good(s) == \A i \in 1..Len(s) : ~Wrong(s, i)

LEMMA ToldOfPart ==
  ASSUME NEW L, NEW s \in Seq(L), NEW u \in Seq(L), NEW n \in 0..Len(s), NEW t
  PROVE  Told(s \o u, n, t) = Told(s, n, t)
<1>1. \A i \in 1..n : (s \o u)[i] = s[i]
      OBVIOUS
<1> QED
    BY <1>1 DEF Told

LEMMA ToldOfBoth ==
  ASSUME NEW L, NEW s \in Seq(L), NEW u \in Seq(L), NEW n \in 0..Len(u), NEW t
  PROVE  Told(s \o u, Len(s) + n, t) = All(s, t) \cup Told(u, n, t)
<1> DEFINE both == s \o u
<1>1. Len(s) \in Nat /\ n \in Nat
      OBVIOUS
<1>2. \A i \in 1..Len(s) : both[i] = s[i]
      OBVIOUS
<1>3. \A i \in 1..n : both[Len(s) + i] = u[i] /\ Len(s) + i \in 1..(Len(s) + n)
      OBVIOUS
<1>4. \A i \in 1..(Len(s) + n) : i \in 1..Len(s) \/ (i - Len(s) \in 1..n /\ both[i] = u[i - Len(s)])
      OBVIOUS
<1> HIDE DEF both
<1>5. Told(both, Len(s) + n, t) \subseteq All(s, t) \cup Told(u, n, t)
      BY <1>1, <1>2, <1>4 DEF Told, All
<1>6. All(s, t) \subseteq Told(both, Len(s) + n, t)
      BY <1>1, <1>2 DEF Told, All
<1>7. Told(u, n, t) \subseteq Told(both, Len(s) + n, t)
      BY <1>3 DEF Told
<1> QED
    BY <1>5, <1>6, <1>7 DEF both

LEMMA AllOfBoth ==
  ASSUME NEW L, NEW s \in Seq(L), NEW u \in Seq(L), NEW t
  PROVE  All(s \o u, t) = All(s, t) \cup All(u, t)
<1>1. Len(s \o u) = Len(s) + Len(u) /\ Len(u) \in 0..Len(u)
      OBVIOUS
<1> QED
    BY <1>1, ToldOfBoth DEF All

LEMMA AllOfSection ==
  ASSUME NEW u, NEW tag, NEW S, IsSection(u, tag, S), NEW t
  PROVE  All(u, t) = IF t = tag THEN S ELSE {}
  BY DEF IsSection, All, Told

\* Lines of a kind and about things that can come after the lines s.
Fits(s, tag, S) ==
  /\ tag # "PRELOAD"
  /\ tag \in {"MAP", "EXE"} => All(s, tag) = {}
  /\ tag = "EXEMAP" => \A x \in S : x[1] \in All(s, "EXE") /\ x[2] \in All(s, "MAP")
  /\ tag = "MARKOV" => \A x \in S : x[1] \in All(s, "EXE") /\ x[2] \in All(s, "EXE")

\* Lines that say something new, and refer only to what was said, can be added.
LEMMA AddSection ==
  ASSUME NEW s \in Seq(Lines), Good(s), NEW tag, NEW S,
         NEW u \in Seq(Lines), IsSection(u, tag, S), Fits(s, tag, S)
  PROVE  /\ s \o u \in Seq(Lines) /\ Good(s \o u)
         /\ \A t : All(s \o u, t) = IF t = tag THEN All(s, t) \cup S ELSE All(s, t)
<1> DEFINE both == s \o u
<1>1. /\ both \in Seq(Lines) /\ Len(both) = Len(s) + Len(u) /\ Len(s) \in Nat /\ Len(u) \in Nat
      OBVIOUS
<1>2. \A t : All(both, t) = IF t = tag THEN All(s, t) \cup S ELSE All(s, t)
  <2> TAKE t
  <2>1. All(both, t) = All(s, t) \cup All(u, t)
        BY AllOfBoth
  <2>2. All(u, t) = IF t = tag THEN S ELSE {}
        BY AllOfSection
  <2> QED
      BY <2>1, <2>2
<1>3. ASSUME NEW i \in 1..Len(s) PROVE ~Wrong(both, i)
  <2>1. i - 1 \in 0..Len(s) /\ both[i] = s[i]
        BY <1>1
  <2>2. \A t : Told(both, i - 1, t) = Told(s, i - 1, t)
        BY <2>1, ToldOfPart
  <2>3. ~Wrong(s, i)
        BY DEF Good
  <2> QED
      BY <2>1, <2>2, <2>3 DEF Wrong
<1>4. ASSUME NEW k \in 1..Len(u) PROVE ~Wrong(both, Len(s) + k)
  <2>1. both[Len(s) + k] = u[k] /\ k - 1 \in 0..Len(u)
        BY <1>1
  <2>2. (Len(s) + k) - 1 = Len(s) + (k - 1)
        BY <1>1
  <2>3. \A t : Told(both, Len(s) + (k - 1), t) = All(s, t) \cup Told(u, k - 1, t)
        BY <2>1, ToldOfBoth
  <2> HIDE DEF both
  <2>4. \A t : Told(both, (Len(s) + k) - 1, t) = All(s, t) \cup Told(u, k - 1, t)
        BY <2>2, <2>3, Zenon
  <2>5. u[k].tag = tag /\ u[k].of \in S
        BY DEF IsSection
  <2>6. u[k].of \notin Told(u, k - 1, tag)
    <3> SUFFICES ASSUME NEW j \in 1..(k - 1), u[j].of = u[k].of PROVE FALSE
        BY DEF Told
    <3> QED
        BY <1>1 DEF IsSection
  <2> QED
      BY <2>1, <2>4, <2>5, <2>6 DEF Wrong, Fits
<1>5. Good(both)
  <2> SUFFICES ASSUME NEW i \in 1..Len(both) PROVE ~Wrong(both, i)
      BY DEF Good
  <2>1. i \in 1..Len(s) \/ (i - Len(s) \in 1..Len(u) /\ i = Len(s) + (i - Len(s)))
        BY <1>1
  <2> QED
      BY <1>3, <1>4, <2>1
<1> QED
    BY <1>1, <1>2, <1>5

LEMMA LongerSeq ==
  ASSUME NEW S, NEW T, S \subseteq T, NEW u \in Seq(S)
  PROVE  u \in Seq(T)
  OBVIOUS

LEMMA TablesFinite ==
  ASSUME NEW t \in Tables
  PROVE  /\ IsFiniteSet(t.exes) /\ IsFiniteSet(t.maps) /\ IsFiniteSet(t.exemaps)
         /\ IsFiniteSet(t.chains) /\ IsFiniteSet(t.preloaded)
<1>1. IsFiniteSet(Exes) /\ IsFiniteSet(Maps)
      BY FormatAssumption
<1>2. IsFiniteSet(Exes \X Maps) /\ IsFiniteSet(Exes \X Exes)
      BY <1>1, FS_Product
<1>3. /\ t.exes \in SUBSET Exes /\ t.maps \in SUBSET Maps /\ t.exemaps \in SUBSET (Exes \X Maps)
      /\ t.chains \in SUBSET (Exes \X Exes) /\ t.preloaded \in SUBSET Exes
      BY DEF Tables
<1> QED
    BY <1>1, <1>2, <1>3, FS_Subset

\* The lines written for tables.
LEMMA Sections ==
  ASSUME NEW t \in Tables
  PROVE  /\ Section("MAP", t.maps) \in Seq(Lines) /\ Section("EXE", t.exes) \in Seq(Lines)
         /\ Section("EXEMAP", t.exemaps) \in Seq(Lines)
         /\ Section("MARKOV", t.chains) \in Seq(Lines)
         /\ Section("PRELOAD", t.preloaded) \in Seq(Lines)
         /\ <<Bare("PRELOAD")>> \in Seq(Lines) /\ <<Bare("CRC32")>> \in Seq(Lines)
         /\ <<Bare("PRELOAD_TIMES")>> \in Seq(Lines)
<1>1. /\ [tag : {"MAP"}, of : t.maps] \subseteq Lines
      /\ [tag : {"EXE"}, of : t.exes] \subseteq Lines
      /\ [tag : {"EXEMAP"}, of : t.exemaps] \subseteq Lines
      /\ [tag : {"MARKOV"}, of : t.chains] \subseteq Lines
      /\ [tag : {"PRELOAD"}, of : t.preloaded] \subseteq Lines
      BY DEF Lines, Tables
<1>2. /\ Section("MAP", t.maps) \in Seq([tag : {"MAP"}, of : t.maps])
      /\ Section("EXE", t.exes) \in Seq([tag : {"EXE"}, of : t.exes])
      /\ Section("EXEMAP", t.exemaps) \in Seq([tag : {"EXEMAP"}, of : t.exemaps])
      /\ Section("MARKOV", t.chains) \in Seq([tag : {"MARKOV"}, of : t.chains])
      /\ Section("PRELOAD", t.preloaded) \in Seq([tag : {"PRELOAD"}, of : t.preloaded])
      BY TablesFinite, SectionOfSet
<1>3. {Bare("PRELOAD"), Bare("CRC32"), Bare("PRELOAD_TIMES")} \subseteq Lines
      BY DEF Lines
<1>4. \A S \in SUBSET Lines : Seq(S) \subseteq Seq(Lines)
      BY LongerSeq
<1>5. /\ Section("MAP", t.maps) \in Seq(Lines) /\ Section("EXE", t.exes) \in Seq(Lines)
      /\ Section("EXEMAP", t.exemaps) \in Seq(Lines)
      /\ Section("MARKOV", t.chains) \in Seq(Lines)
      /\ Section("PRELOAD", t.preloaded) \in Seq(Lines)
      BY <1>1, <1>2, <1>4, Zenon
<1>6. \A line \in Lines : <<line>> \in Seq(Lines)
      OBVIOUS
<1> QED
    BY <1>3, <1>5, <1>6

LEMMA WriteTyped ==
  ASSUME NEW t \in Tables
  PROVE  Write(t) \in Seq(Lines)
<1>1. Times(t.preloaded) \in Seq(Lines)
      BY Sections DEF Times
<1> QED
    BY <1>1, Sections DEF Write

\* What is written without errors is read without errors, as it was written.
LEMMA WriteReads ==
  ASSUME NEW t \in Tables, WellFormed(t), t.preloaded = {}
  PROVE  /\ Good(Write(t)) /\ Write(t) # <<>> /\ Write(t)[1].tag = "PRELOAD"
         /\ All(Write(t), "EXE") = t.exes /\ All(Write(t), "EXEMAP") = t.exemaps
         /\ All(Write(t), "MARKOV") = t.chains
<1> DEFINE head == <<Bare("PRELOAD")>>
           m == Section("MAP", t.maps)
           e == Section("EXE", t.exes)
           x == Section("EXEMAP", t.exemaps)
           c == Section("MARKOV", t.chains)
           tail == <<Bare("CRC32")>>
<1>1. /\ head \in Seq(Lines) /\ m \in Seq(Lines) /\ e \in Seq(Lines) /\ x \in Seq(Lines)
      /\ c \in Seq(Lines) /\ tail \in Seq(Lines)
      BY Sections
<1>2. /\ IsSection(m, "MAP", t.maps) /\ IsSection(e, "EXE", t.exes)
      /\ IsSection(x, "EXEMAP", t.exemaps) /\ IsSection(c, "MARKOV", t.chains)
      /\ IsSection(head, "PRELOAD", {<<>>}) /\ IsSection(tail, "CRC32", {<<>>})
      BY TablesFinite, SectionOfSet, BareSection
<1>3. Good(head) /\ \A tag : tag # "PRELOAD" => All(head, tag) = {}
  <2>1. \A tag : All(head, tag) = IF tag = "PRELOAD" THEN {<<>>} ELSE {}
        BY <1>2, AllOfSection
  <2>2. head[1].tag = "PRELOAD" /\ Len(head) = 1
        BY DEF Bare, Line
  <2>3. ~Wrong(head, 1)
    <3> HIDE DEF head
    <3> QED
        BY <2>2 DEF Wrong
  <2> QED
      BY <2>1, <2>2, <2>3 DEF Good
<1>4. /\ \A y \in t.exemaps : y[1] \in t.exes /\ y[2] \in t.maps
      /\ \A y \in t.chains : y[1] \in t.exes /\ y[2] \in t.exes
      BY DEF WellFormed
<1>5. Write(t) = ((((head \o m) \o e) \o x) \o c) \o tail
  <2>1. Times(t.preloaded) = <<>>
        BY DEF Times
  <2>2. ((((head \o m) \o e) \o x) \o c) \o <<>> = (((head \o m) \o e) \o x) \o c
        BY <1>1
  <2> QED
      BY <2>1, <2>2 DEF Write
<1>6. head[1].tag = "PRELOAD" /\ Len(head) = 1
      BY DEF Bare, Line
<1> HIDE DEF head, m, e, x, c, tail
<1> DEFINE s1 == head \o m
           s2 == s1 \o e
           s3 == s2 \o x
           s4 == s3 \o c
           s5 == s4 \o tail
<1>7. /\ s1 \in Seq(Lines) /\ Good(s1)
      /\ \A tag : All(s1, tag) = IF tag = "MAP" THEN All(head, tag) \cup t.maps ELSE All(head, tag)
  <2>1. Fits(head, "MAP", t.maps)
        BY <1>3 DEF Fits
  <2> QED
      BY <1>1, <1>2, <1>3, <2>1, AddSection
<1>8. Len(s1) > 0 /\ s1[1] = head[1]
  <2>1. Len(head \o m) = Len(head) + Len(m) /\ Len(m) \in Nat
        BY <1>1
  <2>2. \A i \in 1..Len(head) : (head \o m)[i] = head[i]
        BY <1>1
  <2> QED
      BY <1>6, <2>1, <2>2
<1> HIDE DEF s1
<1>9. /\ s2 \in Seq(Lines) /\ Good(s2)
      /\ \A tag : All(s2, tag) = IF tag = "EXE" THEN All(s1, tag) \cup t.exes ELSE All(s1, tag)
  <2>1. Fits(s1, "EXE", t.exes)
        BY <1>3, <1>7 DEF Fits
  <2> QED
      BY <1>1, <1>2, <1>7, <2>1, AddSection
<1>10. Len(s2) > 0 /\ s2[1] = s1[1]
       BY <1>1, <1>7, <1>8
<1> HIDE DEF s2
<1>11. /\ s3 \in Seq(Lines) /\ Good(s3)
       /\ \A tag : All(s3, tag) = IF tag = "EXEMAP" THEN All(s2, tag) \cup t.exemaps ELSE All(s2, tag)
  <2>1. All(s2, "EXE") = t.exes /\ All(s2, "MAP") = t.maps
        BY <1>3, <1>7, <1>9
  <2>2. Fits(s2, "EXEMAP", t.exemaps)
        BY <1>4, <2>1 DEF Fits
  <2> QED
      BY <1>1, <1>2, <1>9, <2>2, AddSection
<1>12. Len(s3) > 0 /\ s3[1] = s2[1]
       BY <1>1, <1>9, <1>10
<1> HIDE DEF s3
<1>13. /\ s4 \in Seq(Lines) /\ Good(s4)
       /\ \A tag : All(s4, tag) = IF tag = "MARKOV" THEN All(s3, tag) \cup t.chains ELSE All(s3, tag)
  <2>1. All(s3, "EXE") = t.exes
        BY <1>3, <1>7, <1>9, <1>11
  <2>2. Fits(s3, "MARKOV", t.chains)
        BY <1>4, <2>1 DEF Fits
  <2> QED
      BY <1>1, <1>2, <1>11, <2>2, AddSection
<1>14. Len(s4) > 0 /\ s4[1] = s3[1]
       BY <1>1, <1>11, <1>12
<1> HIDE DEF s4
<1>15. /\ s5 \in Seq(Lines) /\ Good(s5)
       /\ \A tag : All(s5, tag) = IF tag = "CRC32" THEN All(s4, tag) \cup {<<>>} ELSE All(s4, tag)
  <2>1. Fits(s4, "CRC32", {<<>>})
        BY DEF Fits
  <2> QED
      BY <1>1, <1>2, <1>13, <2>1, AddSection
<1>16. Len(s5) > 0 /\ s5[1] = s4[1]
       BY <1>1, <1>13, <1>14
<1>17. Write(t) = s5
       BY <1>5 DEF s1, s2, s3, s4
<1> HIDE DEF s5
<1>18. /\ All(s5, "EXE") = t.exes /\ All(s5, "EXEMAP") = t.exemaps
       /\ All(s5, "MARKOV") = t.chains
  <2>1. /\ All(s2, "EXE") = t.exes
        /\ All(s2, "EXEMAP") = {} /\ All(s2, "MARKOV") = {}
        BY <1>3, <1>7, <1>9
  <2>2. /\ All(s4, "EXE") = t.exes /\ All(s4, "EXEMAP") = t.exemaps
        /\ All(s4, "MARKOV") = t.chains
        BY <2>1, <1>11, <1>13
  <2> QED
      BY <2>2, <1>15
<1> QED
    BY <1>6, <1>8, <1>10, <1>12, <1>14, <1>15, <1>16, <1>17, <1>18

-----------------------------------------------------------------------------
(* Reading them.                                                           *)

LEMMA ReadsUpTo ==
  ASSUME NEW lines \in Seq(Lines)
  PROVE  LET good == Max({n \in 0..Len(lines) : \A i \in 1..n : ~Wrong(lines, i)})
         IN  /\ good \in 0..Len(lines) /\ \A i \in 1..good : ~Wrong(lines, i)
             /\ Good(lines) => good = Len(lines)
<1> DEFINE Up == {n \in 0..Len(lines) : \A i \in 1..n : ~Wrong(lines, i)}
           good == Max(Up)
<1>1. Len(lines) \in Nat /\ 0 \in Up /\ Up \in SUBSET Nat /\ \A n \in Up : n <= Len(lines)
      OBVIOUS
<1>2. Good(lines) => Len(lines) \in Up
      BY <1>1 DEF Good
<1>3. good \in Up /\ \A n \in Up : n <= good
  <2> HIDE DEF Up
  <2>1. \E greatest \in Up : \A n \in Up : n <= greatest
        BY <1>1, GreatestNumber
  <2>2. \E greatest \in Up : \A n \in Up : greatest >= n
        BY <1>1, <2>1
  <2>3. good \in Up /\ \A n \in Up : good >= n
        BY <2>2 DEF Max
  <2> QED
      BY <1>1, <2>3
<1>4. Good(lines) => good = Len(lines)
  <2>1. good <= Len(lines) /\ good \in Nat
        BY <1>1, <1>3
  <2> HIDE DEF good, Up
  <2> QED
      BY <1>1, <1>2, <1>3, <2>1
<1>5. good \in 0..Len(lines) /\ \A i \in 1..good : ~Wrong(lines, i)
  <2> HIDE DEF good
  <2> QED
      BY <1>3
<1> QED
    BY <1>4, <1>5

\* Whatever is in the file, what is read of it is well formed.
LEMMA ReadTyped ==
  ASSUME NEW lines \in Seq(Lines)
  PROVE  Read(lines) \in Tables /\ WellFormed(Read(lines))
<1> DEFINE most == Max({n \in 0..Len(lines) : \A i \in 1..n : ~Wrong(lines, i)})
           good == IF Ignored(lines) THEN 0 ELSE most
<1>1. good \in 0..Len(lines) /\ \A i \in 1..good : ~Wrong(lines, i)
  <2>1. most \in 0..Len(lines) /\ \A i \in 1..most : ~Wrong(lines, i)
        BY ReadsUpTo
  <2> HIDE DEF most
  <2> QED
      BY <2>1
<1>2. Read(lines) = [exes |-> Told(lines, good, "EXE"),
                     maps |-> {x[2] : x \in Told(lines, good, "EXEMAP")},
                     exemaps |-> Told(lines, good, "EXEMAP"),
                     chains |-> Told(lines, good, "MARKOV"), preloaded |-> {}]
      BY DEF Read
<1> HIDE DEF good
<1>3. \A i \in 1..good : lines[i] \in Lines
      BY <1>1
<1>4. Told(lines, good, "EXE") \subseteq Exes
      BY <1>3 DEF Told, Lines, Bare, Line
<1>5. Told(lines, good, "EXEMAP") \subseteq Exes \X Maps
      BY <1>3 DEF Told, Lines, Bare, Line
<1>6. Told(lines, good, "MARKOV") \subseteq Exes \X Exes
      BY <1>3 DEF Told, Lines, Bare, Line
<1>7. ASSUME NEW i \in 1..good, NEW tag PROVE Told(lines, i - 1, tag) \subseteq Told(lines, good, tag)
      BY <1>1, <1>7 DEF Told
<1>8. \A x \in Told(lines, good, "EXEMAP") : x[1] \in Told(lines, good, "EXE")
  <2> SUFFICES ASSUME NEW i \in 1..good, lines[i].tag = "EXEMAP"
               PROVE  lines[i].of[1] \in Told(lines, good, "EXE")
      BY DEF Told
  <2> QED
      BY <1>1, <1>7 DEF Wrong
<1>9. \A c \in Told(lines, good, "MARKOV") :
        c[1] \in Told(lines, good, "EXE") /\ c[2] \in Told(lines, good, "EXE")
  <2> SUFFICES ASSUME NEW i \in 1..good, lines[i].tag = "MARKOV"
               PROVE  /\ lines[i].of[1] \in Told(lines, good, "EXE")
                      /\ lines[i].of[2] \in Told(lines, good, "EXE")
      BY DEF Told
  <2> QED
      BY <1>1, <1>7 DEF Wrong
<1>10. {x[2] : x \in Told(lines, good, "EXEMAP")} \subseteq Maps
       BY <1>5
<1> QED
    BY <1>2, <1>4, <1>5, <1>6, <1>8, <1>9, <1>10 DEF Tables, WellFormed

\* The round trip: what is read of a file that a save wrote is what was saved.
THEOREM RoundTrip ==
  ASSUME NEW t \in Tables, WellFormed(t), t.preloaded = {}
  PROVE  Read(Write(t)) = t /\ ~IsCorrupt(Write(t))
<1>1. /\ Good(Write(t)) /\ Write(t) # <<>> /\ Write(t)[1].tag = "PRELOAD"
      /\ All(Write(t), "EXE") = t.exes /\ All(Write(t), "EXEMAP") = t.exemaps
      /\ All(Write(t), "MARKOV") = t.chains
      BY WriteReads
<1>2. ~Ignored(Write(t)) /\ Write(t) \in Seq(Lines)
      BY <1>1, WriteTyped DEF Ignored
<1>3. Max({n \in 0..Len(Write(t)) : \A i \in 1..n : ~Wrong(Write(t), i)}) = Len(Write(t))
      BY <1>1, <1>2, ReadsUpTo
<1>4. Read(Write(t)) = [exes |-> t.exes, maps |-> {x[2] : x \in t.exemaps},
                        exemaps |-> t.exemaps, chains |-> t.chains, preloaded |-> {}]
      BY <1>1, <1>2, <1>3 DEF Read, All
<1>5. t = [exes |-> t.exes, maps |-> t.maps, exemaps |-> t.exemaps, chains |-> t.chains,
           preloaded |-> t.preloaded]
      BY DEF Tables
<1>6. ~IsCorrupt(Write(t))
  <2>1. DOMAIN Write(t) = 1..Len(Write(t))
        BY <1>2
  <2> QED
      BY <1>1, <2>1 DEF IsCorrupt, Good
<1> QED
    BY <1>4, <1>5, <1>6 DEF WellFormed

-----------------------------------------------------------------------------
(* The tables of a start.                                                  *)

LEMMA PairsWithin ==
  ASSUME NEW S, IsFiniteSet(S)
  PROVE  Pairs(S) \subseteq S \X S
<1> DEFINE q == SetToSeq(S)
<1>1. q \in Seq(S)
      BY SetInSequence
<1> HIDE DEF q
<1>2. \A i \in DOMAIN q : q[i] \in S
      BY <1>1
<1>3. Pairs(S) = {<<q[k[1]], q[k[2]]>> : k \in {l \in (DOMAIN q) \X (DOMAIN q) : l[1] < l[2]}}
      BY DEF Pairs, q
<1> QED
    BY <1>2, <1>3

LEMMA NoTablesTyped == NoTables \in Tables /\ WellFormed(NoTables) /\ NoTables.preloaded = {}
  BY DEF NoTables, Tables, WellFormed

LEMMA TablesExtended ==
  ASSUME NEW t \in Tables, NEW E, NEW C
  PROVE  /\ [t EXCEPT !.chains = C] =
              [exes |-> t.exes, maps |-> t.maps, exemaps |-> t.exemaps, chains |-> C,
               preloaded |-> t.preloaded]
         /\ [t EXCEPT !.exes = E, !.chains = C] =
              [exes |-> E, maps |-> t.maps, exemaps |-> t.exemaps, chains |-> C,
               preloaded |-> t.preloaded]
<1>1. t = [exes |-> t.exes, maps |-> t.maps, exemaps |-> t.exemaps, chains |-> t.chains,
           preloaded |-> t.preloaded]
      BY DEF Tables
<1>2. PICK e, m, x, c, p : t = [exes |-> e, maps |-> m, exemaps |-> x, chains |-> c, preloaded |-> p]
      BY <1>1
<1>3. /\ t.exes = e /\ t.maps = m /\ t.exemaps = x /\ t.preloaded = p
      BY <1>2
<1>4. [t EXCEPT !.exes = E] =
        [exes |-> E, maps |-> m, exemaps |-> x, chains |-> c, preloaded |-> p]
      BY <1>2
<1>5. PICK u : u = [t EXCEPT !.exes = E]
      OBVIOUS
<1>6. [u EXCEPT !.chains = C] =
        [exes |-> E, maps |-> m, exemaps |-> x, chains |-> C, preloaded |-> p]
  <2>1. u = [exes |-> E, maps |-> m, exemaps |-> x, chains |-> c, preloaded |-> p]
        BY <1>4, <1>5
  <2> QED
      BY <2>1
<1>7. [t EXCEPT !.exes = E, !.chains = C] = [u EXCEPT !.chains = C]
      BY <1>5
<1>8. [t EXCEPT !.chains = C] =
        [exes |-> e, maps |-> m, exemaps |-> x, chains |-> C, preloaded |-> p]
      BY <1>2
<1> QED
    BY <1>3, <1>6, <1>7, <1>8

LEMMA SeededTyped ==
  ASSUME NEW t \in Tables, WellFormed(t)
  PROVE  /\ Seeded(t) \in Tables /\ WellFormed(Seeded(t))
         /\ Seeded(t).preloaded = t.preloaded
<1> DEFINE found == SeedExes \ t.exes
           u == Seeded(t)
<1>1. found \subseteq Exes /\ IsFiniteSet(found)
      BY SeedsAssumption, FormatAssumption, FS_Subset
<1>2. Pairs(found) \subseteq found \X found
      BY <1>1, PairsWithin
<1>3. /\ u.exes = t.exes \cup found /\ u.chains = t.chains \cup (t.exes \X found) \cup Pairs(found)
      /\ u.maps = t.maps /\ u.exemaps = t.exemaps /\ u.preloaded = t.preloaded
      /\ u = [exes |-> u.exes, maps |-> u.maps, exemaps |-> u.exemaps, chains |-> u.chains,
              preloaded |-> u.preloaded]
  <2> DEFINE C == t.chains \cup (t.exes \X found) \cup Pairs(found)
  <2>1. u = [exes |-> t.exes \cup found, maps |-> t.maps, exemaps |-> t.exemaps, chains |-> C,
             preloaded |-> t.preloaded]
    <3>1. u = [t EXCEPT !.exes = t.exes \cup found, !.chains = C]
          BY DEF Seeded
    <3> HIDE DEF u, C, found
    <3> QED
        BY <3>1, TablesExtended
  <2> HIDE DEF u, C
  <2>2. /\ u.exes = t.exes \cup found /\ u.chains = C
        /\ u.maps = t.maps /\ u.exemaps = t.exemaps /\ u.preloaded = t.preloaded
        BY <2>1
  <2> QED
      BY <2>1, <2>2 DEF C
<1> HIDE DEF found, u
<1>4. /\ t.exes \in SUBSET Exes /\ t.maps \in SUBSET Maps /\ t.exemaps \in SUBSET (Exes \X Maps)
      /\ t.chains \in SUBSET (Exes \X Exes) /\ t.preloaded \in SUBSET Exes
      BY DEF Tables
<1>5. u.exes \in SUBSET Exes /\ u.chains \in SUBSET (Exes \X Exes)
      BY <1>1, <1>2, <1>3, <1>4
<1>6. u \in Tables
      BY <1>3, <1>4, <1>5 DEF Tables
<1>7. \A c \in u.chains : c[1] \in u.exes /\ c[2] \in u.exes
      BY <1>2, <1>3 DEF WellFormed
<1>8. WellFormed(u)
      BY <1>3, <1>7 DEF WellFormed
<1> QED
    BY <1>3, <1>6, <1>8 DEF u

LEMMA MeshedTyped ==
  ASSUME NEW t \in Tables, WellFormed(t)
  PROVE  /\ Meshed(t) \in Tables /\ WellFormed(Meshed(t))
         /\ Meshed(t).preloaded = t.preloaded
<1> DEFINE missing == {p \in Pairs(t.exes \cap Priority) : {p, <<p[2], p[1]>>} \cap t.chains = {}}
           u == Meshed(t)
<1>1. t.exes \cap Priority \subseteq t.exes /\ IsFiniteSet(t.exes \cap Priority)
      BY TablesFinite, FS_Subset
<1>2. missing \subseteq t.exes \X t.exes
      BY <1>1, PairsWithin
<1>3. /\ u.exes = t.exes /\ u.chains = t.chains \cup missing
      /\ u.maps = t.maps /\ u.exemaps = t.exemaps /\ u.preloaded = t.preloaded
      /\ u = [exes |-> u.exes, maps |-> u.maps, exemaps |-> u.exemaps, chains |-> u.chains,
              preloaded |-> u.preloaded]
  <2> DEFINE C == t.chains \cup missing
  <2>1. u = [exes |-> t.exes, maps |-> t.maps, exemaps |-> t.exemaps, chains |-> C,
             preloaded |-> t.preloaded]
        BY TablesExtended DEF Meshed
  <2> HIDE DEF u, C
  <2>2. /\ u.exes = t.exes /\ u.chains = C
        /\ u.maps = t.maps /\ u.exemaps = t.exemaps /\ u.preloaded = t.preloaded
        BY <2>1
  <2> QED
      BY <2>1, <2>2 DEF C
<1> HIDE DEF missing, u
<1>4. /\ t.exes \in SUBSET Exes /\ t.maps \in SUBSET Maps /\ t.exemaps \in SUBSET (Exes \X Maps)
      /\ t.chains \in SUBSET (Exes \X Exes) /\ t.preloaded \in SUBSET Exes
      BY DEF Tables
<1>5. u \in Tables
      BY <1>2, <1>3, <1>4 DEF Tables
<1>6. \A c \in u.chains : c[1] \in u.exes /\ c[2] \in u.exes
      BY <1>2, <1>3 DEF WellFormed
<1>7. WellFormed(u)
      BY <1>3, <1>6 DEF WellFormed
<1> QED
    BY <1>3, <1>5, <1>7 DEF u

\* Whatever the file holds, a start makes well formed tables, and no application
\* counts as preloaded.
LEMMA StartTyped ==
  ASSUME main \in Seq(Lines) \cup {NoFile}, Start
  PROVE  tables' \in Tables /\ WellFormed(tables') /\ tables'.preloaded = {}
<1> DEFINE found == IF main = NoFile THEN Seeded(NoTables) ELSE Loaded(main)
<1>1. found \in Tables /\ WellFormed(found) /\ found.preloaded = {}
  <2>1. CASE main = NoFile
        BY <2>1, NoTablesTyped, SeededTyped
  <2>2. CASE main # NoFile
    <3>1. Read(main) \in Tables /\ WellFormed(Read(main)) /\ Read(main).preloaded = {}
          BY <2>2, ReadTyped DEF Read
    <3>2. Loaded(main) \in {Read(main), Seeded(Read(main))}
          BY DEF Loaded
    <3> QED
        BY <2>2, <3>1, <3>2, SeededTyped
  <2> QED
      BY <2>1, <2>2
<1>2. tables' = Meshed(found)
      BY DEF Start
<1> HIDE DEF found
<1> QED
    BY <1>1, <1>2, MeshedTyped

-----------------------------------------------------------------------------
(* The types.                                                              *)

LEMMA CutTyped ==
  ASSUME NEW lines \in Seq(Lines), NEW part \in Cut(lines)
  PROVE  part \in Seq(Lines)
  BY DEF Cut

\* What is said of the file follows from what it is made of.
LEMMA FileTyped ==
  ASSUME NEW file \in Seq(Lines) \cup {NoFile}
  PROVE  file # NoFile => WellFormed(Read(file))
  BY ReadTyped

LEMMA SavingInitTyped == SavingInit => SavingTypeOK
<1> SUFFICES ASSUME SavingInit PROVE SavingTypeOK
    OBVIOUS
<1>1. main \in Seq(Lines) \cup {NoFile}
      BY TablesAssumption, WriteTyped DEF SavingInit
<1>2. main # NoFile => WellFormed(Read(main))
      BY <1>1, FileTyped
<1> QED
    BY <1>1, <1>2, NoTablesTyped DEF SavingInit, SavingTypeOK, Steps

LEMMA SavingNextTyped ==
  ASSUME SavingTypeOK, [SavingNext]_savingVars
  PROVE  SavingTypeOK'
<1>0. /\ tables \in Tables /\ WellFormed(tables)
      /\ main \in Seq(Lines) \cup {NoFile} /\ former \in Seq(Lines) \cup {NoFile}
      /\ tmp \in Seq(Lines) \cup {NoFile}
      BY DEF SavingTypeOK
<1>1. CASE Start
  <2>1. tables' \in Tables /\ WellFormed(tables')
        BY <1>0, <1>1, StartTyped
  <2> QED
      BY <1>1, <2>1 DEF Start, SavingTypeOK, temp, Steps
<1>2. CASE Tick
      BY <1>2 DEF Tick, SavingTypeOK, temp, state, Steps
<1>3. CASE Tick2
  <2>1. tables' \in Tables /\ WellFormed(tables')
        BY <1>3, TablesAssumption DEF Tick2
  <2> QED
      BY <1>3, <2>1 DEF Tick2, SavingTypeOK, temp, state, Steps
<1>4. ASSUME NEW next \in {"run", "down"}, Save(next) PROVE SavingTypeOK'
  <2>1. CASE dirty
        BY <1>4, <2>1 DEF Save, SavingTypeOK, memory, temp, state, Steps
  <2>2. CASE ~dirty /\ next = "down"
        BY <1>4, <2>2, NoTablesTyped DEF Save, Forget, SavingTypeOK, temp, state, Steps
  <2>3. CASE ~dirty /\ next = "run"
        BY <1>4, <2>3 DEF Save, SavingTypeOK, temp, state, Steps
  <2> QED
      BY <1>4, <2>1, <2>2, <2>3
<1>5. CASE OpenTmp
  <2>1. CASE tmp' = <<>> /\ tmpSynced' = FALSE /\ phase' = "write" /\ UNCHANGED <<memory, then>>
    <3>1. tmp' \in Seq(Lines)
          BY <2>1
    <3> QED
        BY <1>5, <2>1, <3>1 DEF OpenTmp, SavingTypeOK, memory, state, Steps
  <2>2. CASE Done /\ UNCHANGED temp
        BY <1>5, <2>2, NoTablesTyped DEF OpenTmp, Done, Forget, SavingTypeOK, temp, state, Steps
  <2> QED
      BY <1>5, <2>1, <2>2 DEF OpenTmp
<1>6. CASE WriteOut
      BY <1>0, <1>6, NoTablesTyped, WriteTyped
         DEF WriteOut, Done, Forget, SavingTypeOK, memory, state, Steps
<1>7. CASE Sync
      BY <1>7, StepsAssumption DEF Sync, SavingTypeOK, memory, Steps
<1>8. CASE Rename
  <2>1. main' \in Seq(Lines) \cup {NoFile}
        BY <1>0, <1>8 DEF Rename
  <2>2. main' # NoFile => WellFormed(Read(main'))
        BY <2>1, FileTyped
  <2> QED
      BY <1>8, <2>1, <2>2, NoTablesTyped DEF Rename, Done, Forget, SavingTypeOK, Steps
<1>9. CASE Killed
      BY <1>9, NoTablesTyped DEF Killed, Off, Forget, SavingTypeOK, temp, state, Steps
<1>10. CASE PowerLoss
  <2>1. main' \in Seq(Lines) \cup {NoFile}
        BY <1>0, <1>10, CutTyped DEF PowerLoss
  <2>2. main' # NoFile => WellFormed(Read(main'))
        BY <2>1, FileTyped
  <2> QED
      BY <1>10, <2>1, <2>2, NoTablesTyped DEF PowerLoss, Off, Forget, SavingTypeOK, Steps
<1>11. CASE Flush
      BY <1>11 DEF Flush, SavingTypeOK, memory, temp, Steps
<1>12. CASE UNCHANGED savingVars
      BY <1>12 DEF savingVars, SavingTypeOK, memory, temp, state
<1> QED
    BY <1>1, <1>2, <1>3, <1>4, <1>5, <1>6, <1>7, <1>8, <1>9, <1>10, <1>11, <1>12 DEF SavingNext

\* Whatever is saved, cut short or found in the file, the tables in memory and
\* those a start would read refer only to executables and maps they hold.
THEOREM SavingTyped == SavingSpec => []SavingTypeOK
<1>1. SavingInit => SavingTypeOK
      BY SavingInitTyped
<1>2. SavingTypeOK /\ [SavingNext]_savingVars => SavingTypeOK'
      BY SavingNextTyped
<1> QED
    BY <1>1, <1>2, PTL DEF SavingSpec

-----------------------------------------------------------------------------
(* What saving promises.                                                   *)

\* What the promise rests on: the steps of a save are never taken out of order,
\* and no file that may be there, or come back, is one that would be set aside.
KeptInv ==
  /\ SavingTypeOK
  /\ mainSynced = TRUE
  /\ phase = "rename" => tmpSynced = TRUE
  /\ tables.preloaded = {}
  /\ \A file \in {main, former} : file # NoFile => ~IsCorrupt(file)

LEMMA KeptInitially ==
  ASSUME \A t \in Changes \cup Stored : t.preloaded = {}
  PROVE  SavingInit => KeptInv
<1> SUFFICES ASSUME SavingInit PROVE KeptInv
    OBVIOUS
<1>1. main # NoFile => ~IsCorrupt(main)
      BY TablesAssumption, RoundTrip DEF SavingInit
<1> QED
    BY <1>1, SavingInitTyped, NoTablesTyped DEF SavingInit, KeptInv

LEMMA WrittenRight ==
  ASSUME KeptInv, phase \in {"sync", "rename"}
  PROVE  Content(tmp) = tables /\ ~IsCorrupt(tmp)
<1>1. tmp = Write(tables) /\ tables \in Tables /\ WellFormed(tables) /\ tables.preloaded = {}
      BY DEF KeptInv, SavingTypeOK
<1>2. tmp # NoFile
      BY <1>1, WriteTyped, NoFileAssumption
<1> QED
    BY <1>1, <1>2, RoundTrip DEF Content

LEMMA KeptNext ==
  ASSUME \A t \in Changes \cup Stored : t.preloaded = {}, Outcomes["sync"] = {TRUE},
         KeptInv, [SavingNext]_savingVars
  PROVE  KeptInv'
<1> DEFINE Sound == /\ mainSynced = TRUE
                    /\ phase = "rename" => tmpSynced = TRUE
                    /\ tables.preloaded = {}
                    /\ \A file \in {main, former} : file # NoFile => ~IsCorrupt(file)
<1>1. SavingTypeOK'
      BY SavingNextTyped DEF KeptInv
<1>2. Sound
      BY DEF KeptInv
<1> SUFFICES Sound'
    BY <1>1 DEF KeptInv
<1>3. CASE Start
  <2>1. tables'.preloaded = {}
        BY <1>3, StartTyped DEF KeptInv, SavingTypeOK
  <2> QED
      BY <1>2, <1>3, <2>1 DEF Start, temp
<1>4. CASE Tick
      BY <1>2, <1>4 DEF Tick, temp, state
<1>5. CASE Tick2
      BY <1>2, <1>5 DEF Tick2, temp, state
<1>6. ASSUME NEW next \in {"run", "down"}, Save(next) PROVE Sound'
      BY <1>2, <1>6, NoTablesTyped DEF Save, Forget, memory, temp, state
<1>7. CASE OpenTmp
  <2>1. CASE phase' = "write" /\ UNCHANGED <<memory, then>>
        BY <1>2, <1>7, <2>1 DEF OpenTmp, memory, state
  <2>2. CASE Done
    <3>1. phase' # "rename"
          BY <2>2 DEF Done, KeptInv, SavingTypeOK
    <3> QED
        BY <1>2, <1>7, <2>2, <3>1, NoTablesTyped DEF OpenTmp, Done, Forget, state
  <2> QED
      BY <1>7, <2>1, <2>2 DEF OpenTmp
<1>8. CASE WriteOut
  <2>1. phase' # "rename"
        BY <1>8 DEF WriteOut, Done, KeptInv, SavingTypeOK
  <2> QED
      BY <1>2, <1>8, <2>1, NoTablesTyped DEF WriteOut, Done, Forget, memory, state
<1>9. CASE Sync
      BY <1>2, <1>9 DEF Sync, memory
<1>10. CASE Rename
  <2>1. phase' # "rename"
        BY <1>10 DEF Rename, Done, KeptInv, SavingTypeOK
  <2>2. main' = main \/ main' = tmp
        BY <1>10 DEF Rename
  <2>3. ~IsCorrupt(tmp)
        BY <1>10, WrittenRight DEF Rename
  <2> QED
      BY <1>2, <1>10, <2>1, <2>2, <2>3, NoTablesTyped DEF Rename, Done, Forget
<1>11. CASE Killed
      BY <1>2, <1>11, NoTablesTyped DEF Killed, Off, Forget, temp, state
<1>12. CASE PowerLoss
  <2>1. main' \in {main, former} /\ former' = main'
        BY <1>2, <1>12 DEF PowerLoss
  <2> QED
      BY <1>2, <1>12, <2>1, NoTablesTyped DEF PowerLoss, Off, Forget
<1>13. CASE Flush
      BY <1>2, <1>13 DEF Flush, memory, temp
<1>14. CASE UNCHANGED savingVars
      BY <1>2, <1>14 DEF savingVars, memory, temp, state
<1> QED
    BY <1>3, <1>4, <1>5, <1>6, <1>7, <1>8, <1>9, <1>10, <1>11, <1>12, <1>13, <1>14
       DEF KeptInv, SavingNext

\* Each step is one that the promise allows.
LEMMA PromiseStep ==
  ASSUME Outcomes["sync"] = {TRUE}, KeptInv, [SavingNext]_savingVars
  PROVE  [Kept!Next]_(Kept!vars)
<1> DEFINE Same == UNCHANGED <<main, former>>
<1>1. ASSUME Same PROVE Kept!Next
      BY <1>1 DEF Kept!Next, Content
<1>2. ASSUME main' = main, former' = main PROVE Kept!Next
      BY <1>2 DEF Kept!Next, Kept!Settle, Content
<1>3. CASE Start
  <2>1. ~(main # NoFile /\ IsCorrupt(main))
        BY DEF KeptInv
  <2> QED
      BY <1>1, <1>3, <2>1 DEF Start
<1>4. CASE Tick
      BY <1>1, <1>4 DEF Tick, state
<1>5. CASE Tick2
      BY <1>1, <1>5 DEF Tick2, state
<1>6. ASSUME NEW next \in {"run", "down"}, Save(next) PROVE Kept!Next
      BY <1>1, <1>6 DEF Save, state
<1>7. CASE OpenTmp
      BY <1>1, <1>7 DEF OpenTmp, state
<1>8. CASE WriteOut
      BY <1>1, <1>8 DEF WriteOut, state
<1>9. CASE Sync
  <2>1. main' = main /\ former' = main
        BY <1>9 DEF Sync
  <2> QED
      BY <1>2, <2>1
<1>10. CASE Rename
  <2>1. CASE main' = main
        BY <1>1, <1>10, <2>1 DEF Rename
  <2>2. CASE main' = tmp
    <3>1. Content(tmp) = tables
          BY <1>10, WrittenRight DEF Rename
    <3>2. former' = former
          BY <1>10 DEF Rename
    <3> QED
        BY <2>2, <3>1, <3>2 DEF Kept!Next, Kept!Replace, Content
  <2> QED
      BY <1>10, <2>1, <2>2 DEF Rename
<1>11. CASE Killed
      BY <1>1, <1>11 DEF Killed, state
<1>12. CASE PowerLoss
  <2>1. former' = main' /\ main' \in {main, former}
        BY <1>12 DEF PowerLoss, KeptInv
  <2>2. CASE main' = main
        BY <1>2, <2>1, <2>2
  <2>3. CASE main' = former
        BY <2>1, <2>3 DEF Kept!Next, Kept!Revert, Content
  <2> QED
      BY <2>1, <2>2, <2>3
<1>13. CASE Flush
      BY <1>2, <1>13 DEF Flush
<1>14. CASE UNCHANGED savingVars
      BY <1>1, <1>14 DEF savingVars, state
<1> QED
    BY <1>3, <1>4, <1>5, <1>6, <1>7, <1>8, <1>9, <1>10, <1>11, <1>12, <1>13, <1>14 DEF SavingNext

\* The save implements what it promises (SavedTables), for any tables, in any
\* number of saves, crashes and starts, as long as fsync() does not fail and no
\* application counts as preloaded: then the file would hold a line that reading
\* takes for an error.
THEOREM PromiseKept ==
  ASSUME \A t \in Changes \cup Stored : t.preloaded = {}, Outcomes["sync"] = {TRUE}
  PROVE  SavingSpec => Promise
<1>1. SavingInit => KeptInv
      BY KeptInitially
<1>2. KeptInv /\ [SavingNext]_savingVars => KeptInv'
      BY KeptNext
<1>3. SavingInit => Kept!Init
      BY DEF SavingInit, Kept!Init, Content
<1>4. KeptInv /\ [SavingNext]_savingVars => [Kept!Next]_(Kept!vars)
      BY PromiseStep
<1> QED
    BY <1>1, <1>2, <1>3, <1>4, PTL DEF SavingSpec, Promise, Kept!Spec
=============================================================================
