---------------------------- MODULE InstanceLock ----------------------------
(***************************************************************************)
(* One daemon at a time (src/src/daemon/main.c and daemon.c).  A daemon    *)
(* locks the PID file when it starts and keeps it open; the file is written*)
(* again, by name, when the main loop begins, and unlinked, by name, when  *)
(* it ends and once more after the lock was given up.                      *)
(*                                                                         *)
(* The file system is external: a name refers to a file or to none, a file *)
(* that was unlinked can still be open and locked, and a lock is released  *)
(* when no process has its descriptor any more: the children a daemon forks*)
(* to read ahead or to run ldd inherit it.                                 *)
(***************************************************************************)
EXTENDS Integers, FiniteSets

CONSTANTS
  Procs,      \* attempts to start the daemon
  Files,      \* bound: files ever created under the name
  Launcher,   \* the process that forks the daemon and exits
  Children,   \* the children a daemon that was killed has left
  Nobody

ASSUME LockAssumption ==
  /\ {Launcher, Children, Nobody} \cap Procs = {} /\ Children # Nobody
  /\ Files \in Nat

None == 0

VARIABLES
  name,       \* the file the name of the PID file refers to, or None
  made,       \* how many files were created under it
  pid,        \* pid[f]: who is written in f
  holder,     \* holder[f]: who holds the lock of f
  fd,         \* fd[p]: the file p has open
  pc,         \* where p is
  stopped     \* history: a daemon was stopped in order, not killed

lockVars == <<name, made, pid, holder, fd, pc, stopped>>

Alive == {"locked", "starting", "running", "saving"}
Daemons == {p \in Procs : pc[p] \in Alive}

LockTypeOK ==
  /\ made \in 0..Files /\ name \in 0..made
  /\ pid \in [1..Files -> Procs \cup {Launcher, Nobody}]
  /\ holder \in [1..Files -> Procs \cup {Children, Nobody}]
  /\ fd \in [Procs -> 0..made]
  /\ pc \in [Procs -> Alive \cup {"out", "opened", "released"}]
  /\ stopped \in BOOLEAN
  /\ \A p \in Procs : pc[p] \in Alive \cup {"opened"} <=> fd[p] # None

LockInit ==
  /\ name = None /\ made = 0
  /\ pid = [f \in 1..Files |-> Nobody] /\ holder = [f \in 1..Files |-> Nobody]
  /\ fd = [p \in Procs |-> None] /\ pc = [p \in Procs |-> "out"]
  /\ stopped = FALSE

\* O_CREAT: the file of that name, a new one if there is none.
Opening(f) ==
  IF name = None THEN made < Files /\ f = made + 1 /\ made' = f /\ name' = f
                 ELSE f = name /\ UNCHANGED <<made, name>>

\* acquire_pidfile_lock: open, flock without waiting, write.
Open(p) ==
  /\ pc[p] = "out"
  /\ \E f \in 1..Files : Opening(f) /\ fd' = [fd EXCEPT ![p] = f]
  /\ pc' = [pc EXCEPT ![p] = "opened"]
  /\ UNCHANGED <<pid, holder, stopped>>

FlockAnyway(p) ==
  /\ pc[p] = "opened"
  /\ holder' = [holder EXCEPT ![fd[p]] = p] /\ pc' = [pc EXCEPT ![p] = "locked"]
  /\ UNCHANGED <<name, made, pid, fd, stopped>>
Flock(p) ==
  /\ pc[p] = "opened"
  /\ IF holder[fd[p]] = Nobody
       THEN /\ holder' = [holder EXCEPT ![fd[p]] = p] /\ pc' = [pc EXCEPT ![p] = "locked"]
            /\ UNCHANGED fd
       ELSE /\ fd' = [fd EXCEPT ![p] = None] /\ pc' = [pc EXCEPT ![p] = "out"]
            /\ UNCHANGED holder
  /\ UNCHANGED <<name, made, pid, stopped>>

\* What is written here is the PID of a process that forks and exits, unless
\* the daemon stays in the foreground.
WritePid(p) ==
  /\ pc[p] = "locked"
  /\ \E who \in {p, Launcher} : pid' = [pid EXCEPT ![fd[p]] = who]
  /\ pc' = [pc EXCEPT ![p] = "starting"]
  /\ UNCHANGED <<name, made, holder, fd, stopped>>

\* The state was loaded; kp_write_pidfile, and the main loop begins.
RunUnwritten(p) ==
  /\ pc[p] = "starting"
  /\ \E f \in 1..Files : Opening(f)
  /\ pc' = [pc EXCEPT ![p] = "running"]
  /\ UNCHANGED <<pid, holder, fd, stopped>>
Run(p) ==
  /\ pc[p] = "starting"
  /\ \E f \in 1..Files : Opening(f) /\ pid' = [pid EXCEPT ![f] = p]
  /\ pc' = [pc EXCEPT ![p] = "running"]
  /\ UNCHANGED <<holder, fd, stopped>>

\* The main loop ends, kp_remove_pidfile; the state is saved and freed.
Quit(p) ==
  /\ pc[p] = "running" /\ stopped' = TRUE
  /\ name' = None /\ pc' = [pc EXCEPT ![p] = "saving"]
  /\ UNCHANGED <<made, pid, holder, fd>>

Released(p) == [f \in 1..Files |-> IF holder[f] = p THEN Nobody ELSE holder[f]]

\* release_pidfile_lock: close, which gives up the lock, and unlink.
Release(p) ==
  /\ pc[p] = "saving"
  /\ holder' = Released(p) /\ fd' = [fd EXCEPT ![p] = None]
  /\ pc' = [pc EXCEPT ![p] = "released"]
  /\ UNCHANGED <<name, made, pid, stopped>>

Unlink(p) ==
  /\ pc[p] = "released"
  /\ name' = None /\ pc' = [pc EXCEPT ![p] = "out"]
  /\ UNCHANGED <<made, pid, holder, fd, stopped>>

\* SIGKILL, a crash, or an error while starting.  A daemon that was in a tick may have
\* children, which keep the lock until they end.
KillKeepsLock(p) ==
  /\ pc[p] # "out"
  /\ fd' = [fd EXCEPT ![p] = None] /\ pc' = [pc EXCEPT ![p] = "out"]
  /\ UNCHANGED <<name, made, pid, holder, stopped>>
Kill(p) ==
  /\ pc[p] # "out"
  /\ \E heir \in {Nobody} \cup IF pc[p] = "running" THEN {Children} ELSE {} :
       holder' = [f \in 1..Files |-> IF holder[f] = p THEN heir ELSE holder[f]]
  /\ fd' = [fd EXCEPT ![p] = None] /\ pc' = [pc EXCEPT ![p] = "out"]
  /\ UNCHANGED <<name, made, pid, stopped>>

ChildrenEnd ==
  /\ \E f \in 1..Files : holder[f] = Children /\ holder' = [holder EXCEPT ![f] = Nobody]
  /\ UNCHANGED <<name, made, pid, fd, pc, stopped>>

LockNext ==
  \/ \E p \in Procs :
       \/ Open(p) \/ Flock(p) \/ WritePid(p) \/ Run(p)
       \/ Quit(p) \/ Release(p) \/ Unlink(p) \/ Kill(p)
  \/ ChildrenEnd

LockSpec == LockInit /\ [][LockNext]_lockVars

-----------------------------------------------------------------------------
(* Properties.                                                             *)

\* The lock of a file is held by the daemon that has it open and by no other: one that
\* was killed keeps the next from starting no longer than its children live, which is
\* longer than main.c:225 says.
LockExact ==
  /\ LockTypeOK
  /\ \A f \in 1..Files, p \in Procs : holder[f] = p <=> p \in Daemons /\ fd[p] = f

\* main.c:427: as long as daemons end by being killed only, there is one at a
\* time, however the attempts to start interleave.
OneDaemon == ~stopped => Cardinality(Daemons) <= 1

\* The daemon that runs is the one the PID file names, so that preheat-ctl
\* signals it.
NamedDaemon ==
  ~stopped => \A p \in Procs : pc[p] = "running" => name # None /\ pid[name] = p
=============================================================================
