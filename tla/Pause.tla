------------------------------- MODULE Pause -------------------------------
(***************************************************************************)
(* Pausing the preloads.  preheat-ctl pause writes the time the pause ends *)
(* to a file, preheat-ctl resume removes it (src/tools/ctl_cmd_basic.c).   *)
(* The daemon reads the file at the first tick after it started and from   *)
(* then on keeps its own copy (src/src/daemon/pause.c).  Neither locks the *)
(* file: opening it for writing empties it, its content arrives when it is *)
(* closed, and removing it takes away whatever is there by then.           *)
(***************************************************************************)
EXTENDS Clock

CONSTANTS
  Durations,   \* seconds a user may ask for, 0 to pause until the reboot
  NoFile

ASSUME PauseAssumption == Durations \subseteq Nat /\ NoFile \notin Int

UntilReboot == 0
Unwritten   == -2    \* the file is empty: opened by preheat-ctl, not closed yet
NoExpiry    == -1

VARIABLES
  file,        \* /run/preheat.pause: the end of the pause
  ctl,         \* the end of the pause that preheat-ctl is writing
  stage,       \* the daemon: "down", "run", or "unlink" in the middle of a tick
  loaded,      \* pause_state.initialized
  active,      \* pause_state.active
  expiry,      \* pause_state.expiry
  found        \* history: the pause the daemon started under, if no command
               \* was given since

pauseState == <<loaded, active, expiry>>
pauseVars  == <<file, ctl, stage, pauseState, found>>

Expiries == {UntilReboot} \cup 1..MaxTime
Files    == Expiries \cup {NoFile, Unwritten}

PauseTypeOK ==
  /\ file \in Files /\ ctl \in Expiries \cup {NoFile}
  /\ stage \in {"down", "run", "unlink"}
  /\ loaded \in BOOLEAN /\ active \in BOOLEAN
  /\ expiry \in Expiries \cup {NoExpiry} /\ (active => expiry # NoExpiry)
  /\ found \in Expiries \cup {NoFile}

PauseInit ==
  /\ file = NoFile /\ ctl = NoFile /\ stage = "down"
  /\ loaded = FALSE /\ active = FALSE /\ expiry = NoExpiry
  /\ found = NoFile

\* A pause that ends at x has not ended yet.
Pausing(x) == x \in Expiries /\ (x = UntilReboot \/ now < x)

-----------------------------------------------------------------------------
(* preheat-ctl.                                                            *)

ExpiryOf(d) == IF d = 0 THEN UntilReboot ELSE now + d

\* cmd_pause: fopen truncates the file or creates it.
CtlOpen(d) ==
  /\ ctl = NoFile /\ ExpiryOf(d) \in Expiries
  /\ ctl' = ExpiryOf(d)
  /\ file' = Unwritten
  /\ found' = NoFile
  /\ UNCHANGED <<stage, pauseState>>

\* fclose: what was written goes to a file that may have been removed meanwhile.
CtlClose ==
  /\ ctl # NoFile
  /\ file' = IF file = Unwritten THEN ctl ELSE file
  /\ ctl' = NoFile
  /\ UNCHANGED <<stage, pauseState, found>>

\* cmd_resume.
CtlResume ==
  /\ file # NoFile
  /\ file' = NoFile /\ found' = NoFile
  /\ UNCHANGED <<ctl, stage, pauseState>>

-----------------------------------------------------------------------------
(* The daemon.                                                             *)

StartPaused ==
  /\ stage = "down"
  /\ stage' = "run"
  /\ found' = IF Pausing(file) THEN file ELSE NoFile
  /\ UNCHANGED <<file, ctl, pauseState>>

\* Stopped or killed: the file stays.
StopPaused ==
  /\ stage # "down"
  /\ stage' = "down" /\ found' = NoFile
  /\ loaded' = FALSE /\ active' = FALSE /\ expiry' = NoExpiry
  /\ UNCHANGED <<file, ctl>>

\* The machine boots: /run is empty.
Reboot ==
  /\ stage' = "down"
  /\ file' = NoFile /\ ctl' = NoFile /\ found' = NoFile
  /\ loaded' = FALSE /\ active' = FALSE /\ expiry' = NoExpiry

\* load_pause_file: how the pause it reads is judged.
ValidBefore(x) == x # UntilReboot /\ x \in Expiries /\ x > now
Valid(x)       == x = UntilReboot \/ (x \in Expiries /\ x > now)

\* What kp_pause_is_active finds: at its first call the file, later its own copy.
PausedStill == IF loaded THEN active ELSE Valid(file)
PausedNow   == IF loaded THEN active /\ (expiry = UntilReboot \/ now < expiry)
                         ELSE Valid(file)

\* It removes the file if that is invalid or expired, or if its own copy is: then
\* the end of the tick comes after the unlink.
MustUnlink == IF loaded THEN active ELSE file # NoFile

\* kp_pause_is_active returns TRUE: the tick predicts nothing.
PausedTick ==
  /\ stage = "run" /\ PausedNow
  /\ loaded' = TRUE /\ active' = TRUE
  /\ expiry' = IF loaded THEN expiry ELSE file
  /\ UNCHANGED <<file, ctl, stage, found>>

\* It is going to return FALSE, but has to remove the file first.
ExpireTick ==
  /\ stage = "run" /\ ~PausedNow /\ MustUnlink
  /\ loaded' = TRUE /\ active' = FALSE /\ expiry' = NoExpiry
  /\ stage' = "unlink"
  /\ UNCHANGED <<file, ctl, found>>

\* It returns FALSE, and the tick goes on to predict.
UnlinkedTick ==
  /\ stage = "unlink"
  /\ stage' = "run" /\ file' = NoFile
  /\ UNCHANGED <<ctl, pauseState, found>>

OpenTick ==
  /\ stage = "run" /\ ~PausedNow /\ ~MustUnlink
  /\ loaded' = TRUE /\ active' = FALSE /\ expiry' = NoExpiry
  /\ UNCHANGED <<file, ctl, stage, found>>

UnpausedTick == OpenTick \/ UnlinkedTick

Ctl == (\E d \in Durations : CtlOpen(d)) \/ CtlClose \/ CtlResume
=============================================================================
