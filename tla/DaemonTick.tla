----------------------------- MODULE DaemonTick -----------------------------
(***************************************************************************)
(* The predicting half of kp_state_tick (src/src/state/state.c): a tick    *)
(* asks whether the preloads are paused, and only if they are not checks   *)
(* the session and predicts.  The pause and the prediction meet here: what *)
(* a tick that was paused skips, it skips whole.                           *)
(***************************************************************************)
EXTENDS Pause, Prediction

vars == <<now, pauseVars, predictionVars>>

TypeOK == now \in Nat /\ PauseTypeOK /\ PredictionTypeOK

Init == now = 0 /\ PauseInit /\ PredictionInit

Tick ==
  \/ UnpausedTick /\ Predict
  \/ (PausedTick \/ ExpireTick) /\ UNCHANGED predictionVars

DaemonStart == StartPaused /\ StartPrediction
DaemonStop  == StopPaused /\ StopPrediction /\ UNCHANGED login

Boot ==
  /\ Reboot
  /\ login' = NoLogin
  /\ StopPrediction

Next ==
  \/ Tick /\ UNCHANGED now
  \/ DaemonStart /\ UNCHANGED now
  \/ DaemonStop /\ UNCHANGED now
  \/ Boot /\ UNCHANGED now
  \/ Ctl /\ UNCHANGED <<now, predictionVars>>
  \/ User /\ UNCHANGED <<now, pauseVars>>
  \/ Elapse /\ UNCHANGED <<pauseVars, predictionVars>>

Spec == Init /\ [][Next]_vars

\* Time passes, and a daemon that runs goes on ticking.
FairSpec == Spec /\ WF_now(Elapse /\ UNCHANGED <<pauseVars, predictionVars>>)
                 /\ WF_vars(Tick /\ UNCHANGED now)

-----------------------------------------------------------------------------
(* Properties.                                                             *)

\* "Pause state persists across daemon restarts": a daemon started under a pause
\* predicts nothing until the pause ends, unless a command was given meanwhile.
RestartHonoured == [][UnpausedTick => ~Pausing(found)]_vars

\* A pause that has an end ends: the daemon comes to predict again by itself.
PauseEnds ==
  (stage # "down" /\ active /\ expiry # UntilReboot) ~> (~active \/ stage = "down")
=============================================================================
