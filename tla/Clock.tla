------------------------------- MODULE Clock -------------------------------
(***************************************************************************)
(* The clock that the pause, the session and the ticks read: time(NULL).   *)
(* It does not run backwards here.                                         *)
(***************************************************************************)
EXTENDS Integers

CONSTANT MaxTime   \* bound on the clock

ASSUME ClockAssumption == MaxTime \in Nat

VARIABLE now

Elapse == now < MaxTime /\ now' = now + 1
=============================================================================
