----------------------------- MODULE MCLaunches -----------------------------
(***************************************************************************)
(* Instances of Launches for TLC.                                          *)
(***************************************************************************)
EXTENDS Launches, TLC

CONSTANTS app, tool, p, q
Interchangeable == Permutations(Pids)
Itself == [e \in Exes |-> e]
=============================================================================
