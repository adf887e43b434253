---------------------------- MODULE SavedTables ----------------------------
(***************************************************************************)
(* What saving promises: the tables saved last are kept, whole; a power    *)
(* failure may bring back the ones saved before them, and nothing else.    *)
(***************************************************************************)
VARIABLES
  now,      \* the tables in memory, which change freely
  last,     \* the tables a start would find
  former    \* those a power failure may bring back

vars == <<now, last, former>>

Init == former = last

\* A save takes effect: it stores what is in memory.
Replace == last' = now /\ former' \in {last, former}

\* What was saved last can no longer be lost.
Settle == last' = last /\ former' = last

\* A power failure.
Revert == last' = former /\ former' = former

Next == Replace \/ Settle \/ Revert \/ UNCHANGED <<last, former>>

Spec == Init /\ [][Next]_vars
=============================================================================
