---------------------------- MODULE MarkovChain ----------------------------
(***************************************************************************)
(* The four-state chain kept for two executables a and b                   *)
(* (src/src/state/state_markov.c, kp_markov_t in src/src/state/state.h).   *)
(* State 0: neither runs, 1: only a, 2: only b, 3: both.  The chain counts *)
(* the moves it sees between the states and the time spent in each.        *)
(*                                                                         *)
(* time_to_leave[s] is a running mean in the code; stay[s] is the sum that *)
(* mean is of, i.e. time_to_leave[s] * weight[s][s].  Both, and weight, are *)
(* what the chain counted since the daemon started: what a state file gave *)
(* back only adds to them.                                                 *)
(***************************************************************************)
EXTENDS Integers

States == 0..3

\* The state is one of the four, unless nothing ever set it.
Chain == [state : Int, ct : Int, born : Int, time : Nat,
          weight : [States -> [States -> Nat]], stay : [States -> Int]]

\* The macro markov_state: which of the two executables runs.
MarkovState(ra, rb) == (IF ra THEN 1 ELSE 0) + (IF rb THEN 2 ELSE 0)

\* state ^= 1 and state ^= 2 of kp_markov_new.
FlipA(s) == IF s \in {1, 3} THEN s - 1 ELSE s + 1
FlipB(s) == IF s \in {2, 3} THEN s - 2 ELSE s + 2

\* One more departure from i, one more move from i to j.
Counted(row, i, j) == [t \in States |-> row[t] + (IF t \in {i, j} THEN 1 ELSE 0)]

\* The move of chain c to state s at time now: counted, and timed.
Leave(c, s, now) ==
  [state  |-> s,
   ct     |-> now,
   born   |-> c.born,
   time   |-> c.time,
   weight |-> [c.weight EXCEPT ![c.state] = Counted(@, c.state, s)],
   stay   |-> [c.stay EXCEPT ![c.state] = @ + (now - c.ct)]]

\* Two slips StateChanged could have: a missing update of either field.
StateChangedKeepsState(c, s, now) ==
  IF c.ct = now \/ c.state = s THEN c ELSE [Leave(c, s, now) EXCEPT !.state = c.state]
StateChangedKeepsTime(c, s, now) ==
  IF c.ct = now \/ c.state = s THEN c ELSE [Leave(c, s, now) EXCEPT !.ct = c.ct]

(***************************************************************************)
(* kp_markov_state_changed at time now, when the executables are in state  *)
(* s.  A chain already handled at this time, and one whose state is still  *)
(* right, is left alone.                                                   *)
(***************************************************************************)
StateChanged(c, s, now) ==
  IF c.ct = now \/ c.state = s THEN c ELSE Leave(c, s, now)

(***************************************************************************)
(* kp_markov_new with initialize: the time the chain starts at, from the   *)
(* last changes of a and of b ...                                          *)
(***************************************************************************)
StartTime(cta, ctb, now) ==
  LET fromA == IF cta < now THEN cta ELSE now IN
  IF cta > 0 /\ ctb > 0
    THEN IF ctb < now /\ ctb > fromA THEN ctb ELSE fromA
    ELSE now

\* ... and its state then, undoing the changes made since that time.
StartState(cta, ctb, s, now) ==
  LET start == StartTime(cta, ctb, now)
      undoA == IF cta > 0 /\ ctb > 0 /\ cta > start THEN FlipA(s) ELSE s
  IN  IF cta > 0 /\ ctb > 0 /\ ctb > start THEN FlipB(undoA) ELSE undoA

\* A chain with nothing counted, in state s since ct; born is a history
\* field, the time the chain really starts at.  Uncleared, its fields hold
\* what the memory held.
BlankChainUncleared(s, ct, born) ==
  [state |-> s, ct |-> ct, born |-> born, time |-> -1,
   weight |-> [i \in States |-> [j \in States |-> -1]],
   stay |-> [i \in States |-> 0]]
BlankChain(s, ct, born) ==
  [state |-> s, ct |-> ct, born |-> born, time |-> 0,
   weight |-> [i \in States |-> [j \in States |-> 0]],
   stay |-> [i \in States |-> 0]]

\* kp_markov_new without initialize: the chain a state file gives back, which
\* ran together for t; its state and its last change are what they happen to be.
ReadChain(s, ct, born, t) == [BlankChain(s, ct, born) EXCEPT !.time = t]

\* The chain has counted a move.
Moved(c) == \E i \in States : c.weight[i][i] > 0

NewChain(cta, ctb, s, now) ==
  LET start == StartTime(cta, ctb, now) IN
  StateChanged(BlankChain(StartState(cta, ctb, s, now), start, start), s, now)
=============================================================================
