----------------------------- MODULE RegionSet -----------------------------
(***************************************************************************)
(* What the registry of mapped regions promises: at any time it holds the  *)
(* regions that some executable uses, and no other.  It loses track of a   *)
(* region that is acquired anew while it is used, or twice at once.        *)
(***************************************************************************)
CONSTANTS Exes, Regions,
          Twice        \* the regions that may be acquired twice at once
VARIABLES held,        \* held[e]: the regions executable e uses
          registered,  \* the regions in the registry
          lost         \* the regions it may be wrong about

vars == <<held, registered, lost>>

Used(h) == UNION {h[e] : e \in Exes}
Exact == registered' \ lost' = Used(held') \ lost'

Init ==
  /\ held \in [Exes -> SUBSET Regions] /\ registered = Used(held)
  /\ lost = {}

\* An executable gets the regions R, those of A anew.
Acquire(e, R, A) ==
  /\ A \subseteq R \cap (Used(held) \cup Twice)
  /\ held' = [held EXCEPT ![e] = @ \cup R]
  /\ lost' = lost \cup A
  /\ Exact

\* An executable gives up what it uses.
Release(e) ==
  /\ held' = [held EXCEPT ![e] = {}]
  /\ Exact /\ UNCHANGED lost

Next == \E e \in Exes : Release(e) \/ \E R, A \in SUBSET Regions : Acquire(e, R, A)

Spec == Init /\ [][Next]_vars
=============================================================================
