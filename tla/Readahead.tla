----------------------------- MODULE Readahead -----------------------------
(***************************************************************************)
(* Reading maps ahead (src/src/readahead/readahead.c): sorting the maps of *)
(* a prediction, merging those that touch, and forking at most maxprocs    *)
(* children to read what was merged.                                       *)
(*                                                                         *)
(* A region covers the bytes off .. off + len - 1 of its file.  Fork, wait *)
(* and the exit of a child are external; SIGCHLD has SA_NOCLDWAIT, so that *)
(* wait() returns when the last child has gone, with an error.             *)
(***************************************************************************)
EXTENDS Integers, Sequences, SequencesExt, FiniteSets

CONSTANTS
  Paths, Rank,        \* the files, and their order: strcmp of the paths
  Block,              \* Block[r]: the block stored in map r
  Calls,              \* sets of regions a prediction may ask for
  Strategies,         \* values of sortstrategy: "none", "path", "block"
  Limits,             \* values of maxprocs
  ForkOutcomes        \* TRUE: a fork may succeed, FALSE: it may fail

Regions == UNION Calls

Requests == [path : Paths, off : Nat, len : Nat \ {0}]

\* strcmp tells two names apart.
ASSUME RegionsAssumption ==
  /\ Regions \subseteq Requests /\ \A S \in Calls : IsFiniteSet(S)
  /\ Rank \in [Paths -> Int] /\ IsInjective(Rank)
ASSUME StrategiesAssumption == Strategies \subseteq {"none", "path", "block"}
ASSUME LimitsAssumption == Limits \subseteq Nat
ASSUME OutcomesAssumption == ForkOutcomes \in (SUBSET BOOLEAN) \ {{}}

VARIABLES
  pc,        \* "idle", "merge", "room", "fork" or "finish"
  queue,     \* what is left of files, sorted
  cur,       \* path, offset and length, None before the first map
  limit,     \* maxprocs during the call
  procs,     \* children believed to be alive
  children,  \* those that are
  strategy,  \* history: how this call's maps were sorted
  wanted,    \* history: the regions of this call
  issued,    \* history: the regions it read ahead
  dropped    \* history: a fork failed during the call

vars == <<pc, queue, cur, limit, procs, children, strategy, wanted, issued, dropped>>
history == <<strategy, wanted, issued, dropped>>

None == [path |-> "none", off |-> 0, len |-> 0]
End(r) == r.off + r.len
Bytes(S) == UNION {{<<r.path, i>> : i \in r.off..(End(r) - 1)} : r \in S}

-----------------------------------------------------------------------------
(* Sorting.                                                                *)

\* map_path_compare: the order of the paths, then the earlier one, then the
\* longer one.
PathLess(a, b) ==
  \/ Rank[a.path] < Rank[b.path]
  \/ a.path = b.path /\ a.off < b.off
  \/ a.path = b.path /\ a.off = b.off /\ a.len > b.len

\* map_block_compare.
BlockLess(a, b) == Block[a] < Block[b] \/ (Block[a] = Block[b] /\ PathLess(a, b))

\* What sort_files may make of the maps in S, which come in any order.
SortedBy(S, less(_, _)) ==
  {q \in SetToSeqs(S) : \A i, j \in DOMAIN q : i < j => less(q[i], q[j])}

Sorted(S, how) ==
  CASE how = "none"  -> SetToSeqs(S)
    [] how = "path"  -> SortedBy(S, PathLess)
    [] how = "block" -> SortedBy(S, BlockLess)

-----------------------------------------------------------------------------
(* The call.                                                               *)

TypeOK ==
  /\ pc \in {"idle", "merge", "room", "fork", "finish"}
  /\ Range(queue) \subseteq wanted /\ wanted \subseteq Regions
  /\ cur = None \/ cur \in Requests
  /\ limit \in Limits /\ procs \in Nat /\ children \in Nat
  /\ strategy \in Strategies /\ dropped \in BOOLEAN
  /\ pc \in {"room", "fork"} => cur # None
  /\ pc = "finish" => cur = None /\ queue = <<>>

Init ==
  /\ pc = "idle" /\ queue = <<>> /\ cur = None
  /\ limit \in Limits /\ procs = 0 /\ children = 0
  /\ strategy \in Strategies /\ wanted = {} /\ issued = {} /\ dropped = FALSE

\* kp_readahead; maxprocs and sortstrategy are what the last reload made them.
Call ==
  /\ pc = "idle"
  /\ strategy' \in Strategies /\ wanted' \in Calls /\ limit' \in Limits
  /\ queue' \in Sorted(wanted', strategy')
  /\ pc' = "merge" /\ issued' = {} /\ dropped' = FALSE
  /\ UNCHANGED <<cur, procs, children>>

\* The next map continues the current request.
TouchesAnywhere(r, f) == r # None /\ r.path = f.path /\ r.off <= f.off
TouchesAnyPath(r, f) == r # None /\ r.off <= f.off /\ End(r) >= f.off
Touches(r, f) == r # None /\ r.path = f.path /\ r.off <= f.off /\ End(r) >= f.off
Continues == queue # <<>> /\ Touches(cur, Head(queue))

MergeNext ==
  /\ pc = "merge" /\ Continues
  /\ cur' = [cur EXCEPT !.len = End(Head(queue)) - cur.off]
  /\ queue' = Tail(queue)
  /\ UNCHANGED <<pc, limit, procs, children, history>>

TakeNext ==
  /\ pc = "merge" /\ queue # <<>> /\ cur = None
  /\ cur' = Head(queue) /\ queue' = Tail(queue)
  /\ UNCHANGED <<pc, limit, procs, children, history>>

\* process_file begins: is there room for a child?
IssueWhenOver ==
  /\ pc = "merge" /\ cur # None /\ ~Continues
  /\ pc' = IF procs > limit THEN "room" ELSE "fork"
  /\ UNCHANGED <<queue, cur, limit, procs, children, history>>
Issue ==
  /\ pc = "merge" /\ cur # None /\ ~Continues
  /\ pc' = IF procs >= limit THEN "room" ELSE "fork"
  /\ UNCHANGED <<queue, cur, limit, procs, children, history>>

\* wait_for_children: no wait() while procs is 0, otherwise until none is left.
Waited == (procs = 0 \/ children = 0) /\ procs' = 0

MakeRoomUntilLess ==
  /\ pc = "room" /\ Waited /\ pc' = IF procs' >= limit THEN "room" ELSE "fork"
  /\ UNCHANGED <<queue, cur, limit, children, history>>
MakeRoom ==
  /\ pc = "room" /\ Waited /\ pc' = "fork"
  /\ UNCHANGED <<queue, cur, limit, children, history>>

\* The fork; with maxprocs = 0 the daemon reads by itself.  A fork that failed
\* drops the request.
Count(ok) == procs' = IF ok THEN procs + 1 ELSE procs

Fork ==
  /\ pc = "fork"
  /\ IF limit = 0
       THEN issued' = issued \cup {cur} /\ UNCHANGED <<procs, children, dropped>>
       ELSE \E ok \in ForkOutcomes :
              /\ Count(ok)
              /\ children' = IF ok THEN children + 1 ELSE children
              /\ issued' = IF ok THEN issued \cup {cur} ELSE issued
              /\ dropped' = (dropped \/ ~ok)
  /\ cur' = None /\ pc' = "merge"
  /\ UNCHANGED <<queue, limit, strategy, wanted>>

LastIssued ==
  /\ pc = "merge" /\ queue = <<>> /\ cur = None
  /\ pc' = "finish"
  /\ UNCHANGED <<queue, cur, limit, procs, children, history>>

Return ==
  /\ pc = "finish" /\ Waited /\ pc' = "idle"
  /\ UNCHANGED <<queue, cur, limit, children, history>>

ChildExits ==
  /\ children > 0 /\ children' = children - 1
  /\ UNCHANGED <<pc, queue, cur, limit, procs, history>>

Step == MergeNext \/ TakeNext \/ Issue \/ MakeRoom \/ Fork \/ LastIssued \/ Return

Next == Call \/ Step \/ ChildExits

Spec == Init /\ [][Next]_vars

\* The daemon runs and readahead(2) returns.
FairSpec == Spec /\ WF_vars(Step) /\ WF_vars(ChildExits)

-----------------------------------------------------------------------------
(* Properties.                                                             *)

\* The limit is kept: never more children than procs says, and never more of
\* them than maxprocs; and a call leaves no child behind, so that the next
\* prediction starts from none.
WithinLimit ==
  /\ children <= procs /\ procs <= limit
  /\ pc = "idle" => procs = 0 /\ children = 0

\* Merging asks for no byte of a file that no map of the prediction covers.
NothingUnwanted == Bytes(issued) \subseteq Bytes(wanted)

\* With the maps sorted by path, every byte of every map is read ahead, unless
\* a fork failed or a map lies within another: the request merged of the two then
\* ends where the inner one does (readahead.c:416).
Nested(S) ==
  \E r, q \in S : r # q /\ r.path = q.path /\ r.off <= q.off /\ End(q) <= End(r)

AllRead ==
  pc = "idle" /\ strategy = "path" /\ ~dropped /\ ~Nested(wanted)
    => Bytes(wanted) \subseteq Bytes(issued)

\* With the maps sorted by path no two requests touch: what could be one
\* readahead is one.
RequestsApart ==
  strategy = "path" =>
    \A r, q \in issued : r # q /\ r.path = q.path => End(r) < q.off \/ End(q) < r.off

\* Merging is right both ways: as much as may be, and nothing else.
MergesRight == TypeOK /\ NothingUnwanted /\ RequestsApart

\* A prediction always comes to its end.
Returns == pc # "idle" ~> pc = "idle"
=============================================================================
