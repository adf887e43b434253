-------------------------- MODULE Readahead_proofs --------------------------
(***************************************************************************)
(* For every prediction, every sorting, every value of maxprocs and every  *)
(* fork that fails: the limit on children, and what merging the maps makes *)
(* of them.                                                                *)
(***************************************************************************)
EXTENDS Readahead, FunctionTheorems, FiniteSetTheorems, TLAPS

-----------------------------------------------------------------------------
(* The children.                                                           *)

\* Stronger than the property: a fork comes only after room was made, and
\* a call only after the one before it waited for its children.
ChildrenInv ==
  /\ limit \in Nat /\ procs \in Nat /\ children \in Nat
  /\ WithinLimit
  /\ pc = "fork" => limit = 0 \/ procs < limit

LEMMA ChildrenInit == Init => ChildrenInv
  BY LimitsAssumption DEF Init, ChildrenInv, WithinLimit

LEMMA ChildrenStep == ChildrenInv /\ [Next]_vars => ChildrenInv'
<1> SUFFICES ASSUME ChildrenInv, [Next]_vars PROVE ChildrenInv'
    OBVIOUS
<1> USE DEF ChildrenInv, WithinLimit
<1>1. CASE Call
      BY <1>1, LimitsAssumption DEF Call
<1>2. CASE MergeNext
      BY <1>2 DEF MergeNext, history
<1>3. CASE TakeNext
      BY <1>3 DEF TakeNext, history
<1>4. CASE Issue
      BY <1>4 DEF Issue, history
<1>5. CASE MakeRoom
      \* limit > 0 or the room is not needed.
      BY <1>5 DEF MakeRoom, Waited, history
<1>6. CASE Fork
  <2>1. CASE limit = 0
        BY <1>6, <2>1 DEF Fork
  <2>2. CASE limit # 0
    <3>1. PICK ok \in ForkOutcomes :
            Count(ok) /\ children' = IF ok THEN children + 1 ELSE children
          BY <1>6, <2>2 DEF Fork
    <3>2. procs < limit /\ limit' = limit /\ pc' = "merge"
          BY <1>6, <2>2 DEF Fork
    <3> QED BY <3>1, <3>2 DEF Count
  <2> QED BY <2>1, <2>2
<1>7. CASE LastIssued
      BY <1>7 DEF LastIssued, history
<1>8. CASE Return
      \* With procs = 0 no child is left, as there are never more than procs.
      BY <1>8 DEF Return, Waited, history
<1>9. CASE ChildExits
      BY <1>9 DEF ChildExits, history
<1>10. CASE UNCHANGED vars
       BY <1>10 DEF vars
<1> QED BY <1>1, <1>2, <1>3, <1>4, <1>5, <1>6, <1>7, <1>8, <1>9, <1>10 DEF Next, Step

LEMMA ChildrenInvariant == Spec => []ChildrenInv
  BY ChildrenInit, ChildrenStep, PTL DEF Spec

\* There are never more children than maxprocs allows, nor than the daemon
\* believes (process_file counts before it forks), and none is left when
\* kp_readahead returns.
THEOREM LimitKept == Spec => []WithinLimit
<1>1. ChildrenInv => WithinLimit
      BY DEF ChildrenInv
<1> QED BY <1>1, ChildrenInvariant, PTL
-----------------------------------------------------------------------------
(* Sorting.                                                                *)

LEMMA SortedMaps ==
  ASSUME NEW S \in Calls, NEW how \in Strategies, NEW q \in Sorted(S, how)
  PROVE  /\ q \in Seq(S) /\ Range(q) = S
         /\ how = "path" => \A i, j \in 1..Len(q) : i < j => PathLess(q[i], q[j])
<1> DEFINE D == 1..Cardinality(S)
<1>1. q \in SetToSeqs(S)
      BY StrategiesAssumption DEF Sorted, SortedBy
<1>2. q \in [D -> S] /\ \A i, j \in D : i # j => q[i] # q[j]
      BY <1>1 DEF SetToSeqs
<1>3. IsFiniteSet(S) /\ Cardinality(S) \in Nat
      BY RegionsAssumption, FS_CardinalityType
<1>4. q \in Seq(S) /\ DOMAIN q = D /\ Len(q) = Cardinality(S)
      BY <1>2, <1>3
<1>5. Range(q) = S
  <2>1. q \in Injection(D, S)
        BY <1>2 DEF Injection, IsInjective
  <2>2. IsFiniteSet(D) /\ Cardinality(D) = Cardinality(S)
        BY <1>3, FS_Interval
  <2>3. q \in Surjection(D, S)
    <3> HIDE DEF D
    <3> QED
        BY <1>3, <2>1, <2>2, FS_Injection
  <2> QED
      BY <1>4, <2>3 DEF Surjection, Range
<1>6. how = "path" => \A i, j \in 1..Len(q) : i < j => PathLess(q[i], q[j])
      BY <1>4 DEF Sorted, SortedBy
<1> QED
    BY <1>4, <1>5, <1>6

LEMMA QueueParts ==
  ASSUME NEW S, NEW q \in Seq(S), q # <<>>
  PROVE  /\ Head(q) \in S /\ Tail(q) \in Seq(S)
         /\ Range(q) = {Head(q)} \cup Range(Tail(q))
         /\ Len(Tail(q)) = Len(q) - 1 /\ \A i \in 1..Len(Tail(q)) : Tail(q)[i] = q[i + 1]
<1>1. Head(q) = q[1] /\ Len(q) \in Nat /\ Len(q) > 0 /\ DOMAIN q = 1..Len(q)
      OBVIOUS
<1>2. /\ Tail(q) \in Seq(S) /\ Len(Tail(q)) = Len(q) - 1
      /\ \A i \in 1..Len(Tail(q)) : Tail(q)[i] = q[i + 1]
      OBVIOUS
<1>3. DOMAIN Tail(q) = 1..(Len(q) - 1)
      BY <1>2
<1>4. Range(Tail(q)) = {q[i + 1] : i \in 1..(Len(q) - 1)}
      BY <1>2, <1>3 DEF Range
<1>5. Range(q) = {Head(q)} \cup Range(Tail(q))
  <2>1. ASSUME NEW i \in 1..Len(q), i # 1 PROVE q[i] \in Range(Tail(q))
    <3>1. i - 1 \in 1..(Len(q) - 1) /\ (i - 1) + 1 = i
          BY <1>1, <2>1
    <3> QED
        BY <1>4, <3>1
  <2>2. Range(Tail(q)) \subseteq Range(q)
        BY <1>1, <1>4 DEF Range
  <2>3. Range(q) = {q[i] : i \in 1..Len(q)} /\ 1 \in 1..Len(q)
        BY <1>1 DEF Range
  <2> QED
      BY <1>1, <2>1, <2>2, <2>3
<1> QED
    BY <1>1, <1>2, <1>5

-----------------------------------------------------------------------------
(* Merging.                                                                *)

\* Stronger than the type: nothing is left of the maps before a call and at its
\* end, and a request is issued when the next map does not continue it.
MergeTyped ==
  /\ TypeOK
  /\ queue \in Seq(Regions)
  /\ wanted \in Calls \cup {{}}
  /\ issued \subseteq Requests
  /\ pc = "idle" => cur = None /\ queue = <<>>
  /\ pc \in {"room", "fork"} => ~Continues

LEMMA MergeTypedInit == Init => MergeTyped
<1> SUFFICES ASSUME Init PROVE MergeTyped
    OBVIOUS
<1>1. Range(queue) = {} /\ queue \in Seq(Regions)
      BY DEF Init, Range
<1>2. dropped \in BOOLEAN /\ procs \in Nat /\ children \in Nat
      BY DEF Init
<1> QED
    BY <1>1, <1>2 DEF Init, MergeTyped, TypeOK

LEMMA NoneIsNoRequest == None \notin Requests
  BY DEF None, Requests

LEMMA QueueTyped ==
  ASSUME MergeTyped, queue # <<>>
  PROVE  /\ Head(queue) \in Requests /\ Head(queue) \in wanted
         /\ Head(queue) # None
         /\ Tail(queue) \in Seq(Regions) /\ Range(Tail(queue)) \subseteq wanted
         /\ Range(queue) = {Head(queue)} \cup Range(Tail(queue))
<1>1. queue \in Seq(Regions) /\ Range(queue) \subseteq wanted
      BY DEF MergeTyped, TypeOK
<1>2. /\ Head(queue) \in Regions /\ Tail(queue) \in Seq(Regions)
      /\ Range(queue) = {Head(queue)} \cup Range(Tail(queue))
      BY <1>1, QueueParts
<1> QED
    BY <1>1, <1>2, RegionsAssumption, NoneIsNoRequest

\* The request that continues to the end of the next map.
LEMMA MergedRequest ==
  ASSUME MergeTyped, pc = "merge", Continues
  PROVE  LET merged == [cur EXCEPT !.len = End(Head(queue)) - cur.off]
         IN  /\ merged \in Requests /\ merged # None
             /\ merged.path = cur.path /\ merged.off = cur.off
             /\ End(merged) = End(Head(queue))
<1>1. cur \in Requests /\ queue # <<>> /\ cur.off <= Head(queue).off
      BY DEF MergeTyped, TypeOK, Continues, Touches
<1>2. PICK r \in Requests : r = cur
      BY <1>1
<1>3. PICK next \in Requests : next = Head(queue)
      BY <1>1, QueueTyped
<1> DEFINE len == End(next) - r.off
<1>4. len \in Nat \ {0} /\ r.off + len = End(next)
      BY <1>1, <1>2, <1>3 DEF End, Requests
<1>5. [r EXCEPT !.len = len] = [path |-> r.path, off |-> r.off, len |-> len]
      BY DEF Requests
<1> HIDE DEF len
<1>6. [r EXCEPT !.len = len] \in Requests
      BY <1>4, <1>5 DEF Requests
<1> QED
    BY <1>2, <1>3, <1>4, <1>5, <1>6, NoneIsNoRequest DEF len, End

LEMMA MergeTypedStep == MergeTyped /\ ChildrenInv /\ [Next]_vars => MergeTyped'
<1> SUFFICES ASSUME MergeTyped, ChildrenInv, [Next]_vars PROVE MergeTyped'
    OBVIOUS
<1>1. procs' \in Nat /\ children' \in Nat
      BY ChildrenStep DEF ChildrenInv
<1>2. CASE Call
  <2>1. /\ wanted' \in Calls /\ queue' \in Seq(wanted') /\ Range(queue') = wanted'
        BY <1>2, SortedMaps DEF Call
  <2>2. wanted' \subseteq Regions /\ queue' \in Seq(Regions)
        BY <2>1 DEF Regions
  <2>3. /\ pc' = "merge" /\ cur' = None /\ issued' = {} /\ dropped' = FALSE
        /\ strategy' \in Strategies /\ limit' \in Limits
        BY <1>2 DEF Call, MergeTyped
  <2> QED
      BY <1>1, <2>1, <2>2, <2>3 DEF MergeTyped, TypeOK
<1>3. CASE MergeNext
      BY <1>1, <1>3, MergedRequest, QueueTyped DEF MergeNext, MergeTyped, TypeOK, history, Continues
<1>4. CASE TakeNext
      BY <1>1, <1>4, QueueTyped DEF TakeNext, MergeTyped, TypeOK, history
<1>5. CASE Issue
      BY <1>1, <1>5 DEF Issue, MergeTyped, TypeOK, history, Continues
<1>6. CASE MakeRoom
      BY <1>1, <1>6 DEF MakeRoom, MergeTyped, TypeOK, history, Continues
<1>7. CASE Fork
  <2>1. /\ cur' = None /\ pc' = "merge" /\ UNCHANGED <<queue, limit, strategy, wanted>>
        /\ issued' \in {issued, issued \cup {cur}}
        BY <1>7 DEF Fork
  <2>2. dropped' \in BOOLEAN
        BY <1>7, OutcomesAssumption DEF Fork, MergeTyped, TypeOK
  <2>3. issued' \subseteq Requests
        BY <1>7, <2>1 DEF Fork, MergeTyped, TypeOK
  <2> QED
      BY <1>1, <2>1, <2>2, <2>3 DEF MergeTyped, TypeOK
<1>8. CASE LastIssued
      BY <1>1, <1>8 DEF LastIssued, MergeTyped, TypeOK, history
<1>9. CASE Return
      BY <1>1, <1>9 DEF Return, MergeTyped, TypeOK, history
<1>10. CASE ChildExits
      BY <1>1, <1>10 DEF ChildExits, MergeTyped, TypeOK, history, Continues
<1>11. CASE UNCHANGED vars
      BY <1>1, <1>11 DEF vars, MergeTyped, TypeOK, Continues
<1> QED
    BY <1>2, <1>3, <1>4, <1>5, <1>6, <1>7, <1>8, <1>9, <1>10, <1>11 DEF Next, Step
-----------------------------------------------------------------------------
(* The bytes read ahead.                                                   *)

LEMMA BytesUnion ==
  ASSUME NEW S, NEW T
  PROVE  Bytes(S \cup T) = Bytes(S) \cup Bytes(T)
  BY DEF Bytes

LEMMA BytesOfPart ==
  ASSUME NEW S, NEW T, S \subseteq T
  PROVE  Bytes(S) \subseteq Bytes(T)
  BY DEF Bytes

LEMMA BytesOfOne ==
  ASSUME NEW r
  PROVE  Bytes({r}) = {<<r.path, i>> : i \in r.off..(End(r) - 1)}
  BY DEF Bytes

LEMMA NoBytes == Bytes({None}) = {} /\ Bytes({}) = {}
  BY BytesOfOne DEF None, End, Bytes

\* A request and the map it continues to have the bytes of the two, as long as the
\* map does not end before it.
LEMMA MergedBytes ==
  ASSUME NEW r \in Requests, NEW next \in Requests, NEW merged \in Requests,
         r.path = next.path, r.off <= next.off, End(r) >= next.off,
         merged.path = r.path, merged.off = r.off, End(merged) = End(next)
  PROVE  /\ Bytes({merged}) \subseteq Bytes({r}) \cup Bytes({next})
         /\ End(r) <= End(next) => Bytes({r}) \cup Bytes({next}) \subseteq Bytes({merged})
<1>1. /\ r.off \in Nat /\ next.off \in Nat
      /\ End(r) \in Nat /\ End(next) \in Nat
      BY DEF Requests, End
<1>2. ASSUME NEW i \in merged.off..(End(merged) - 1)
      PROVE  i \in r.off..(End(r) - 1) \/ i \in next.off..(End(next) - 1)
      BY <1>1
<1>3. ASSUME End(r) <= End(next), NEW i \in Int,
             i \in r.off..(End(r) - 1) \/ i \in next.off..(End(next) - 1)
      PROVE  i \in merged.off..(End(merged) - 1)
      BY <1>1, <1>3
<1>4. r.off..(End(r) - 1) \subseteq Int /\ next.off..(End(next) - 1) \subseteq Int
      BY <1>1
<1>5. Bytes({merged}) \subseteq Bytes({r}) \cup Bytes({next})
      BY <1>2, BytesOfOne
<1>6. ASSUME End(r) <= End(next)
      PROVE  Bytes({r}) \cup Bytes({next}) \subseteq Bytes({merged})
      BY <1>3, <1>4, <1>6, BytesOfOne
<1> QED
    BY <1>5, <1>6

LEMMA MergingBytes ==
  ASSUME MergeTyped, MergeNext
  PROVE  LET next == Head(queue)
         IN  /\ queue # <<>> /\ next \in Requests /\ next \in wanted /\ next.path = cur.path
             /\ cur \in Requests /\ cur' \in Requests /\ cur' # None
             /\ cur'.path = cur.path /\ cur'.off = cur.off /\ cur.off <= next.off
             /\ End(cur') = End(next)
             /\ Bytes({cur'}) \subseteq Bytes({cur}) \cup Bytes({next})
             /\ End(cur) <= End(next) => Bytes({cur}) \cup Bytes({next}) \subseteq Bytes({cur'})
<1>1. /\ pc = "merge" /\ Continues /\ queue # <<>>
      /\ cur' = [cur EXCEPT !.len = End(Head(queue)) - cur.off]
      BY DEF MergeNext, Continues
<1>2. cur \in Requests
      BY <1>1 DEF Continues, Touches, MergeTyped, TypeOK
<1>3. Head(queue) \in Requests /\ Head(queue) \in wanted
      BY <1>1, QueueTyped
<1>4. /\ cur' \in Requests /\ cur' # None /\ cur'.path = cur.path /\ cur'.off = cur.off
      /\ End(cur') = End(Head(queue))
      BY <1>1, MergedRequest
<1>5. PICK r \in Requests, next \in Requests, merged \in Requests :
        r = cur /\ next = Head(queue) /\ merged = cur'
      BY <1>2, <1>3, <1>4
<1>6. r.path = next.path /\ r.off <= next.off /\ End(r) >= next.off
      BY <1>1, <1>5 DEF Continues, Touches
<1>7. /\ Bytes({merged}) \subseteq Bytes({r}) \cup Bytes({next})
      /\ End(r) <= End(next) => Bytes({r}) \cup Bytes({next}) \subseteq Bytes({merged})
  <2>1. merged.path = r.path /\ merged.off = r.off /\ End(merged) = End(next)
        BY <1>4, <1>5
  <2> QED
      BY <1>6, <2>1, MergedBytes
<1> QED
    BY <1>1, <1>2, <1>3, <1>4, <1>5, <1>6, <1>7

\* What is read, and the request being made, lie within what is wanted.
Covered == NothingUnwanted /\ Bytes({cur}) \subseteq Bytes(wanted)

LEMMA CoveredStep == MergeTyped /\ Covered /\ [Next]_vars => Covered'
<1> SUFFICES ASSUME MergeTyped, Covered, [Next]_vars PROVE Covered'
    OBVIOUS
<1> USE DEF Covered, NothingUnwanted
<1>1. ASSUME UNCHANGED <<cur, wanted, issued>> PROVE Covered'
      BY <1>1
<1>2. CASE Call
  <2>1. cur' = None /\ issued' = {}
        BY <1>2 DEF Call, MergeTyped
  <2> QED
      BY <2>1, NoBytes
<1>3. ASSUME queue # <<>> PROVE Bytes({Head(queue)}) \subseteq Bytes(wanted)
      BY <1>3, QueueTyped, BytesOfPart
<1>4. CASE MergeNext
      BY <1>3, <1>4, MergingBytes DEF MergeNext, history
<1>5. CASE TakeNext
      BY <1>3, <1>5 DEF TakeNext, history
<1>6. CASE Fork
  <2>1. /\ cur' = None /\ wanted' = wanted
        /\ issued' = issued \/ issued' = issued \cup {cur}
        BY <1>6 DEF Fork
  <2> QED
      BY <2>1, NoBytes, BytesUnion
<1> QED
    BY <1>1, <1>2, <1>4, <1>5, <1>6
       DEF Next, Step, Issue, MakeRoom, LastIssued, Return, ChildExits, vars, history

\* Every byte wanted has been read, is being asked for, or is still to come.
Coming ==
  strategy = "path" /\ ~dropped /\ ~Nested(wanted)
    => Bytes(wanted) \subseteq Bytes(issued) \cup Bytes({cur}) \cup Bytes(Range(queue))

-----------------------------------------------------------------------------
(* The order of the requests.                                              *)

Before(a, b) ==
  \/ Rank[a.path] < Rank[b.path]
  \/ a.path = b.path /\ End(a) < b.off

\* With the maps sorted by path: the request being made ends where the last map it
\* took ends, which is before all that are left; and those issued lie before it.
Ordered ==
  /\ \A i, j \in 1..Len(queue) : i < j => PathLess(queue[i], queue[j])
  /\ cur # None =>
       \E last \in wanted :
         /\ last.path = cur.path /\ last.off >= cur.off /\ End(last) = End(cur)
         /\ \A next \in Range(queue) : PathLess(last, next)
  /\ \A r \in issued :
       /\ cur # None => Before(r, cur)
       /\ \A next \in Range(queue) : Before(r, next)

LEMMA PathLessIsOrder ==
  ASSUME NEW a \in Requests, NEW b \in Requests, NEW c \in Requests
  PROVE  /\ PathLess(a, b) /\ PathLess(b, c) => PathLess(a, c)
         /\ ~PathLess(a, a)
         /\ Before(a, b) /\ PathLess(b, c) => Before(a, c)
<1>1. /\ Rank[a.path] \in Int /\ Rank[b.path] \in Int /\ Rank[c.path] \in Int
      /\ a.off \in Nat /\ b.off \in Nat /\ c.off \in Nat
      /\ a.len \in Nat /\ b.len \in Nat /\ c.len \in Nat
      BY RegionsAssumption DEF Requests
<1> QED
    BY <1>1 DEF PathLess, Before, End
LEMMA HeadFirst ==
  ASSUME MergeTyped, Ordered, queue # <<>>
  PROVE  /\ \A next \in Range(Tail(queue)) : PathLess(Head(queue), next)
         /\ \A i, j \in 1..Len(Tail(queue)) : i < j => PathLess(Tail(queue)[i], Tail(queue)[j])
<1>1. queue \in Seq(Regions)
      BY DEF MergeTyped
<1>2. /\ Len(Tail(queue)) = Len(queue) - 1 /\ Tail(queue) \in Seq(Regions)
      /\ \A i \in 1..Len(Tail(queue)) : Tail(queue)[i] = queue[i + 1]
      BY <1>1, QueueParts
<1>3. Head(queue) = queue[1] /\ Len(queue) \in Nat
      BY <1>1
<1>4. ASSUME NEW i \in 1..Len(Tail(queue))
      PROVE  i + 1 \in 1..Len(queue) /\ 1 \in 1..Len(queue) /\ 1 < i + 1
      BY <1>2, <1>3
<1>5. ASSUME NEW next \in Range(Tail(queue)) PROVE PathLess(Head(queue), next)
  <2>1. PICK i \in 1..Len(Tail(queue)) : next = Tail(queue)[i]
        BY <1>2 DEF Range
  <2> QED
      BY <1>2, <1>3, <1>4, <2>1 DEF Ordered
<1>6. ASSUME NEW i \in 1..Len(Tail(queue)), NEW j \in 1..Len(Tail(queue)), i < j
      PROVE  PathLess(Tail(queue)[i], Tail(queue)[j])
  <2>1. i + 1 < j + 1
        BY <1>2, <1>3, <1>6
  <2> QED
      BY <1>2, <1>4, <2>1 DEF Ordered
<1> QED
    BY <1>5, <1>6

LEMMA QueuedAreRequests ==
  ASSUME MergeTyped
  PROVE  Range(queue) \subseteq Requests /\ wanted \subseteq Requests
  BY RegionsAssumption DEF MergeTyped, TypeOK

\* A request that the next map does not continue lies before all maps left.
LEMMA IssuedBefore ==
  ASSUME MergeTyped, Ordered, cur # None, ~Continues
  PROVE  \A next \in Range(queue) : Before(cur, next)
<1> SUFFICES ASSUME NEW next \in Range(queue) PROVE Before(cur, next)
    OBVIOUS
<1>1. queue # <<>>
  <2> SUFFICES ASSUME queue = <<>> PROVE FALSE
      OBVIOUS
  <2> QED
      BY DEF Range
<1>2. PICK last \in wanted :
        /\ last.path = cur.path /\ last.off >= cur.off /\ End(last) = End(cur)
        /\ \A map \in Range(queue) : PathLess(last, map)
      BY DEF Ordered
<1>3. PICK r \in Requests, head \in Requests, m \in Requests, n \in Requests :
        r = cur /\ head = Head(queue) /\ m = last /\ n = next
      BY <1>1, QueueTyped, QueuedAreRequests DEF MergeTyped, TypeOK
<1>4. head \in Range(queue) /\ PathLess(m, head)
      BY <1>1, <1>2, <1>3, QueueTyped
<1>5. ~(r.path = head.path /\ r.off <= head.off /\ End(r) >= head.off)
      BY <1>1, <1>3 DEF Continues, Touches
<1>6. Before(r, head)
  <2>1. /\ Rank[m.path] \in Int /\ Rank[head.path] \in Int
        /\ r.off \in Nat /\ m.off \in Nat /\ head.off \in Nat
        /\ End(r) \in Nat
        BY RegionsAssumption DEF Requests, End
  <2>2. m.path = r.path /\ m.off >= r.off
        BY <1>2, <1>3
  <2>3. CASE r.path = head.path
    <3>1. ~(Rank[m.path] < Rank[head.path])
          BY <2>1, <2>2, <2>3
    <3>2. m.off <= head.off
          BY <1>4, <2>1, <3>1 DEF PathLess
    <3>3. End(r) < head.off
          BY <1>5, <2>1, <2>2, <2>3, <3>2
    <3> QED
        BY <2>3, <3>3 DEF Before
  <2>4. CASE r.path # head.path
        BY <1>4, <2>2, <2>4 DEF PathLess, Before
  <2> QED
      BY <2>3, <2>4
<1>7. n = head \/ PathLess(head, n)
  <2>1. next = Head(queue) \/ next \in Range(Tail(queue))
        BY <1>1, QueueTyped
  <2> QED
      BY <1>1, <1>3, <2>1, HeadFirst
<1>8. Before(r, n)
      BY <1>6, <1>7, PathLessIsOrder
<1> QED
    BY <1>3, <1>8

InOrder == strategy = "path" => Ordered

LEMMA InOrderStep ==
  MergeTyped /\ InOrder /\ RequestsApart /\ [Next]_vars => InOrder' /\ RequestsApart'
<1> SUFFICES ASSUME MergeTyped, InOrder, RequestsApart, [Next]_vars
             PROVE  InOrder' /\ RequestsApart'
    OBVIOUS
<1>1. ASSUME UNCHANGED <<queue, cur, strategy, wanted, issued>>
      PROVE  InOrder' /\ RequestsApart'
      BY <1>1 DEF InOrder, Ordered, RequestsApart
<1>2. CASE Call
  <2>1. /\ cur' = None /\ issued' = {} /\ strategy' \in Strategies
        /\ wanted' \in Calls /\ queue' \in Sorted(wanted', strategy')
        BY <1>2 DEF Call, MergeTyped
  <2>2. strategy' = "path" =>
          \A i, j \in 1..Len(queue') : i < j => PathLess(queue'[i], queue'[j])
        BY <2>1, SortedMaps
  <2> QED
      BY <2>1, <2>2 DEF InOrder, Ordered, RequestsApart
<1> SUFFICES ASSUME strategy = "path", ~Call, strategy' = strategy, Ordered
             PROVE  Ordered' /\ RequestsApart'
  <2>1. ~Call => strategy' = strategy
        BY DEF Next, Step, MergeNext, TakeNext, Issue, MakeRoom, Fork, LastIssued, Return,
               ChildExits, vars, history
  <2> QED
      BY <1>2, <2>1 DEF InOrder, RequestsApart
<1>3. CASE MergeNext
  <2>1. queue' = Tail(queue) /\ UNCHANGED <<wanted, issued>>
        BY <1>3 DEF MergeNext, history
  <2>2. /\ queue # <<>> /\ Head(queue) \in wanted /\ Head(queue) \in Requests
        /\ cur \in Requests /\ cur'.path = cur.path /\ cur'.off = cur.off
        /\ Head(queue).path = cur.path /\ cur.off <= Head(queue).off
        /\ End(cur') = End(Head(queue))
        BY <1>3, MergingBytes
  <2>3. Head(queue).off >= cur'.off
        BY <2>2 DEF Requests
  <2>4. \A next \in Range(queue') : next \in Range(queue) /\ PathLess(Head(queue), next)
        BY <2>1, <2>2, QueueTyped, HeadFirst
  <2>5. \A i, j \in 1..Len(queue') : i < j => PathLess(queue'[i], queue'[j])
        BY <2>1, <2>2, HeadFirst
  <2>6. \A r \in issued : Before(r, cur')
        BY <2>2, NoneIsNoRequest DEF Ordered, Before
  <2>7. Ordered'
    <3>1. \E last \in wanted' :
            /\ last.path = cur'.path /\ last.off >= cur'.off /\ End(last) = End(cur')
            /\ \A next \in Range(queue') : PathLess(last, next)
          BY <2>1, <2>2, <2>3, <2>4
    <3> QED
        BY <2>1, <2>4, <2>5, <2>6, <3>1 DEF Ordered
  <2> QED
      BY <2>1, <2>7 DEF RequestsApart
<1>4. CASE TakeNext
  <2>1. /\ queue # <<>> /\ queue' = Tail(queue) /\ cur' = Head(queue) /\ UNCHANGED <<wanted, issued>>
        BY <1>4 DEF TakeNext, history
  <2>2. Head(queue) \in wanted /\ Head(queue) \in Requests /\ Head(queue) \in Range(queue)
        BY <2>1, QueueTyped
  <2>3. \A next \in Range(queue') : next \in Range(queue) /\ PathLess(Head(queue), next)
        BY <2>1, QueueTyped, HeadFirst
  <2>4. \A i, j \in 1..Len(queue') : i < j => PathLess(queue'[i], queue'[j])
        BY <2>1, HeadFirst
  <2>5. Ordered'
    <3>1. \E last \in wanted' :
            /\ last.path = cur'.path /\ last.off >= cur'.off /\ End(last) = End(cur')
            /\ \A next \in Range(queue') : PathLess(last, next)
      <4>1. Head(queue).off >= Head(queue).off
            BY <2>2 DEF Requests
      <4> QED
          BY <2>1, <2>2, <2>3, <4>1
    <3> QED
        BY <2>1, <2>2, <2>3, <2>4, <3>1 DEF Ordered
  <2> QED
      BY <2>1, <2>5 DEF RequestsApart
<1>5. CASE Fork
  <2>1. /\ pc = "fork" /\ cur' = None /\ UNCHANGED <<queue, wanted>>
        /\ issued' \subseteq issued \cup {cur}
        BY <1>5 DEF Fork
  <2>2. cur # None /\ ~Continues /\ cur \in Requests
        BY <2>1 DEF MergeTyped, TypeOK
  <2>3. \A r \in issued' : \A next \in Range(queue) : Before(r, next)
        BY <2>1, <2>2, IssuedBefore DEF Ordered
  <2>4. Ordered'
        BY <2>1, <2>3 DEF Ordered
  <2>5. ASSUME NEW r \in issued PROVE r.path = cur.path => End(r) < cur.off
    <3>1. Before(r, cur)
          BY <2>2 DEF Ordered
    <3>2. Rank[cur.path] \in Int
          BY <2>2, RegionsAssumption DEF Requests
    <3> QED
        BY <3>1, <3>2 DEF Before
  <2>6. RequestsApart'
        BY <2>1, <2>5 DEF RequestsApart
  <2> QED
      BY <2>4, <2>6
<1> QED
    BY <1>1, <1>3, <1>4, <1>5
       DEF InOrder, Next, Step, Issue, MakeRoom, LastIssued, Return, ChildExits, vars, history

LEMMA ComingStep == MergeTyped /\ InOrder /\ Coming /\ [Next]_vars => Coming'
<1> SUFFICES ASSUME MergeTyped, InOrder, Coming, [Next]_vars PROVE Coming'
    OBVIOUS
<1>1. ASSUME UNCHANGED <<queue, cur, strategy, wanted, issued, dropped>> PROVE Coming'
      BY <1>1 DEF Coming
<1>2. CASE Call
  <2>1. wanted' \in Calls /\ strategy' \in Strategies /\ queue' \in Sorted(wanted', strategy')
        BY <1>2 DEF Call
  <2> QED
      BY <2>1, SortedMaps DEF Coming
<1>3. CASE MergeNext
  <2> SUFFICES ASSUME strategy = "path", ~dropped, ~Nested(wanted)
               PROVE  Coming'
      BY <1>3 DEF Coming, MergeNext, history
  <2>1. queue' = Tail(queue) /\ UNCHANGED <<wanted, issued, strategy, dropped>>
        BY <1>3 DEF MergeNext, history
  <2> DEFINE next == Head(queue)
  <2>2. /\ queue # <<>> /\ next \in wanted /\ next \in Requests /\ next.path = cur.path
        /\ cur \in Requests
        /\ End(cur) <= End(next) => Bytes({cur}) \cup Bytes({next}) \subseteq Bytes({cur'})
        BY <1>3, MergingBytes
  <2>3. Range(queue) = {next} \cup Range(Tail(queue))
        BY <2>2, QueueTyped
  <2>4. PICK last \in wanted :
          /\ last.path = cur.path /\ End(last) = End(cur)
          /\ \A map \in Range(queue) : PathLess(last, map)
        BY <2>2, NoneIsNoRequest DEF InOrder, Ordered
  <2>5. last \in Requests
        BY QueuedAreRequests
  <2>6. End(cur) <= End(next)
    <3>1. PathLess(last, next) /\ last.path = next.path
          BY <2>2, <2>3, <2>4
    <3>2. last # next /\ last.off <= next.off
      <4>1. Rank[last.path] \in Int /\ last.off \in Nat /\ next.off \in Nat /\ next.len \in Nat
            BY <2>2, <2>5, RegionsAssumption DEF Requests
      <4> QED
          BY <3>1, <4>1 DEF PathLess
    <3>3. ~(End(next) <= End(last))
          BY <2>2, <3>1, <3>2 DEF Nested
    <3>4. End(next) \in Nat /\ End(last) \in Nat
          BY <2>2, <2>5 DEF Requests, End
    <3> QED
        BY <2>4, <3>3, <3>4
  <2>7. Bytes(wanted) \subseteq Bytes(issued) \cup Bytes({cur}) \cup Bytes(Range(queue))
        BY DEF Coming
  <2>8. Bytes(Range(queue)) = Bytes({next}) \cup Bytes(Range(queue'))
        BY <2>1, <2>3, BytesUnion
  <2> QED
      BY <2>1, <2>2, <2>6, <2>7, <2>8 DEF Coming
<1>4. CASE TakeNext
  <2>1. /\ queue # <<>> /\ cur = None /\ cur' = Head(queue) /\ queue' = Tail(queue)
        /\ UNCHANGED <<wanted, issued, strategy, dropped>>
        BY <1>4 DEF TakeNext, history
  <2>2. Bytes(Range(queue)) = Bytes({cur'}) \cup Bytes(Range(queue'))
        BY <2>1, QueueTyped, BytesUnion
  <2> QED
      BY <2>1, <2>2, NoBytes DEF Coming
<1>5. CASE Fork
  <2>1. /\ cur' = None /\ UNCHANGED <<queue, strategy, wanted>>
        /\ (issued' = issued \cup {cur} /\ dropped' = dropped) \/ dropped' = TRUE
    <3>1. dropped \in BOOLEAN
          BY DEF MergeTyped, TypeOK
    <3>2. CASE limit = 0
          BY <1>5, <3>2 DEF Fork
    <3>3. CASE limit # 0
      <4>1. PICK ok \in ForkOutcomes :
              /\ issued' = IF ok THEN issued \cup {cur} ELSE issued
              /\ dropped' = (dropped \/ ~ok)
            BY <1>5, <3>3 DEF Fork
      <4>2. ok \in BOOLEAN
            BY OutcomesAssumption
      <4> QED
          BY <1>5, <3>1, <4>1, <4>2 DEF Fork
    <3> QED
        BY <3>2, <3>3
  <2>2. Bytes(issued \cup {cur}) = Bytes(issued) \cup Bytes({cur})
        BY BytesUnion
  <2> QED
      BY <2>1, <2>2, NoBytes DEF Coming
<1> QED
    BY <1>1, <1>2, <1>3, <1>4, <1>5
       DEF Next, Step, Issue, MakeRoom, LastIssued, Return, ChildExits, vars, history

-----------------------------------------------------------------------------
MergeInv ==
  ChildrenInv /\ MergeTyped /\ Covered /\ InOrder /\ RequestsApart /\ Coming

LEMMA MergeInvariant == Spec => []MergeInv
<1>1. Init => MergeInv
  <2> SUFFICES ASSUME Init PROVE Covered /\ InOrder /\ RequestsApart /\ Coming
      BY ChildrenInit, MergeTypedInit DEF MergeInv
  <2>1. /\ queue = <<>> /\ cur = None /\ wanted = {} /\ issued = {}
        BY DEF Init
  <2>2. Range(queue) = {} /\ Len(queue) = 0
        BY <2>1 DEF Range
  <2>3. Covered /\ Coming
        BY <2>1, NoBytes DEF Covered, NothingUnwanted, Coming
  <2>4. InOrder /\ RequestsApart
        BY <2>1, <2>2 DEF InOrder, Ordered, RequestsApart
  <2> QED
      BY <2>3, <2>4
<1>2. MergeInv /\ [Next]_vars => MergeInv'
      BY ChildrenStep, MergeTypedStep, CoveredStep, InOrderStep, ComingStep DEF MergeInv
<1> QED
    BY <1>1, <1>2, PTL DEF Spec

\* Whatever the maps, their order and the forks that fail: merging them asks for no
\* byte that no map has; and when they are sorted by path, it asks for nothing in two
\* requests that could have been one.
THEOREM Merged == Spec => []MergesRight
<1>1. MergeInv => MergesRight
      BY DEF MergeInv, MergeTyped, Covered, MergesRight
<1> QED
    BY <1>1, MergeInvariant, PTL

\* With the maps sorted by path, none within another and no fork failing, a call
\* has read every byte of every map when it returns.
THEOREM ReadToTheEnd == Spec => []AllRead
<1>1. MergeInv => AllRead
  <2> SUFFICES ASSUME MergeInv, pc = "idle", strategy = "path", ~dropped, ~Nested(wanted)
               PROVE  Bytes(wanted) \subseteq Bytes(issued)
      BY DEF AllRead
  <2>1. cur = None /\ queue = <<>>
        BY DEF MergeInv, MergeTyped
  <2>2. Range(queue) = {}
        BY <2>1 DEF Range
  <2> QED
      BY <2>1, <2>2, NoBytes DEF MergeInv, Coming
<1> QED
    BY <1>1, MergeInvariant, PTL
=============================================================================
