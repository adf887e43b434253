------------------------- MODULE MapRegistry_proofs -------------------------
(***************************************************************************)
(* Theorems about MapRegistry, for any executables, regions and files.     *)
(***************************************************************************)
EXTENDS MapRegistry, SumLemmas

\* What one exemap more or less is: a counter for each map object.
Counts == [Maps -> Nat]

-----------------------------------------------------------------------------
(* The operators.                                                          *)

\* kp_map_new: if there is room for an object of region r, the next one has a number,
\* and is neither referenced nor in the array.
LEMMA NewIsFresh ==
  ASSUME NEW r, Fresh(r) # {}
  PROVE  /\ Number(r) \in 1..Copies
         /\ New(r) \notin Live /\ New(r) \notin arr
<1>1. Fresh(r) \in SUBSET Nat /\ Fresh(r) # {}
      BY DEF Fresh
<1>2. PICK least \in Fresh(r) : \A i \in Fresh(r) : least <= i
      BY <1>1, LeastNumber
<1>3. Number(r) \in Fresh(r)
      BY <1>2 DEF Number
<1>4. /\ Number(r) \in 1..Copies
      /\ \A m \in Live \cup arr : m[1] = r => m[2] < Number(r)
      BY <1>3 DEF Fresh
<1>5. New(r)[1] = r /\ New(r)[2] = Number(r)
      BY DEF New
<1> QED
    BY <1>4, <1>5

\* Of the objects of one region, at most one is the eldest, and there is one.
LEMMA EldestOfRegion ==
  ASSUME NEW M \in SUBSET Maps
  PROVE  /\ Eldest(M) \subseteq M
         /\ \A m, n \in Eldest(M) : m[1] = n[1] => m = n
         /\ \A m \in M : \E n \in Eldest(M) : n[1] = m[1]
<1>1. \A m \in M : m = <<m[1], m[2]>> /\ m[2] \in Nat
      BY DEF Maps
<1>2. ASSUME NEW m \in M PROVE \E n \in Eldest(M) : n[1] = m[1]
  <2> DEFINE numbers == {i \in Nat : <<m[1], i>> \in M}
  <2>1. numbers \in SUBSET Nat /\ numbers # {}
        BY <1>1
  <2>2. PICK least \in numbers : \A i \in numbers : least <= i
    <3> HIDE DEF numbers
    <3> QED
        BY <2>1, LeastNumber
  <2>3. <<m[1], least>> \in M
        OBVIOUS
  <2>4. ASSUME NEW n \in M, n[1] = m[1] PROVE least <= n[2]
        BY <1>1, <2>2, <2>4
  <2> QED
      BY <2>3, <2>4 DEF Eldest
<1>3. ASSUME NEW m \in Eldest(M), NEW n \in Eldest(M), m[1] = n[1] PROVE m = n
  <2>1. m \in M /\ n \in M /\ m[2] <= n[2] /\ n[2] <= m[2]
        BY <1>3 DEF Eldest
  <2> QED
      BY <1>1, <1>3, <2>1
<1> QED
    BY <1>2, <1>3 DEF Eldest

\* How the exemaps of one executable change what is counted for a map object.
LEMMA UsersChange ==
  ASSUME TypeOK, NEW e \in Exes, NEW refs \in Counts,
         uses' = [uses EXCEPT ![e] = refs], NEW m \in Maps
  PROVE  SumFunction(Users(m)') = (SumFunction(Users(m)) - uses[e][m]) + refs[m]
<1> DEFINE f == Users(m)
           g == Users(m)'
<1>1. /\ f = [x \in Exes |-> uses[x][m]]
      /\ g = [x \in Exes |-> IF x = e THEN refs[m] ELSE uses[x][m]]
      BY DEF TypeOK, Users
<1>2. uses \in [Exes -> [Maps -> Nat]] /\ refs[m] \in Int
      BY DEF TypeOK, Counts
<1>3. \A x \in Exes : f[x] \in Int /\ g[x] \in Int
      BY <1>1, <1>2
<1>4. /\ \A x \in Exes \ {e} : f[x] = g[x]
      /\ f[e] = uses[e][m] /\ g[e] = refs[m]
      /\ DOMAIN f = Exes /\ DOMAIN g = Exes
      BY <1>1
<1>5. IsFiniteSet(Exes)
      BY RegistryAssumption
<1> HIDE DEF f, g
<1>6. SumFunctionOnSet(g, Exes) = (SumFunctionOnSet(f, Exes) - f[e]) + g[e]
      BY <1>3, <1>4, <1>5, SumChange
<1> QED
    BY <1>4, <1>6 DEF f, g, SumFunction

\* The reference count of an object that is used by some is positive, and no
\* executable uses it more often than it counts.
LEMMA UsedIsCounted ==
  ASSUME TypeOK, RefsExact, NEW m \in Maps
  PROVE  /\ refcount[m] > 0 <=> \E e \in Exes : uses[e][m] > 0
         /\ \A e \in Exes : uses[e][m] <= refcount[m]
<1> DEFINE f == Users(m)
<1>1. IsFiniteSet(Exes)
      BY RegistryAssumption
<1>2. f = [x \in Exes |-> uses[x][m]] /\ DOMAIN f = Exes
      BY DEF Users
<1>3. \A x \in Exes : f[x] = uses[x][m] /\ f[x] \in Nat
      BY <1>2 DEF TypeOK
<1>4. refcount[m] = SumFunctionOnSet(f, Exes)
      BY <1>2 DEF RefsExact, SumFunction
<1> HIDE DEF f
<1>5. SumFunctionOnSet(f, Exes) > 0 <=> \E x \in Exes : f[x] > 0
      BY <1>1, <1>3, SumPositive
<1>6. \A e \in Exes : f[e] <= SumFunctionOnSet(f, Exes)
      BY <1>1, <1>3, SumPart
<1> QED
    BY <1>3, <1>4, <1>5, <1>6

-----------------------------------------------------------------------------
(* The counts.                                                             *)

\* Executables that are not known have no exemaps.
OnlyKnownUse == \A e \in Exes \ known : uses[e] = NoUses

CountInv == TypeOK /\ RefsExact /\ OnlyKnownUse

LEMMA ReferencedTyped ==
  ASSUME TypeOK, NEW refs \in Counts, Ref(refs)
  PROVE  /\ refcount' \in [Maps -> Nat] /\ arr' \subseteq Maps
         /\ DOMAIN table' \subseteq Regions
         /\ \A r \in DOMAIN table' : table'[r] \in Maps
<1> DEFINE new == Entering(refs)
<1>1. new \subseteq Maps /\ \A m \in Maps : m[1] \in Regions
      BY DEF Entering, Eldest, Maps
<1>2. /\ arr' = arr \cup new
      /\ table' = [r \in DOMAIN table \cup {m[1] : m \in new} |->
                     IF r \in DOMAIN table THEN table[r] ELSE CHOOSE m \in new : m[1] = r]
      BY DEF Ref, Registered
<1>3. refcount' \in [Maps -> Nat]
      BY DEF Ref, TypeOK, Counts
<1> HIDE DEF new
<1>4. ASSUME NEW r \in DOMAIN table' PROVE table'[r] \in Maps
  <2>1. CASE r \in DOMAIN table
        BY <1>2, <2>1 DEF TypeOK
  <2>2. CASE r \notin DOMAIN table
        BY <1>1, <1>2, <2>2
  <2> QED
      BY <2>1, <2>2
<1> QED
    BY <1>1, <1>2, <1>3, <1>4 DEF TypeOK

LEMMA UnreferencedTyped ==
  ASSUME TypeOK, NEW refs \in Counts, \A m \in Maps : refs[m] <= refcount[m], Unref(refs)
  PROVE  /\ refcount' \in [Maps -> Nat] /\ arr' \subseteq Maps
         /\ DOMAIN table' \subseteq Regions
         /\ \A r \in DOMAIN table' : table'[r] \in Maps
         /\ robbed' \subseteq Regions
<1>1. refcount' \in [Maps -> Nat]
      BY DEF Unref, TypeOK, Counts
<1>2. Leaving(refs) \subseteq Maps /\ \A m \in Maps : m[1] \in Regions
      BY DEF Leaving, Eldest, Maps
<1>3. robbed' \subseteq Regions
      BY <1>2 DEF Unref, TypeOK
<1> QED
    BY <1>1, <1>3 DEF Unref, Unregistered, TypeOK

\* An executable gets more exemaps.
LEMMA CountedMore ==
  ASSUME CountInv, NEW e \in Exes, NEW refs \in Counts, Ref(refs), NEW all \in Counts,
         \A m \in Maps : all[m] = uses[e][m] + refs[m],
         uses' = [uses EXCEPT ![e] = all], known' = known \cup {e},
         UNCHANGED <<closing, wild>>, doubled' \subseteq Regions, robbed' \subseteq Regions
  PROVE  CountInv'
<1>1. TypeOK /\ RefsExact /\ OnlyKnownUse
      BY DEF CountInv
<1>2. TypeOK'
  <2>1. uses' \in [Exes -> [Maps -> Nat]]
        BY <1>1 DEF TypeOK, Counts
  <2> QED
      BY <1>1, <2>1, ReferencedTyped DEF TypeOK
<1>3. ASSUME NEW m \in Maps PROVE refcount'[m] = SumFunction(Users(m)')
  <2>1. SumFunction(Users(m)') = (SumFunction(Users(m)) - uses[e][m]) + all[m]
        BY <1>1, UsersChange
  <2>2. refcount'[m] = refcount[m] + refs[m] /\ all[m] = uses[e][m] + refs[m]
        BY DEF Ref
  <2>3. /\ refcount[m] = SumFunction(Users(m)) /\ refcount[m] \in Nat /\ refs[m] \in Nat
        /\ uses[e][m] \in Nat
        BY <1>1 DEF RefsExact, TypeOK, Counts
  <2> QED
      BY <2>1, <2>2, <2>3
<1>4. OnlyKnownUse'
      BY <1>1 DEF OnlyKnownUse, NoUses, TypeOK, Maps
<1> QED
    BY <1>2, <1>3, <1>4 DEF CountInv, RefsExact

\* The objects that a discovery refers to, and those of a loading of files.
ShownRefs(shows) ==
  [m \in Maps |-> IF m[1] \in {r \in Mapped : shows[r] > 0} /\ m = Object(m[1])
                    THEN shows[m[1]] ELSE 0]
FileRefs(lists) ==
  [m \in Maps |-> IF lists[m[1]] > 0
                    THEN IF m \in Made(m[1], lists[m[1]]) THEN 1 ELSE 0 ELSE 0]
Together(e, refs) == [m \in Maps |-> uses[e][m] + refs[m]]

LEMMA RefsTyped ==
  /\ \A shows \in [Mapped -> 0..MaxShows] : ShownRefs(shows) \in Counts
  /\ \A lists : FileRefs(lists) \in Counts
<1>1. MaxShows \in Nat
      BY RegistryAssumption
<1> QED
    BY <1>1 DEF ShownRefs, FileRefs, Counts

LEMMA CountInit == Init => CountInv
<1> SUFFICES ASSUME Init PROVE CountInv
    OBVIOUS
<1>1. PICK held \in [known -> SUBSET Regions] :
        /\ uses = [e \in Exes |-> [m \in Maps |->
             IF e \in known /\ m[2] = 1 THEN IF m[1] \in held[e] THEN 1 ELSE 0 ELSE 0]]
        /\ LET read == UNION {held[e] : e \in known} IN
             /\ table = [r \in read |-> <<r, 1>>]
             /\ arr = {<<r, 1>> : r \in read}
             /\ refcount = [m \in Maps |->
                  IF m[2] = 1 THEN Cardinality({e \in known : m[1] \in held[e]}) ELSE 0]
      BY DEF Init
<1>2. known \subseteq Exes /\ IsFiniteSet(Exes) /\ Copies \in Nat \ {0}
      BY RegistryAssumption DEF Init
<1>3. UNION {held[e] : e \in known} \subseteq Regions
      OBVIOUS
<1>4. \A r \in Regions : <<r, 1>> \in Maps
      BY <1>2 DEF Maps
<1>5. ASSUME NEW m \in Maps
      PROVE  refcount[m] \in Nat /\ refcount[m] = SumFunction(Users(m))
  <2> DEFINE part == IF m[2] = 1 THEN {e \in known : m[1] \in held[e]} ELSE {}
             f == Users(m)
  <2>1. part \in SUBSET Exes
        BY <1>2
  <2>2. f = [x \in Exes |-> IF x \in part THEN 1 ELSE 0]
        BY <1>1 DEF Users
  <2>3. DOMAIN f = Exes /\ \A x \in Exes : f[x] = IF x \in part THEN 1 ELSE 0
        BY <2>2
  <2>4. refcount[m] = Cardinality(part)
        BY <1>1, FS_EmptySet
  <2>5. Cardinality(part) \in Nat
    <3> HIDE DEF part
    <3> QED
        BY <1>2, <2>1, FS_Subset, FS_CardinalityType
  <2> HIDE DEF part, f
  <2>6. SumFunctionOnSet(f, Exes) = Cardinality(part)
        BY <1>2, <2>1, <2>3, SumCount
  <2> QED
      BY <2>3, <2>4, <2>5, <2>6 DEF f, SumFunction
<1>6. TypeOK
  <2>1. uses \in [Exes -> [Maps -> Nat]]
        BY <1>1
  <2>2. refcount \in [Maps -> Nat]
        BY <1>1, <1>5
  <2>3. /\ DOMAIN table \subseteq Regions
        /\ \A r \in DOMAIN table : table[r] \in Maps
        /\ arr \subseteq Maps
        BY <1>1, <1>3, <1>4
  <2>4. closing \in BOOLEAN /\ wild \in BOOLEAN /\ doubled = {} /\ robbed = {}
        BY DEF Init
  <2> QED
      BY <1>2, <2>1, <2>2, <2>3, <2>4 DEF TypeOK
<1>7. OnlyKnownUse
      BY <1>1 DEF OnlyKnownUse, NoUses
<1> QED
    BY <1>5, <1>6, <1>7 DEF CountInv, RefsExact

LEMMA CountStep == CountInv /\ [Next]_vars => CountInv'
<1> SUFFICES ASSUME CountInv, [Next]_vars PROVE CountInv'
    OBVIOUS
<1>1. TypeOK /\ RefsExact /\ OnlyKnownUse
      BY DEF CountInv
<1>2. ASSUME UNCHANGED <<uses, refcount, table, arr, doubled, robbed>>, known \subseteq known',
             known' \subseteq Exes, closing' \in BOOLEAN, wild' \in BOOLEAN
      PROVE  CountInv'
      BY <1>1, <1>2 DEF CountInv, TypeOK, RefsExact, Users, OnlyKnownUse
<1>3. ASSUME NEW e \in Exes, NEW shows \in [Mapped -> 0..MaxShows], Discover(e, shows)
      PROVE  CountInv'
  <2>1. ShownRefs(shows) \in Counts
        BY RefsTyped
  <2>2. Ref(ShownRefs(shows)) /\ uses' = [uses EXCEPT ![e] = ShownRefs(shows)]
        BY <1>3 DEF Discover, ShownRefs
  <2>3. uses[e] = NoUses
        BY <1>1, <1>3 DEF Discover, OnlyKnownUse
  <2>4. \A m \in Maps : ShownRefs(shows)[m] = uses[e][m] + ShownRefs(shows)[m]
        BY <2>1, <2>3 DEF NoUses, Counts
  <2>5. /\ known' = known \cup {e} /\ UNCHANGED <<closing, wild>>
        /\ doubled' \subseteq Regions /\ robbed' \subseteq Regions
        BY <1>1, <1>3 DEF Discover, TypeOK
  <2> QED
      BY <2>1, <2>2, <2>4, <2>5, CountedMore
<1>4. ASSUME NEW e \in Exes, DiscoverLate(e)
      PROVE  CountInv'
      BY <1>1, <1>2, <1>4 DEF DiscoverLate, TypeOK
<1>5. ASSUME NEW e \in Exes, Register(e)
      PROVE  CountInv'
      BY <1>1, <1>2, <1>5 DEF Register, TypeOK
<1>6. ASSUME NEW e \in Exes, Free(e)
      PROVE  CountInv'
  <2>1. uses[e] \in Counts /\ NoUses \in Counts
        BY <1>1 DEF TypeOK, Counts, NoUses
  <2>2. \A m \in Maps : uses[e][m] <= refcount[m]
        BY <1>1, UsedIsCounted
  <2>3. TypeOK'
    <3>1. uses' \in [Exes -> [Maps -> Nat]]
          BY <1>1, <1>6, <2>1 DEF Free, TypeOK, Counts
    <3>2. Unref(uses[e])
          BY <1>6 DEF Free
    <3> QED
        BY <1>1, <1>6, <2>1, <2>2, <3>1, <3>2, UnreferencedTyped DEF Free, TypeOK
  <2>4. ASSUME NEW m \in Maps PROVE refcount'[m] = SumFunction(Users(m)')
    <3>1. SumFunction(Users(m)') = (SumFunction(Users(m)) - uses[e][m]) + NoUses[m]
          BY <1>1, <1>6, <2>1, UsersChange DEF Free
    <3>2. NoUses[m] = 0 /\ refcount'[m] = refcount[m] - uses[e][m]
          BY <1>6 DEF NoUses, Free, Unref
    <3>3. refcount[m] = SumFunction(Users(m)) /\ refcount[m] \in Nat /\ uses[e][m] \in Nat
          BY <1>1 DEF RefsExact, TypeOK
    <3> QED
        BY <3>1, <3>2, <3>3
  <2>5. OnlyKnownUse'
    <3>1. /\ uses' = [uses EXCEPT ![e] = NoUses] /\ known' = known \ {e}
          /\ \A x \in Exes \ known : uses[x] = NoUses
          /\ uses \in [Exes -> [Maps -> Nat]]
          BY <1>1, <1>6 DEF Free, OnlyKnownUse, TypeOK
    <3>2. ASSUME NEW x \in Exes \ known' PROVE uses'[x] = NoUses
          BY <3>1
    <3> QED
        BY <3>2 DEF OnlyKnownUse, NoUses, Maps
  <2> QED
      BY <2>3, <2>4, <2>5 DEF CountInv, RefsExact
<1>7. ASSUME NEW e \in Exes, NEW lists \in [Regions -> 0..MaxLists], LoadFiles(e, lists)
      PROVE  CountInv'
  <2> DEFINE all == Together(e, FileRefs(lists))
  <2>1. FileRefs(lists) \in Counts
        BY RefsTyped
  <2>2. Ref(FileRefs(lists)) /\ uses' = [uses EXCEPT ![e] = all]
        BY <1>7 DEF LoadFiles, FileRefs, Together
  <2>3. \A m \in Maps : all[m] = uses[e][m] + FileRefs(lists)[m]
        BY DEF Together
  <2>4. all \in Counts
        BY <1>1, <2>1 DEF Together, TypeOK, Counts
  <2>5. /\ known' = known \cup {e} /\ UNCHANGED <<closing, wild>>
        /\ doubled' \subseteq Regions /\ robbed' \subseteq Regions
        BY <1>1, <1>7 DEF LoadFiles, TypeOK
  <2> HIDE DEF all
  <2> QED
      BY <2>1, <2>2, <2>3, <2>4, <2>5, CountedMore
<1>8. CASE Close
      BY <1>1, <1>2, <1>8 DEF Close, TypeOK
<1>9. CASE UNCHANGED vars
      BY <1>1, <1>2, <1>9 DEF vars, TypeOK
<1> QED
    BY <1>3, <1>4, <1>5, <1>6, <1>7, <1>8, <1>9 DEF Next

\* kp_map_ref and kp_map_unref are called once for every exemap that comes or goes,
\* whatever objects the exemaps refer to (state_map.c:110, state_map.c:122).
THEOREM CountsExact == Spec => []RefsExact
<1>1. CountInv => RefsExact
      BY DEF CountInv
<1> QED
    BY <1>1, CountInit, CountStep, PTL DEF Spec

-----------------------------------------------------------------------------
(* The table, the array and the objects.                                   *)

\* What the table, the array and the objects say of one another.  An entry of the
\* table is an object in use that is in the array, whatever was loaded; an object in
\* use is the one in the table unless its region was loaded anew; an object in the
\* array is, unless the entry of its region went with another object.
Ledger ==
  /\ \A r \in DOMAIN table : table[r] \in Live \cap arr /\ table[r][1] = r
  /\ \A m \in Live : m[1] \notin doubled => m[1] \in DOMAIN table /\ table[m[1]] = m
  /\ \A m \in arr : m[1] \notin robbed => m[1] \in DOMAIN table /\ table[m[1]] = m
  /\ robbed \subseteq doubled

IInv == CountInv /\ Ledger

\* Objects are referenced; of a region not loaded anew, one that the table does not
\* have yet, or the one it has.
LEMMA LedgerReferenced ==
  ASSUME TypeOK, Ledger, NEW refs \in Counts, Ref(refs),
         doubled \subseteq doubled', UNCHANGED robbed,
         \A m \in Maps : refs[m] > 0 /\ Known(m) /\ m[1] \notin doubled' => m \in Live,
         \A m, n \in Maps : refs[m] > 0 /\ refs[n] > 0 /\ m[1] = n[1] /\ m[1] \notin doubled'
                              => m = n
  PROVE  Ledger'
<1> DEFINE all == {m \in Maps : refs[m] > 0 /\ refcount[m] = 0 /\ ~Known(m)}
           new == Entering(refs)
<1>1. /\ arr' = arr \cup new
      /\ table' = [r \in DOMAIN table \cup {m[1] : m \in new} |->
                     IF r \in DOMAIN table THEN table[r] ELSE CHOOSE m \in new : m[1] = r]
      /\ refcount' = [m \in Maps |-> refcount[m] + refs[m]]
      BY DEF Ref, Registered
<1>2. /\ \A m \in Maps : refcount[m] \in Nat /\ refs[m] \in Nat
      /\ DOMAIN table \subseteq Regions
      BY DEF TypeOK, Counts
<1>3. /\ new \subseteq all /\ \A m, n \in new : m[1] = n[1] => m = n
      /\ \A m \in all : \E n \in new : n[1] = m[1]
  <2>1. all \in SUBSET Maps /\ new = Eldest(all)
        BY DEF Entering
  <2> HIDE DEF all, new
  <2> QED
      BY <2>1, EldestOfRegion
<1>4. \A m \in all : m \in Maps /\ refs[m] > 0 /\ m[1] \notin DOMAIN table
      BY DEF Known
<1>5. \A m \in Maps : m \in Live' <=> m \in Live \/ refs[m] > 0
  <2>1. \A m \in Maps : refcount'[m] > 0 <=> refcount[m] > 0 \/ refs[m] > 0
        BY <1>1, <1>2
  <2> QED
      BY <2>1 DEF Live
<1>6. ASSUME NEW m \in Maps, refs[m] > 0, m \notin Live, m[1] \notin doubled'
      PROVE  m \in new
  <2>1. ~Known(m) /\ refcount[m] = 0
        BY <1>2, <1>6 DEF Live
  <2>2. m \in all
        BY <1>6, <2>1
  <2>3. PICK n \in new : n[1] = m[1]
        BY <1>3, <2>2
  <2>4. m = n
        BY <1>3, <1>4, <1>6, <2>3
  <2> QED
      BY <2>3, <2>4
<1>7. ASSUME NEW m \in new PROVE m[1] \in DOMAIN table' /\ table'[m[1]] = m
  <2>1. m[1] \notin DOMAIN table
        BY <1>3, <1>4
  <2>2. m[1] \in DOMAIN table' /\ table'[m[1]] = CHOOSE n \in new : n[1] = m[1]
        BY <1>1, <2>1
  <2> QED
      BY <1>3, <2>2
<1>8. \A r \in DOMAIN table : r \in DOMAIN table' /\ table'[r] = table[r]
      BY <1>1
<1>9. Live \subseteq Maps /\ Live' \subseteq Maps
      BY DEF Live
<1>10. \A r \in DOMAIN table' : r \in DOMAIN table \/ \E m \in new : m[1] = r
      BY <1>1
<1> HIDE DEF all, new
<1>11. ASSUME NEW r \in DOMAIN table' PROVE table'[r] \in Live' \cap arr' /\ table'[r][1] = r
  <2>1. CASE r \in DOMAIN table
        BY <1>1, <1>5, <1>8, <1>9, <2>1 DEF Ledger
  <2>2. CASE \E m \in new : m[1] = r
    <3>1. PICK m \in new : m[1] = r
          BY <2>2
    <3> QED
        BY <1>1, <1>3, <1>4, <1>5, <1>7, <3>1
  <2> QED
      BY <1>10, <2>1, <2>2
<1>12. ASSUME NEW m \in Live', m[1] \notin doubled'
       PROVE  m[1] \in DOMAIN table' /\ table'[m[1]] = m
  <2>1. CASE m \in Live
        BY <1>8, <1>12, <2>1 DEF Ledger
  <2>2. CASE m \notin Live
        BY <1>5, <1>6, <1>7, <1>9, <1>12, <2>2
  <2> QED
      BY <2>1, <2>2
<1>13. ASSUME NEW m \in arr', m[1] \notin robbed'
       PROVE  m[1] \in DOMAIN table' /\ table'[m[1]] = m
      BY <1>1, <1>7, <1>8, <1>13 DEF Ledger
<1> QED
    BY <1>11, <1>12, <1>13 DEF Ledger

\* References are dropped: what Unref takes out of the table is in use no longer, or
\* belongs to a region that robbed remembers.
LEMMA LedgerUnreferenced ==
  ASSUME TypeOK, Ledger, NEW refs \in Counts, Unref(refs), UNCHANGED doubled,
         \A m \in Maps : refs[m] <= refcount[m]
  PROVE  Ledger'
<1> DEFINE all == {m \in Maps : refs[m] > 0 /\ refcount[m] = refs[m] /\ Known(m)}
           old == Leaving(refs)
           gone == {m[1] : m \in old}
<1>1. /\ arr' = arr \ old
      /\ table' = [r \in DOMAIN table \ gone |-> table[r]]
      /\ refcount' = [m \in Maps |-> refcount[m] - refs[m]]
      /\ robbed' = robbed \cup {m[1] : m \in {n \in old : table[n[1]] # n}}
      BY DEF Unref, Unregistered
<1>2. \A m \in Maps : refcount[m] \in Nat /\ refs[m] \in Nat /\ refs[m] <= refcount[m]
      BY DEF TypeOK, Counts
<1>3. old \subseteq all /\ \A m \in all : \E n \in old : n[1] = m[1]
  <2>1. all \in SUBSET Maps /\ old = Eldest(all)
        BY DEF Leaving
  <2> HIDE DEF all, old
  <2> QED
      BY <2>1, EldestOfRegion
<1>4. /\ \A m \in all : m \in Live
      /\ Live \subseteq Maps
      BY <1>2 DEF Live
<1>5. \A m \in Maps : m \in Live' <=> m \in Live /\ ~(refs[m] > 0 /\ refcount[m] = refs[m])
  <2>1. \A m \in Maps : refcount'[m] > 0 <=>
          refcount[m] > 0 /\ ~(refs[m] > 0 /\ refcount[m] = refs[m])
        BY <1>1, <1>2
  <2> QED
      BY <2>1 DEF Live
<1>6. \A m \in all : m \notin Live'
      BY <1>5
<1>7. \A m \in Live : Known(m) /\ m[1] \notin gone => m \in Live'
  <2>1. \A m \in Live : Known(m) /\ m \notin Live' => m \in all
        BY <1>4, <1>5
  <2> HIDE DEF all, old
  <2> QED
      BY <1>3, <2>1
<1>8. Live' \subseteq Live
      BY <1>5 DEF Live
<1> HIDE DEF all, old
<1>9. ASSUME NEW r \in DOMAIN table' PROVE table'[r] \in Live' \cap arr' /\ table'[r][1] = r
  <2>1. r \in DOMAIN table /\ r \notin gone /\ table'[r] = table[r]
        BY <1>1
  <2>2. table[r] \in Live /\ table[r] \in arr /\ table[r][1] = r
        BY <2>1 DEF Ledger
  <2>3. table[r] \in Live'
        BY <1>7, <2>1, <2>2 DEF Known
  <2>4. table[r] \notin old
        BY <2>1, <2>2
  <2> QED
      BY <1>1, <2>1, <2>2, <2>3, <2>4
<1>10. ASSUME NEW m \in Live', m[1] \notin doubled'
       PROVE  m[1] \in DOMAIN table' /\ table'[m[1]] = m
  <2>1. m \in Live /\ m[1] \notin doubled
        BY <1>8, <1>10
  <2>2. m[1] \in DOMAIN table /\ table[m[1]] = m
        BY <2>1 DEF Ledger
  <2>3. ASSUME NEW n \in old, n[1] = m[1] PROVE FALSE
    <3>1. n \in Live /\ n \notin Live'
          BY <1>3, <1>4, <1>6, <2>3
    <3>2. table[n[1]] = n
          BY <2>1, <2>3, <3>1 DEF Ledger
    <3> QED
        BY <1>10, <2>2, <2>3, <3>1, <3>2
  <2> QED
      BY <1>1, <2>2, <2>3
<1>11. ASSUME NEW m \in arr', m[1] \notin robbed'
       PROVE  m[1] \in DOMAIN table' /\ table'[m[1]] = m
  <2>1. m \in arr /\ m \notin old /\ m[1] \notin robbed
        BY <1>1, <1>11
  <2>2. m[1] \in DOMAIN table /\ table[m[1]] = m
        BY <2>1 DEF Ledger
  <2>3. ASSUME NEW n \in old, n[1] = m[1] PROVE FALSE
    <3>1. table[n[1]] # n
          BY <2>1, <2>2, <2>3
    <3>2. n[1] \in robbed'
          BY <1>1, <2>3, <3>1
    <3> QED
        BY <1>11, <2>3, <3>2
  <2> QED
      BY <1>1, <2>2, <2>3
<1>12. robbed' \subseteq doubled'
  <2>1. \A n \in old : table[n[1]] # n => n[1] \in doubled
        BY <1>3, <1>4 DEF Ledger
  <2> QED
      BY <1>1, <2>1 DEF Ledger
<1> QED
    BY <1>9, <1>10, <1>11, <1>12 DEF Ledger

LEMMA IInvInit == Init => IInv
<1> SUFFICES ASSUME Init PROVE IInv
    OBVIOUS
<1>1. CountInv
      BY CountInit
<1>2. PICK held \in [known -> SUBSET Regions] :
        /\ uses = [e \in Exes |-> [m \in Maps |->
             IF e \in known /\ m[2] = 1 THEN IF m[1] \in held[e] THEN 1 ELSE 0 ELSE 0]]
        /\ LET read == UNION {held[e] : e \in known} IN
             /\ table = [r \in read |-> <<r, 1>>]
             /\ arr = {<<r, 1>> : r \in read}
      BY DEF Init
<1> DEFINE read == UNION {held[e] : e \in known}
<1>3. /\ known \subseteq Exes /\ Copies \in Nat \ {0} /\ read \subseteq Regions
      /\ doubled = {} /\ robbed = {}
      BY RegistryAssumption DEF Init
<1>4. table = [r \in read |-> <<r, 1>>] /\ arr = {<<r, 1>> : r \in read}
      BY <1>2
<1>5. ASSUME NEW m \in Maps PROVE m \in Live <=> m[2] = 1 /\ m[1] \in read
  <2>1. m \in Live <=> \E e \in Exes : uses[e][m] > 0
        BY <1>1, UsedIsCounted DEF CountInv, Live
  <2>2. \A e \in Exes : uses[e][m] > 0 <=> e \in known /\ m[2] = 1 /\ m[1] \in held[e]
        BY <1>2
  <2> QED
      BY <1>3, <2>1, <2>2
<1>6. \A r \in read : <<r, 1>> \in Maps
      BY <1>3 DEF Maps
<1>7. \A m \in Maps : m = <<m[1], m[2]>>
      BY DEF Maps
<1>8. Live \subseteq Maps
      BY DEF Live
<1> HIDE DEF read
<1>9. Ledger
      BY <1>3, <1>4, <1>5, <1>6, <1>7, <1>8 DEF Ledger
<1> QED
    BY <1>1, <1>9 DEF IInv

LEMMA IInvStep == IInv /\ [Next]_vars => IInv'
<1> SUFFICES ASSUME IInv, [Next]_vars PROVE IInv'
    OBVIOUS
<1>1. /\ TypeOK /\ RefsExact /\ OnlyKnownUse /\ Ledger
      /\ CountInv'
      BY CountStep DEF IInv, CountInv
<1>2. ASSUME UNCHANGED <<refcount, table, arr, doubled, robbed>> PROVE IInv'
      BY <1>1, <1>2 DEF IInv, Ledger, Live
<1>3. ASSUME NEW e \in Exes, NEW shows \in [Mapped -> 0..MaxShows], Discover(e, shows)
      PROVE  IInv'
  <2> DEFINE refs == ShownRefs(shows)
  <2>1. refs \in Counts
        BY RefsTyped
  <2>2. Ref(refs) /\ UNCHANGED <<doubled, robbed>>
        BY <1>3 DEF Discover, ShownRefs
  <2>3. \A m \in Maps : refs[m] > 0 => m = Object(m[1])
        BY DEF ShownRefs
  <2> HIDE DEF refs
  <2>4. \A m \in Maps : refs[m] > 0 /\ Known(m) => m \in Live
        BY <1>1, <2>3 DEF Object, Known, Ledger
  <2>5. \A m, n \in Maps : refs[m] > 0 /\ refs[n] > 0 /\ m[1] = n[1] => m = n
        BY <2>3
  <2>6. Ledger'
        BY <1>1, <2>1, <2>2, <2>4, <2>5, LedgerReferenced
  <2> QED
      BY <1>1, <2>6 DEF IInv
<1>4. ASSUME NEW e \in Exes, Free(e)
      PROVE  IInv'
  <2>1. uses[e] \in Counts
        BY <1>1 DEF TypeOK, Counts
  <2>2. \A m \in Maps : uses[e][m] <= refcount[m]
        BY <1>1, UsedIsCounted
  <2>3. Ledger'
        BY <1>1, <1>4, <2>1, <2>2, LedgerUnreferenced DEF Free
  <2> QED
      BY <1>1, <2>3 DEF IInv
<1>5. ASSUME NEW e \in Exes, NEW lists \in [Regions -> 0..MaxLists], LoadFiles(e, lists)
      PROVE  IInv'
  <2> DEFINE refs == FileRefs(lists)
  <2>1. refs \in Counts
        BY RefsTyped
  <2>2. Ref(refs) /\ UNCHANGED robbed
        BY <1>5 DEF LoadFiles, FileRefs
  <2>3. doubled' = doubled \cup {r \in Regions : \/ lists[r] > 1
                                                 \/ lists[r] > 0 /\ r \in DOMAIN table}
        BY <1>5 DEF LoadFiles
  <2>4. ASSUME NEW m \in Maps, refs[m] > 0, m[1] \notin doubled'
        PROVE  ~Known(m) /\ m = New(m[1])
    <3>1. m[1] \in Regions /\ lists[m[1]] > 0 /\ m \in Made(m[1], lists[m[1]])
          BY <2>4 DEF FileRefs, Maps
    <3>2. lists[m[1]] = 1 /\ m[1] \notin DOMAIN table
          BY <2>3, <2>4, <3>1, RegistryAssumption
    <3>3. Number(m[1]) \in Nat
          BY <1>5, <3>1, NewIsFresh DEF LoadFiles
    <3> QED
        BY <3>1, <3>2, <3>3 DEF Known, Made, New
  <2> HIDE DEF refs
  <2>5. \A m, n \in Maps : refs[m] > 0 /\ refs[n] > 0 /\ m[1] = n[1] /\ m[1] \notin doubled'
                             => m = n
        BY <2>4
  <2>6. doubled \subseteq doubled'
        BY <2>3
  <2>7. Ledger'
        BY <1>1, <2>1, <2>2, <2>4, <2>5, <2>6, LedgerReferenced
  <2> QED
      BY <1>1, <2>7 DEF IInv
<1>6. CASE UNCHANGED <<refcount, table, arr, doubled, robbed>>
      BY <1>2, <1>6
<1> QED
    BY <1>3, <1>4, <1>5, <1>6 DEF Next, DiscoverLate, Register, Close, vars

\* Whatever is discovered, loaded and freed in whatever order, however often a file is
\* loaded: the table has no freed object, and but for the regions loaded anew table,
\* array and users agree (state.h:246).
THEOREM TablesConsistent == Spec => []TablesAgree
<1>1. ASSUME IInv PROVE TablesAgree
  <2>1. TypeOK /\ RefsExact /\ Ledger
        BY <1>1 DEF IInv, CountInv
  <2>2. ArrayIsTable
        BY <2>1 DEF Ledger, ArrayIsTable
  <2>3. OneObjectPerRegion
        BY <2>1 DEF Ledger, OneObjectPerRegion
  <2>4. ASSUME NEW e \in Exes, NEW m \in Maps, uses[e][m] > 0 PROVE m \in Live
        BY <2>1, <2>4, UsedIsCounted DEF Live
  <2>5. UsedIsRegistered
        BY <2>1, <2>4 DEF UsedIsRegistered, Ledger, Known, TypeOK
  <2> QED
      BY <2>1, <2>2, <2>3, <2>5 DEF TablesAgree
<1> QED
    BY <1>1, IInvInit, IInvStep, PTL DEF Spec

\* When the executables have been freed, the table is empty, and the array has at most
\* objects of regions whose entry went with another: of the two assertions of
\* kp_state_free (state.c:325) the first always holds.
THEOREM NothingLeft == Spec => []FreeLeavesNothing
<1>1. ASSUME IInv PROVE FreeLeavesNothing
  <2>1. TypeOK /\ RefsExact /\ Ledger /\ OnlyKnownUse
        BY <1>1 DEF IInv, CountInv
  <2>2. ASSUME known = {}, NEW m \in Live PROVE FALSE
    <3>1. PICK e \in Exes : uses[e][m] > 0
          BY <2>1, UsedIsCounted DEF Live
    <3>2. uses[e] = NoUses /\ m \in Maps
          BY <2>1, <2>2 DEF OnlyKnownUse, Live
    <3> QED
        BY <3>1, <3>2 DEF NoUses
  <2>3. known = {} => DOMAIN table = {}
        BY <2>1, <2>2 DEF Ledger
  <2> QED
      BY <2>1, <2>3 DEF FreeLeavesNothing, Ledger
<1> QED
    BY <1>1, IInvInit, IInvStep, PTL DEF Spec

-----------------------------------------------------------------------------
(* The registry implements a set of the regions in use.                    *)

UsedBy(e) == {r \in Regions : \E m \in Maps : m[1] = r /\ uses[e][m] > 0}
Held == [e \in Exes |-> UsedBy(e)]
InArray == {m[1] : m \in arr}

LEMMA RegisteredIsUsed ==
  ASSUME IInv
  PROVE  InArray \ doubled = (UNION {Held[e] : e \in Exes}) \ doubled
<1>1. TypeOK /\ RefsExact /\ Ledger
      BY DEF IInv, CountInv
<1>2. \A m \in Maps : m \in Live <=> \E e \in Exes : uses[e][m] > 0
      BY <1>1, UsedIsCounted DEF Live
<1>3. \A m \in Maps : m[1] \notin doubled => (m \in Live <=> m \in arr)
      BY <1>1 DEF Ledger
<1>4. arr \subseteq Maps /\ \A m \in Maps : m[1] \in Regions
      BY <1>1 DEF TypeOK, Maps
<1> QED
    BY <1>2, <1>3, <1>4 DEF Held, UsedBy, InArray

\* An executable gets the references refs in addition.
LEMMA HeldMore ==
  ASSUME TypeOK, NEW e \in Exes, NEW refs \in Counts,
         uses' = [uses EXCEPT ![e] = Together(e, refs)]
  PROVE  Held' = [Held EXCEPT ![e] = @ \cup {r \in Regions : \E m \in Maps : m[1] = r /\ refs[m] > 0}]
<1> DEFINE R == {r \in Regions : \E m \in Maps : m[1] = r /\ refs[m] > 0}
<1>1. uses \in [Exes -> [Maps -> Nat]] /\ \A m \in Maps : refs[m] \in Nat
      BY DEF TypeOK, Counts
<1>2. \A f \in Exes : f # e => uses'[f] = uses[f]
      BY <1>1
<1>3. ASSUME NEW m \in Maps PROVE uses'[e][m] > 0 <=> uses[e][m] > 0 \/ refs[m] > 0
  <2>1. uses'[e][m] = uses[e][m] + refs[m]
        BY <1>1 DEF Together
  <2> QED
      BY <1>1, <2>1
<1>4. UsedBy(e)' = UsedBy(e) \cup R
      BY <1>3 DEF UsedBy
<1>5. \A f \in Exes : f # e => UsedBy(f)' = UsedBy(f)
      BY <1>2 DEF UsedBy
<1> HIDE DEF R
<1>6. Held' = [f \in Exes |-> IF f = e THEN Held[e] \cup R ELSE Held[f]]
      BY <1>4, <1>5 DEF Held
<1>7. DOMAIN Held = Exes
      BY DEF Held
<1> QED
    BY <1>6, <1>7 DEF Held, R

\* At any time the registry holds exactly the regions that some executable uses, but
\* for those loaded anew while they were in use, or twice at once: an executable
\* acquires its regions at once and gives them up at once.
THEOREM ImplementsRegionSet == Spec => Promise
<1> USE DEF InUse!Used, InArray
<1>1. ASSUME Init PROVE InUse!Init
  <2>1. IInv /\ doubled = {}
        BY <1>1, IInvInit DEF Init
  <2>2. Held \in [Exes -> SUBSET Regions]
        BY DEF Held, UsedBy
  <2> QED
      BY <2>1, <2>2, RegisteredIsUsed DEF InUse!Init, Held, UsedBy
<1>2. ASSUME IInv, IInv', [Next]_vars PROVE [InUse!Next]_(InUse!vars)
  <2>1. InUse!Exact
    <3>1. (InArray \ doubled = (UNION {Held[e] : e \in Exes}) \ doubled)'
          BY <1>2, RegisteredIsUsed, PTL
    <3> QED
        BY <3>1 DEF InUse!Exact, Held, UsedBy
  <2>2. TypeOK /\ RefsExact /\ OnlyKnownUse /\ Ledger
        BY <1>2 DEF IInv, CountInv
  <2> DEFINE Got(refs) == {r \in Regions : \E m \in Maps : m[1] = r /\ refs[m] > 0}
             Twice == {r \in Regions : \E e \in Exes : Files[e][r] > 1}
  <2>3. ASSUME NEW e \in Exes, NEW refs \in Counts, NEW A,
               uses' = [uses EXCEPT ![e] = Together(e, refs)], doubled' = doubled \cup A,
               A \subseteq Got(refs) \cap ((UNION {Held[f] : f \in Exes}) \cup Twice)
        PROVE  InUse!Next
    <3> DEFINE R == Got(refs)
    <3>1. Held' = [Held EXCEPT ![e] = @ \cup R]
          BY <2>2, <2>3, HeldMore
    <3>2. R \in SUBSET Regions /\ A \in SUBSET Regions
          BY <2>3
    <3> HIDE DEF R, Got, Twice
    <3>3. InUse!Acquire(e, R, A)
          BY <2>1, <2>3, <3>1 DEF InUse!Acquire, Held, UsedBy, R, Twice
    <3> QED
        BY <3>2, <3>3 DEF InUse!Next
  <2>4. ASSUME NEW e \in Exes, Free(e) PROVE InUse!Next
    <3>1. uses' = [uses EXCEPT ![e] = NoUses] /\ doubled' = doubled
          BY <2>4 DEF Free
    <3>2. Held' = [Held EXCEPT ![e] = {}]
      <4>1. UsedBy(e)' = {} /\ \A f \in Exes : f # e => UsedBy(f)' = UsedBy(f)
            BY <2>2, <3>1 DEF UsedBy, NoUses, TypeOK
      <4> QED
          BY <4>1 DEF Held
    <3>3. InUse!Release(e)
          BY <2>1, <3>1, <3>2 DEF InUse!Release, Held, UsedBy
    <3> QED
        BY <3>3 DEF InUse!Next
  <2>5. ASSUME NEW e \in Exes, NEW shows \in [Mapped -> 0..MaxShows], Discover(e, shows)
        PROVE  InUse!Next
    <3>1. uses[e] = NoUses /\ ShownRefs(shows) \in Counts
          BY <2>2, <2>5, RefsTyped DEF OnlyKnownUse, Discover
    <3>2. ShownRefs(shows) = Together(e, ShownRefs(shows))
          BY <3>1 DEF Together, NoUses, Counts
    <3>3. uses' = [uses EXCEPT ![e] = ShownRefs(shows)] /\ doubled' = doubled \cup {}
          BY <2>5 DEF Discover, ShownRefs
    <3> QED
        BY <2>3, <3>1, <3>2, <3>3
  <2>6. ASSUME NEW e \in Exes, NEW lists \in [Regions -> 0..MaxLists], LoadFiles(e, lists)
        PROVE  InUse!Next
    <3> DEFINE refs == FileRefs(lists)
               A == {r \in Regions : lists[r] > 1 \/ (lists[r] > 0 /\ r \in DOMAIN table)}
    <3>1. /\ uses' = [uses EXCEPT ![e] = Together(e, refs)] /\ refs \in Counts
          /\ doubled' = doubled \cup A
      <4>1. uses' = [uses EXCEPT ![e] = Together(e, refs)]
            BY <2>6 DEF LoadFiles, FileRefs, Together
      <4>2. doubled' = doubled \cup A
            BY <2>6 DEF LoadFiles
      <4> QED
          BY <4>1, <4>2, RefsTyped
    <3>2. ASSUME NEW r \in A PROVE r \in Got(refs)
      <4>1. r \in Regions /\ lists[r] \in Nat /\ lists[r] > 0
            BY RegistryAssumption
      <4>2. Number(r) \in Nat /\ Made(r, lists[r]) \subseteq Maps
            BY <2>6, <4>1, NewIsFresh DEF LoadFiles
      <4>3. New(r) \in Made(r, lists[r]) /\ New(r)[1] = r
            BY <4>1, <4>2 DEF Made, New
      <4> QED
          BY <4>1, <4>2, <4>3 DEF FileRefs
    <3>3. ASSUME NEW r \in A, r \in DOMAIN table PROVE r \in UNION {Held[f] : f \in Exes}
      <4>1. table[r] \in Live /\ table[r][1] = r
            BY <2>2, <3>3 DEF Ledger
      <4>2. PICK f \in Exes : uses[f][table[r]] > 0
            BY <2>2, <4>1, UsedIsCounted DEF Live
      <4> QED
          BY <4>1, <4>2 DEF Held, UsedBy, Live
    <3>4. ASSUME NEW r \in A, lists[r] > 1 PROVE r \in Twice
      <4>1. lists[r] <= Files[e][r] /\ Files[e][r] \in Nat /\ lists[r] \in Nat
            BY <2>6, RegistryAssumption DEF LoadFiles
      <4> QED
          BY <3>4, <4>1
    <3>5. \A r \in A : lists[r] > 1 \/ r \in DOMAIN table
          OBVIOUS
    <3> HIDE DEF refs, A, Got, Twice
    <3>6. A \subseteq Got(refs) \cap ((UNION {Held[f] : f \in Exes}) \cup Twice)
          BY <3>2, <3>3, <3>4, <3>5
    <3> QED
        BY <2>3, <3>1, <3>6
  <2>7. CASE UNCHANGED <<uses, arr, doubled>>
        BY <2>7 DEF InUse!vars
  <2> QED
      BY <1>2, <2>4, <2>5, <2>6, <2>7 DEF Next, DiscoverLate, Register, Close, vars
<1> QED
    BY <1>1, <1>2, IInvInit, IInvStep, PTL DEF Spec, Promise, InUse!Spec
=============================================================================
