---------------------------- MODULE MapRegistry ----------------------------
(***************************************************************************)
(* The registry of mapped file regions (src/src/state/state_map.c): a      *)
(* region is one reference-counted object, shared by the executables that  *)
(* map it, and registered twice, in the table kp_state->maps, keyed by     *)
(* (path, offset, length), and in the array kp_state->maps_arr, which the  *)
(* predictor sorts and reads ahead.  Executables get their regions from    *)
(* /proc (src/src/monitor/proc.c), or, when they have none, from the files *)
(* they consist of (src/src/predict/prophet.c, src/src/daemon/session.c).  *)
(*                                                                         *)
(* A map object is <<region, i>>: of the objects of one region that are    *)
(* there at a time, the younger has the larger number.                     *)
(***************************************************************************)
EXTENDS Integers, FiniteSets, Functions

CONSTANTS
  Exes,       \* paths of executables
  Regions,    \* (path, offset, length) triples
  Mapped,     \* the regions /proc shows
  Files,      \* Files[e][r]: how often r is among the files listed for e
  Copies,     \* how many objects of one region there may be at a time
  MaxLists,   \* how often the same file is listed for an executable
  MaxShows    \* how often /proc shows a process the same region

ASSUME RegistryAssumption ==
  /\ IsFiniteSet(Exes) /\ Mapped \subseteq Regions
  /\ Files \in [Exes -> [Regions -> Nat]]
  /\ Copies \in Nat \ {0} /\ MaxShows \in Nat /\ MaxLists \in Nat

VARIABLES
  known,      \* keys of kp_state->exes
  uses,       \* uses[e][m]: how many exemaps of e refer to m
  refcount,   \* map->refcount
  table,      \* kp_state->maps
  arr,        \* kp_state->maps_arr
  closing,    \* the main loop has ended, kp_state_free runs
  wild,       \* a set pointer that was never assigned has been used
  doubled,    \* history: the regions a second object was made for
  robbed      \* history: the regions whose entry went with another object

vars == <<known, uses, refcount, table, arr, closing, wild, doubled, robbed>>

Maps == Regions \X (1..Copies)
NoUses == [m \in Maps |-> 0]

\* The map objects that are allocated.
Live == {m \in Maps : refcount[m] > 0}

\* The table has an entry equal to m, be it m or another object.
Known(m) == m[1] \in DOMAIN table

TypeOK ==
  /\ known \subseteq Exes
  /\ uses \in [Exes -> [Maps -> Nat]]
  /\ refcount \in [Maps -> Nat]
  /\ DOMAIN table \subseteq Regions /\ \A r \in DOMAIN table : table[r] \in Maps
  /\ arr \subseteq Maps
  /\ closing \in BOOLEAN /\ wild \in BOOLEAN
  /\ doubled \subseteq Regions /\ robbed \subseteq Regions

\* kp_map_new: the number of the next object of region r, and the next k of them.
Fresh(r) == {i \in 1..Copies : \A m \in Live \cup arr : m[1] = r => m[2] < i}
Number(r) == CHOOSE i \in Fresh(r) : \A j \in Fresh(r) : i <= j
New(r) == <<r, Number(r)>>
Made(r, k) == {<<r, i>> : i \in Number(r)..(Number(r) + k - 1)}

\* kp_proc_get_maps: the object a region shown by /proc stands for.
ObjectAnew(r) == New(r)
Object(r) == IF r \in DOMAIN table THEN table[r] ELSE New(r)

\* The first of those objects of M that are equal.
Eldest(M) == {m \in M : \A n \in M : n[1] = m[1] => m[2] <= n[2]}

\* The references refs of new exemaps are added, the objects Entering not yet
\* referenced being registered first: kp_map_ref, kp_state_register_map.  An object
\* equal to one in the table is refused, but keeps its reference.
Entering(refs) == Eldest({m \in Maps : refs[m] > 0 /\ refcount[m] = 0 /\ ~Known(m)})
Registered(new) ==
  /\ arr' = arr \cup new
  /\ table' = [r \in DOMAIN table \cup {m[1] : m \in new} |->
                 IF r \in DOMAIN table THEN table[r] ELSE CHOOSE m \in new : m[1] = r]
RefOnce(refs) ==
  /\ refcount' = [m \in Maps |-> refcount[m] + (IF refs[m] > 0 THEN 1 ELSE 0)]
  /\ Registered(Entering(refs))
Ref(refs) ==
  /\ refcount' = [m \in Maps |-> refcount[m] + refs[m]]
  /\ Registered(Entering(refs))

\* The references of an executable are dropped, oldest first: kp_map_unref.  An
\* object no longer referenced leaves the array if the table has an entry equal to
\* it, takes that entry with it, be it its own or another's, and is freed either way:
\* kp_state_unregister_map, kp_map_free.
Leaving(refs) == Eldest({m \in Maps : refs[m] > 0 /\ refcount[m] = refs[m] /\ Known(m)})
UnregisteredButInArray(old) ==
  /\ table' = [r \in DOMAIN table \ {m[1] : m \in old} |-> table[r]]
  /\ UNCHANGED arr
Unregistered(old) ==
  /\ arr' = arr \ old
  /\ table' = [r \in DOMAIN table \ {m[1] : m \in old} |-> table[r]]
Unref(refs) ==
  /\ refcount' = [m \in Maps |-> refcount[m] - refs[m]]
  /\ Unregistered(Leaving(refs))
  /\ robbed' = robbed \cup {m[1] : m \in {n \in Leaving(refs) : table[n[1]] # n}}

\* A state file was read: every map in it once, and what no exemap refers to is
\* dropped again when the file's index is destroyed.
Init ==
  /\ known \in SUBSET Exes
  /\ \E held \in [known -> SUBSET Regions] :
       /\ \A e \in known : \A r \in held[e] : r \in Mapped \/ Files[e][r] > 0
       /\ uses = [e \in Exes |-> [m \in Maps |->
                    IF e \in known /\ m[2] = 1 THEN IF m[1] \in held[e] THEN 1 ELSE 0 ELSE 0]]
       /\ LET read == UNION {held[e] : e \in known} IN
            /\ table = [r \in read |-> <<r, 1>>]
            /\ arr = {<<r, 1>> : r \in read}
            /\ refcount = [m \in Maps |->
                 IF m[2] = 1 THEN Cardinality({e \in known : m[1] \in held[e]}) ELSE 0]
  /\ closing = FALSE /\ wild = FALSE /\ doubled = {} /\ robbed = {}

Running == ~closing /\ ~wild

\* new_exe_callback: a process of executable e, unknown so far, shows[r] of whose
\* mappings are region r.
Discover(e, shows) ==
  /\ Running /\ e \notin known
  /\ \E r \in Mapped : shows[r] > 0
  /\ \A r \in Mapped : shows[r] > 0 /\ r \notin DOMAIN table => Fresh(r) # {}
  /\ LET shown == {r \in Mapped : shows[r] > 0}
         refs == [m \in Maps |-> IF m[1] \in shown /\ m = Object(m[1])
                                   THEN shows[m[1]] ELSE 0]
     IN /\ Ref(refs)
        /\ uses' = [uses EXCEPT ![e] = refs]
  /\ known' = known \cup {e}
  /\ UNCHANGED <<closing, wild, doubled, robbed>>

\* The process ended after its size was taken: kp_proc_get_maps cannot open its
\* maps, returns before it assigns the set, and the caller frees the set.
DiscoverLate(e) ==
  /\ Running /\ e \notin known
  /\ wild' = TRUE
  /\ UNCHANGED <<known, uses, refcount, table, arr, closing, doubled, robbed>>

\* A manual or seeded application is registered, with no exemap.
Register(e) ==
  /\ Running /\ e \notin known
  /\ known' = known \cup {e}
  /\ UNCHANGED <<uses, refcount, table, arr, closing, wild, doubled, robbed>>

\* load_maps_for_exe, for an executable that has no exemap, and
\* load_maps_for_session_app, for one whose maps are small in all: one object for
\* each of the files that are found, as often as they are listed (lists), whether
\* it is in the table or not.
LoadFiles(e, lists) ==
  /\ Running /\ e \in known
  /\ \A r \in Regions : lists[r] <= Files[e][r]
  /\ \E r \in Regions : lists[r] > 0
  /\ \A r \in Regions : lists[r] > 0 => Fresh(r) # {} /\ Made(r, lists[r]) \subseteq Maps
  /\ LET refs == [m \in Maps |-> IF lists[m[1]] > 0
                                   THEN IF m \in Made(m[1], lists[m[1]]) THEN 1 ELSE 0
                                   ELSE 0]
     IN /\ Ref(refs)
        /\ uses' = [uses EXCEPT ![e] = [m \in Maps |-> uses[e][m] + refs[m]]]
  /\ doubled' = doubled \cup {r \in Regions : \/ lists[r] > 1
                                              \/ lists[r] > 0 /\ r \in DOMAIN table}
  /\ UNCHANGED <<known, closing, wild, robbed>>

\* kp_exe_free, called when an executable is evicted and when the table is freed.
Free(e) ==
  /\ ~wild /\ e \in known
  /\ Unref(uses[e])
  /\ uses' = [uses EXCEPT ![e] = NoUses]
  /\ known' = known \ {e}
  /\ UNCHANGED <<closing, wild, doubled>>

\* The main loop ends; kp_state_free frees the executables one by one.
Close ==
  /\ Running
  /\ closing' = TRUE
  /\ UNCHANGED <<known, uses, refcount, table, arr, wild, doubled, robbed>>

Next ==
  \/ \E e \in Exes, shows \in [Mapped -> 0..MaxShows] : Discover(e, shows)
  \/ \E e \in Exes : DiscoverLate(e) \/ Register(e) \/ Free(e)
  \/ \E e \in Exes, lists \in [Regions -> 0..MaxLists] : LoadFiles(e, lists)
  \/ Close

Spec == Init /\ [][Next]_vars

-----------------------------------------------------------------------------
(* Safety.                                                                 *)

\* The exemaps that refer to m, executable by executable.
Users(m) == [e \in Exes |-> uses[e][m]]

\* refcount counts the exemaps, so an object lives exactly as long as it is used
\* (state_map.c:110 and state_map.c:122 are called from five places).
RefsExact == \A m \in Maps : refcount[m] = SumFunction(Users(m))

\* maps_arr is "Set of maps again, in a sortable array" (state.h:247): exactly the
\* objects of the table, each under its own region.  One that stays in the array
\* after it is freed is sorted and read ahead by every later prediction.  The table
\* never has a freed object; the array may, once a freed object of the same region
\* took the entry of the registered one along (state_map.c:103).
ArrayIsTable ==
  /\ \A r \in DOMAIN table : table[r] \in Live \cap arr /\ table[r][1] = r
  /\ \A m \in arr : m[1] \notin robbed => m[1] \in DOMAIN table /\ table[m[1]] = m

\* A region is one object, however many executables use it: the memory budget of
\* a prediction counts it once (prophet.c:360), unless its file was loaded again
\* (session.c:77, prophet.c:420).
OneObjectPerRegion ==
  \A m, n \in Live : m[1] = n[1] /\ m[1] \notin doubled => m = n

\* What executables refer to is registered, so that it is predicted, and has a
\* number in the state file that its exemaps can be read back with.
UsedIsRegistered ==
  \A e \in known, m \in Maps :
    uses[e][m] > 0 /\ m[1] \notin doubled => m \in arr /\ Known(m) /\ table[m[1]] = m

\* Table, array and users agree, region by region: no object is known to one of them
\* and not to the others (state.h:246-247) but for what loading a file again does.
TablesAgree == TypeOK /\ ArrayIsTable /\ OneObjectPerRegion /\ UsedIsRegistered

\* The assertions of kp_state_free (state.c:325): when all executables are gone so
\* are the maps.  The second of them fails for what ArrayIsTable leaves in the array.
FreeLeavesNothing ==
  closing /\ known = {} => DOMAIN table = {} /\ {m[1] : m \in arr} \subseteq robbed

\* What the registry promises: the regions in use, and who uses each.
InUse == INSTANCE RegionSet WITH
  Twice <- {r \in Regions : \E e \in Exes : Files[e][r] > 1},
  held <- [e \in Exes |-> {r \in Regions : \E m \in Maps : m[1] = r /\ uses[e][m] > 0}],
  registered <- {m[1] : m \in arr},
  lost <- doubled
Promise == InUse!Spec
=============================================================================
