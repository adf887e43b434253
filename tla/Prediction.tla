----------------------------- MODULE Prediction -----------------------------
(***************************************************************************)
(* What one tick preloads: the boot window after a login                   *)
(* (src/src/daemon/session.c), the scores of executables and maps and the  *)
(* memory budget (src/src/predict/prophet.c).  A score is the logarithm of *)
(* the probability that something is not needed: the lower, the sooner it  *)
(* is read.  The probabilities are floating point and abstracted to what   *)
(* all chains together bid for an executable.                              *)
(***************************************************************************)
EXTENDS Clock, SequencesExt

CONSTANTS
  Exes,         \* executables in kp_state->exes
  Maps,         \* files and libraries as a whole, or pieces of them
  Size,         \* Size[m]: length of the map m in bytes
  Kilobyte,     \* bytes in a kilobyte
  FileOf,       \* FileOf[e]: the map of the whole file of e
  Libs,         \* Libs[e][m]: how often kp_scan_libraries lists the library m for e
  Learned,      \* Learned[e][m]: how often e had m mapped when it was discovered
  Usage,        \* Usage[e]: exe->time
  MinSizes,     \* values of model.minsize
  ManualLists,  \* contents of the manual apps file
  Blacklists,   \* contents of the blacklist file
  Bids,         \* what the chains of an executable may add to its score
  Percents,     \* values of model.memtotal, memfree and memcached
  Memories,     \* what /proc/meminfo may say, in kilobytes
  WindowLength, \* SESSION_WINDOW_DEFAULT
  MaxApps,      \* the five of kp_session_preload_top_apps(5)
  MaxCount,     \* bound on the exemaps of an executable for one map, of either kind
  MaxStrays,    \* bound on those of them that are read back for another map's at once
  NoLogin

ASSUME PredictionAssumption ==
  /\ IsFiniteSet(Exes) /\ IsFiniteSet(Maps)
  /\ Size \in [Maps -> Nat \ {0}] /\ Kilobyte \in Nat \ {0} /\ FileOf \in [Exes -> Maps]
  /\ Libs \in [Exes -> [Maps -> Nat]] /\ Learned \in [Exes -> [Maps -> Nat]]
  /\ Usage \in [Exes -> Nat] /\ MinSizes \subseteq Nat \ {0} /\ MinSizes # {}
  /\ ManualLists \subseteq SUBSET Exes /\ Blacklists \subseteq SUBSET Exes
  /\ \A b \in Bids : b \in Int /\ b <= 0
  /\ Percents \subseteq [memtotal : Int, memfree : 0..100, memcached : Int]
  /\ Memories \subseteq [total : Nat, free : Nat, cached : Nat]
  /\ WindowLength \in Nat \ {0} /\ MaxApps \in Nat /\ NoLogin \notin Int
  /\ MaxCount \in Nat /\ MaxStrays \in Nat /\ \A e \in Exes, m \in Maps : Learned[e][m] <= MaxCount

VARIABLES
  login,       \* st_ctime of /run/user/$UID: when it was made or last changed
  detected,    \* session_state.session_detected
  windowEnd,   \* session_state.window_end
  done,        \* session_state.preload_done
  minsize,     \* kp_conf->model.minsize
  manual,      \* kp_conf->system.manual_apps_loaded
  black,       \* the entries of the blacklist
  exemaps,     \* exemaps[e][m]: how many exemaps of e refer to the map m
  refused,     \* refused[e][m]: how many refer to objects of m the registry refused
  size,        \* exe->size
  lnprob,      \* exe->lnprob
  running,     \* the executables that ran when the last prediction was made
  memory,      \* the percentages and the memory that prediction went by
  chosen,      \* the maps it gave to kp_readahead
  boosted,     \* history: the executables the session boosted in that tick
  strayed,     \* history: the exemaps <<e, m>> read back for another map's
  lastLogin,   \* history: the last time somebody logged in
  lastTouch    \* history: the last change of /run/user/$UID a daemon may have
               \* taken for a login, being started or waiting for one

session   == <<login, detected, windowEnd, done>>
settings  == <<minsize, manual, black>>
scores    == <<exemaps, refused, size, lnprob, running, memory, chosen, boosted, strayed>>
logins    == <<lastLogin, lastTouch>>
predictionVars == <<session, settings, scores, logins>>

PredictionTypeOK ==
  /\ login \in Nat \cup {NoLogin} /\ detected \in BOOLEAN /\ done \in BOOLEAN
  /\ windowEnd \in Nat
  /\ minsize \in MinSizes /\ manual \subseteq Exes /\ black \subseteq Exes
  /\ exemaps \in [Exes -> [Maps -> Nat]] /\ refused \in [Exes -> [Maps -> Nat]]
  /\ size \in [Exes -> Nat]
  /\ lnprob \in [Exes -> Int]
  /\ running \subseteq Exes /\ memory \in {<<>>} \cup (Percents \X Memories)
  /\ chosen \subseteq Maps /\ boosted \subseteq Exes \ running /\ strayed \subseteq Exes \X Maps
  /\ lastLogin \in Nat \cup {NoLogin} /\ lastTouch \in Nat \cup {NoLogin}

Total(S)  == SumFunctionOnSet(Size, S)
SizeOf(f) == SumFunction([m \in Maps |-> f[m] * Size[m]])

\* kp_state->maps.
Registered == {m \in Maps : \E e \in Exes : exemaps[e][m] > 0}
None       == [e \in Exes |-> [m \in Maps |-> 0]]

PredictionInit ==
  /\ login = NoLogin /\ lastLogin = NoLogin /\ lastTouch = NoLogin
  /\ detected = FALSE /\ windowEnd = 0 /\ done = FALSE
  /\ minsize \in MinSizes /\ manual \in ManualLists /\ black \in Blacklists
  /\ exemaps = Learned /\ refused = None /\ strayed = {}
  /\ size = [e \in Exes |-> SizeOf(Learned[e])]
  /\ lnprob = [e \in Exes |-> 0]
  /\ running = {} /\ memory = <<>> /\ chosen = {} /\ boosted = {}

-----------------------------------------------------------------------------
(* The user.                                                               *)

Login ==
  /\ login = NoLogin
  /\ login' = now /\ lastLogin' = now
  /\ UNCHANGED <<detected, windowEnd, done, settings, scores, lastTouch>>

\* A program makes or removes an entry of /run/user/$UID.
Touch ==
  /\ login # NoLogin
  /\ login' = now /\ lastTouch' = IF detected THEN lastTouch ELSE now
  /\ UNCHANGED <<detected, windowEnd, done, settings, scores, lastLogin>>

Logout ==
  /\ login # NoLogin
  /\ login' = NoLogin
  /\ UNCHANGED <<detected, windowEnd, done, settings, scores, logins>>

\* SIGHUP: the files are read again.
Reload ==
  /\ minsize' \in MinSizes /\ manual' \in ManualLists /\ black' \in Blacklists
  /\ UNCHANGED <<session, scores, logins>>

-----------------------------------------------------------------------------
(* The daemon starts and stops.                                            *)

\* When the window of a session ends that was found at the time t.
EndOfWindowSeen(changed, t) == t + WindowLength
EndOfWindow(changed, t)     == changed + WindowLength

\* kp_session_init.
StartPrediction ==
  /\ detected' = (login # NoLogin)
  /\ windowEnd' = IF detected' THEN EndOfWindow(login, now) ELSE windowEnd
  /\ done' = (detected' /\ now - login >= WindowLength)
  /\ lastTouch' = IF detected' THEN login ELSE lastTouch
  /\ UNCHANGED <<login, settings, scores, lastLogin>>

\* It stops, and only what the state file holds is left.  The number of a refused
\* object was never set: its exemaps are written with any number, and read back as
\* exemaps of the map that has it, or of none, which ends the reading.
Kept == IF refused = None THEN {exemaps}
        ELSE {k \in [Exes -> [Maps -> 0..MaxCount]] :
                \A e \in Exes, m \in Maps : k[e][m] <= exemaps[e][m]}
Strays == {k \in [Exes -> [Maps -> 0..MaxStrays]] : \A e \in Exes :
             /\ SumFunction(k[e]) <= SumFunction(refused[e])
             /\ \A m \in Maps :
                  k[e][m] > 0 => m \in Registered /\ exemaps[e][m] + k[e][m] <= MaxCount}

StopPrediction ==
  /\ detected' = FALSE /\ done' = FALSE /\ windowEnd' = 0
  /\ \E kept \in Kept, stray \in Strays :
       /\ exemaps' = [e \in Exes |-> [m \in Maps |-> kept[e][m] + stray[e][m]]]
       /\ strayed' = {x \in strayed : kept[x[1]][x[2]] > 0}
                        \cup {x \in Exes \X Maps : stray[x[1]][x[2]] > 0}
  /\ refused' = None /\ size' = [e \in Exes |-> SizeOf(exemaps'[e])]
  /\ lnprob' = [e \in Exes |-> 0]
  /\ running' = {} /\ memory' = <<>> /\ chosen' = {} /\ boosted' = {}
  /\ UNCHANGED <<settings, logins>>

-----------------------------------------------------------------------------
(* The session's part of a tick.                                           *)

\* kp_session_check and kp_session_in_boot_window.
CheckSession ==
  /\ detected' = (detected \/ login # NoLogin)
  /\ windowEnd' = IF detected' /\ ~detected THEN EndOfWindow(login, now) ELSE windowEnd
  /\ done' = (done \/ (detected' /\ now >= windowEnd'))

InBootWindow == detected' /\ ~done'

\* get_top_apps: of those not running and used long enough, the most used ones.
Candidates(R) == {e \in Exes \ R : Usage[e] >= 10}
TopApps(R) ==
  LET n == IF Cardinality(Candidates(R)) < MaxApps THEN Cardinality(Candidates(R)) ELSE MaxApps
  IN  {T \in SUBSET Candidates(R) :
         /\ Cardinality(T) = n
         /\ \A t \in T, c \in Candidates(R) \ T : Usage[t] >= Usage[c]}

\* load_single_map loads only files that are there and not too small.
LargeEnough(m) == Size[m] >= minsize

\* load_maps_for_session_app, for an application without maps or with small ones:
\* its file and its libraries, those listed twice twice.  What is loaded is added to
\* exe->size by two functions.
SessionLoads(e) ==
  [m \in Maps |-> IF LargeEnough(m) THEN (IF m = FileOf[e] THEN 1 ELSE 0) + Libs[e][m] ELSE 0]
TooSmall(e) == size[e] < minsize

SessionNew(T) ==
  [e \in Exes |-> IF e \in T /\ TooSmall(e) THEN SessionLoads(e) ELSE [m \in Maps |-> 0]]
SessionSize(T) ==
  [e \in Exes |-> IF e \in T /\ TooSmall(e) THEN 2 * SizeOf(SessionLoads(e)) ELSE size[e]]

-----------------------------------------------------------------------------
(* The prophet's part.                                                     *)

\* exe_zero_prob.  The score of -15 the session gave in this tick ends here, too.
Zero(e) == IF e \in black THEN 1 ELSE 0

\* boost_manual_apps: a manual application without maps gets that of its file.
\* The session may have loaded N before.
ManualLoads(N, e) ==
  /\ \A m \in Maps : exemaps[e][m] = 0 /\ refused[e][m] = 0 /\ N[e][m] = 0
  /\ LargeEnough(FileOf[e])
Boosts(R) == manual \ R
ManualNew(N, R) ==
  [e \in Exes |-> [m \in Maps |->
     IF e \in Boosts(R) /\ ManualLoads(N, e) /\ m = FileOf[e] THEN 1 ELSE 0]]
ManualSize(S, M) == [e \in Exes |-> S[e] + SizeOf(M[e])]

\* Every exemap loaded has an object of its own, and a map has one registered object:
\* of those loaded (N by the session, then M) the first is registered if there is none,
\* and the others are refused.  They are then neither sorted nor read.
Loading(N, e, m) == N[e][m] > 0
EnteringAgain(N, M) ==
  {m \in Maps : \E e \in Exes : Loading(N, e, m) \/ Loading(M, e, m)}
Entering(N, M) ==
  {m \in Maps \ Registered : \E e \in Exes : Loading(N, e, m) \/ Loading(M, e, m)}
First(N, M, m, e) ==
  Loading(N, e, m) \/ (Loading(M, e, m) /\ \A d \in Exes : ~Loading(N, d, m))
Load(N, M) ==
  \E first \in [Entering(N, M) -> Exes] :
    /\ \A m \in Entering(N, M) : First(N, M, m, first[m])
    /\ LET accepted == {<<first[m], m>> : m \in Entering(N, M)}
           took == [e \in Exes |-> [m \in Maps |-> IF <<e, m>> \in accepted THEN 1 ELSE 0]]
       IN  /\ exemaps' = [e \in Exes |-> [m \in Maps |-> exemaps[e][m] + took[e][m]]]
           /\ refused' = [e \in Exes |-> [m \in Maps |->
                            refused[e][m] + N[e][m] + M[e][m] - took[e][m]]]
    /\ \A e \in Exes, m \in Maps : refused'[e][m] <= MaxCount

\* The chains then bid for what is not running.
Score(R, bid) ==
  [e \in Exes |-> (IF e \in Boosts(R) THEN -10 ELSE Zero(e)) + IF e \in R THEN 0 ELSE bid[e]]

\* exemap_bid_in_maps: every exemap bids, those of running executables against.
MapScore(m) ==
  SumFunction([e \in Exes |-> exemaps[e][m] * (IF e \in running THEN 1 ELSE lnprob[e])])

\* The memory for prefetching, by the percentages c and the memory s, in kilobytes.
Clamp(v) == IF v > 100 THEN 100 ELSE IF v < -100 THEN -100 ELSE v
Budget(c, s) ==
  LET free == Clamp(c.memtotal) * (s.total \div 100) + Clamp(c.memfree) * (s.free \div 100)
  IN  (IF free > 0 THEN free ELSE 0) + Clamp(c.memcached) * (s.cached \div 100)
memavail == IF memory = <<>> THEN 0 ELSE Budget(memory[1], memory[2])

KbDown(m) == Size[m] \div Kilobyte
Kb(m)     == (Size[m] + Kilobyte - 1) \div Kilobyte

\* kp_prophet_readahead: the maps that are needed in the order of their scores,
\* equal ones in any order, up to the first that does not fit in what is left.
SortedBackwards ==
  LET score == [m \in Registered |-> MapScore(m)]
  IN  {o \in SetToSeqs({m \in Registered : score[m] < 0}) :
         \A i \in 1..Len(o) - 1 : score[o[i]] >= score[o[i + 1]]}
Sorted ==
  LET score == [m \in Registered |-> MapScore(m)]
  IN  {o \in SetToSeqs({m \in Registered : score[m] < 0}) :
         \A i \in 1..Len(o) - 1 : score[o[i]] <= score[o[i + 1]]}
Fits(o, k) == k = 0 \/ SumFunctionOnSet([m \in Maps |-> Kb(m)], {o[j] : j \in 1..k}) <= memavail
Prefix(o) == {o[i] : i \in 1..Max({k \in 0..Len(o) : Fits(o, k)})}

\* The rest of kp_state_tick after the pause was found to be over.  The last scan
\* found R running.  The session boosts T in the boot window, or nothing when less
\* than a fifth of the memory is available.
Predict ==
  /\ CheckSession
  /\ \E R \in SUBSET Exes : \E T \in {{}} \cup IF InBootWindow THEN TopApps(R) ELSE {} :
       /\ Load(SessionNew(T), ManualNew(SessionNew(T), R))
       /\ size' = ManualSize(SessionSize(T), ManualNew(SessionNew(T), R))
       /\ \E bid \in [Exes \ R -> Bids] : lnprob' = Score(R, bid)
       /\ running' = R /\ boosted' = T
       /\ \E o \in Sorted' : memory' \in Percents \X Memories /\ chosen' = Prefix(o)'
  /\ UNCHANGED <<login, settings, logins, strayed>>

User == Login \/ Touch \/ Logout \/ Reload

-----------------------------------------------------------------------------
(* Properties.                                                             *)

\* Nothing is read unless it is needed, and nothing needed more is left out for
\* something needed less: when the budget is short, it is the least needed maps
\* that go (prophet.c:366-369).
MostNeededFirst ==
  \A m \in chosen :
    /\ MapScore(m) < 0
    /\ \A n \in Registered \ chosen : MapScore(m) <= MapScore(n)

\* What one tick reads fits in the memory that is free, with memcached above zero
\* also in what is cached, unless memtotal adds to the budget: not more is read ahead
\* than can stay there until it is needed, whatever is rounded on the way from
\* percentages and bytes to kilobytes (prophet.c:351-371).
FreeMemoryOnly ==
  chosen # {} /\ memory[1].memtotal <= 0 =>
    Total(chosen) <= Kilobyte * (memory[2].free + IF memory[1].memcached > 0
                                                     THEN memory[2].cached ELSE 0)

\* An application bids once for a map, however often its file is listed and loaded
\* again, at the next tick, for the session and the manual list, under each
\* model.minsize and after restarts: unless it was discovered with the map more
\* than once, or an exemap written with a number never set was read back for the map.
BidsOnce ==
  /\ PredictionTypeOK
  /\ \A e \in Exes, m \in Maps :
       exemaps[e][m] <= 1 \/ exemaps[e][m] <= Learned[e][m] \/ <<e, m>> \in strayed

\* Applications are boosted only within the boot window of a login, also when the
\* login is noticed late, because the preloads were paused or the daemon was down: or
\* in that of a change of /run/user/$UID before the session was noticed, whose time
\* the daemon takes for that of the login (session.c:186), but of no later change.
InWindow(t) == t # NoLogin /\ now < t + WindowLength
BoostsAfterLogin ==
  [][boosted' # {} /\ boosted' # boosted => InWindow(lastLogin) \/ InWindow(lastTouch)]_boosted
=============================================================================
