-------------------------- MODULE DaemonTick_proofs --------------------------
(***************************************************************************)
(* The pause, the session and the prediction, for any pauses, any windows, *)
(* any applications, sizes, budgets and bids of the chains: a pause        *)
(* survives a restart, boosts stay in the boot window, what is read is     *)
(* what is needed most and fits in free memory, and nothing bids twice.    *)
(***************************************************************************)
EXTENDS DaemonTick, SumLemmas, SequenceTheorems

-----------------------------------------------------------------------------
(* The pause a daemon started under.                                       *)

\* Until a command is given, the pause is in the file, or in the daemon's copy once
\* it has ticked; no tick is in the middle of removing the file.
UnderPause ==
  /\ now \in Nat
  /\ stage = "down" => ~loaded
  /\ Pausing(found) => stage = "run" /\ IF loaded THEN active /\ expiry = found
                                                  ELSE file = found

LEMMA UnderPauseInit == Init => UnderPause
  BY PauseAssumption DEF Init, PauseInit, UnderPause, Pausing, Expiries, UntilReboot

\* As long as it lasts, every tick finds the pause.
LEMMA FoundPauses ==
  ASSUME UnderPause, Pausing(found)
  PROVE  PausedNow /\ ~UnpausedTick
<1>1. PausedNow
      BY DEF UnderPause, PausedNow, Pausing, Valid
<1>2. stage # "unlink"
      BY DEF UnderPause
<1>3. QED
      BY <1>1, <1>2 DEF UnpausedTick, OpenTick, UnlinkedTick

LEMMA UnderPauseStep == UnderPause /\ [Next]_vars => UnderPause'
<1> SUFFICES ASSUME UnderPause, [Next]_vars PROVE UnderPause'
    OBVIOUS
<1> USE DEF UnderPause, Pausing
<1>1. CASE Tick /\ UNCHANGED now
  <2>1. CASE Pausing(found)
    <3>1. PausedTick
          BY <1>1, <2>1, FoundPauses DEF Tick, ExpireTick
    <3>2. QED
          BY <1>1, <2>1, <3>1 DEF PausedTick
  <2>2. CASE ~Pausing(found)
        BY <1>1, <2>2 DEF Tick, PausedTick, ExpireTick, UnpausedTick, OpenTick, UnlinkedTick
  <2>3. QED
        BY <2>1, <2>2
<1>2. CASE DaemonStart /\ UNCHANGED now
      BY <1>2, PauseAssumption DEF DaemonStart, StartPaused, Expiries, UntilReboot, pauseState
<1>3. CASE DaemonStop /\ UNCHANGED now
      BY <1>3, PauseAssumption DEF DaemonStop, StopPaused, Expiries, UntilReboot
<1>4. CASE Boot /\ UNCHANGED now
      BY <1>4, PauseAssumption DEF Boot, Reboot, Expiries, UntilReboot
<1>5. CASE Ctl /\ UNCHANGED <<now, predictionVars>>
  <2>1. CASE \E d \in Durations : CtlOpen(d)
        BY <1>5, <2>1, PauseAssumption DEF CtlOpen, Expiries, UntilReboot, pauseState
  <2>2. CASE CtlClose
        BY <1>5, <2>2 DEF CtlClose, Expiries, UntilReboot, Unwritten, pauseState
  <2>3. CASE CtlResume
        BY <1>5, <2>3, PauseAssumption DEF CtlResume, Expiries, UntilReboot, pauseState
  <2>4. QED
        BY <1>5, <2>1, <2>2, <2>3 DEF Ctl
<1>6. CASE User /\ UNCHANGED <<now, pauseVars>>
      BY <1>6 DEF pauseVars, pauseState, Expiries
<1>7. CASE Elapse /\ UNCHANGED <<pauseVars, predictionVars>>
      \* What has not ended later has not ended now.
      BY <1>7, ClockAssumption DEF Elapse, pauseVars, pauseState, Expiries, UntilReboot
<1>8. CASE UNCHANGED vars
      BY <1>8 DEF vars, pauseVars, pauseState, Expiries
<1>9. QED
      BY <1>1, <1>2, <1>3, <1>4, <1>5, <1>6, <1>7, <1>8 DEF Next

\* A daemon started while the preloads are paused, after a crash as after an
\* upgrade, predicts nothing until the pause ends or a command is given
\* (pause.c:57).
THEOREM PauseSurvivesRestart == Spec => RestartHonoured
<1>1. UnderPause /\ [Next]_vars => [UnpausedTick => ~Pausing(found)]_vars
      BY FoundPauses
<1>2. QED
      BY <1>1, UnderPauseInit, UnderPauseStep, PTL DEF Spec, RestartHonoured

-----------------------------------------------------------------------------
(* The boot window.                                                        *)

\* What the session takes for the time of a login, or will take, is that of a login
\* or of a change it may take for one, and its window ends no later than theirs.
Known(t) == t \in {lastLogin, lastTouch} \ {NoLogin}

WindowInv ==
  /\ now \in Nat /\ detected \in BOOLEAN /\ done \in BOOLEAN
  /\ lastLogin \in Nat \cup {NoLogin} /\ lastTouch \in Nat \cup {NoLogin}
  /\ login \in Nat \cup {NoLogin} /\ (lastLogin # NoLogin => lastLogin <= now)
  /\ stage # "down" /\ ~detected /\ login # NoLogin => Known(login)
  /\ detected => /\ stage # "down"
                 /\ windowEnd \in Nat
                 /\ \E t \in {lastLogin, lastTouch} \ {NoLogin} : windowEnd <= t + WindowLength

LEMMA WindowInit == Init => WindowInv
<1> SUFFICES ASSUME Init PROVE WindowInv
    OBVIOUS
<1>1. now \in Nat
      BY DEF Init
<1>2. detected \in BOOLEAN /\ done \in BOOLEAN /\ ~detected
      BY Zenon DEF Init, PredictionInit
<1>3. login = NoLogin /\ lastLogin = NoLogin /\ lastTouch = NoLogin
      BY DEF Init, PredictionInit
<1>4. QED
      BY <1>1, <1>2, <1>3 DEF WindowInv

LEMMA WindowChecked ==
  ASSUME WindowInv, Predict, stage # "down"
  PROVE  /\ UNCHANGED <<login, lastLogin, lastTouch>>
         /\ detected' \in BOOLEAN /\ done' \in BOOLEAN
         /\ ~detected' => login = NoLogin
         /\ detected' =>
              /\ windowEnd' \in Nat
              /\ \E t \in {lastLogin, lastTouch} \ {NoLogin} : windowEnd' <= t + WindowLength
         /\ boosted' # {} => detected' /\ now < windowEnd'
<1>1. UNCHANGED <<login, lastLogin, lastTouch>> /\ CheckSession
      BY DEF Predict, logins
<1>2. /\ detected' \in BOOLEAN /\ done' \in BOOLEAN
      /\ detected' <=> (detected \/ login # NoLogin)
      /\ done' <=> (done \/ (detected' /\ now >= windowEnd'))
      BY <1>1, Zenon DEF CheckSession, WindowInv
<1>3. windowEnd' = IF detected' /\ ~detected THEN login + WindowLength ELSE windowEnd
      BY <1>1 DEF CheckSession, EndOfWindow
<1>4. detected' =>
        /\ windowEnd' \in Nat
        /\ \E t \in {lastLogin, lastTouch} \ {NoLogin} : windowEnd' <= t + WindowLength
  <2>1. CASE detected
        BY <1>3, <2>1 DEF WindowInv
  <2>2. CASE ~detected /\ login # NoLogin
    <3>1. login \in {lastLogin, lastTouch} \ {NoLogin} /\ login \in Nat
          BY <2>2 DEF WindowInv, Known
    <3>2. windowEnd' = login + WindowLength
          BY <1>2, <1>3, <2>2
    <3> QED
        BY <3>1, <3>2, PredictionAssumption
  <2>3. QED
        BY <1>2, <2>1, <2>2
<1>5. PICK R \in SUBSET Exes : \E T \in {{}} \cup IF InBootWindow THEN TopApps(R) ELSE {} : boosted' = T
      BY DEF Predict
<1>6. boosted' # {} => InBootWindow
      BY <1>5
<1>7. boosted' # {} => detected' /\ now < windowEnd'
      BY <1>2, <1>6, <1>4 DEF InBootWindow, WindowInv
<1>8. QED
      BY <1>1, <1>2, <1>7, <1>4

LEMMA WindowStep == WindowInv /\ [Next]_vars => WindowInv'
<1> SUFFICES ASSUME WindowInv, [Next]_vars PROVE WindowInv'
    OBVIOUS
<1> USE DEF WindowInv, Known
<1>1. CASE Tick /\ UNCHANGED now
  <2>1. CASE UnpausedTick /\ Predict
    <3>1. stage # "down" /\ stage' # "down"
          BY <2>1 DEF UnpausedTick, OpenTick, UnlinkedTick
    <3> QED
        BY <1>1, <2>1, <3>1, WindowChecked
  <2>2. CASE (PausedTick \/ ExpireTick) /\ UNCHANGED predictionVars
    <3>1. stage # "down" /\ stage' # "down"
          BY <2>2 DEF PausedTick, ExpireTick, OpenTick
    <3> QED
        BY <1>1, <2>2, <3>1 DEF predictionVars, session, logins
  <2>3. QED
        BY <1>1, <2>1, <2>2 DEF Tick
<1>2. CASE DaemonStart /\ UNCHANGED now
  <2>1. /\ detected' \in BOOLEAN /\ done' \in BOOLEAN
        /\ detected' <=> login # NoLogin
        BY <1>2, Zenon DEF DaemonStart, StartPrediction
  <2>2. /\ windowEnd' = IF detected' THEN login + WindowLength ELSE windowEnd
        /\ lastTouch' = IF detected' THEN login ELSE lastTouch
        /\ UNCHANGED <<now, login, lastLogin>> /\ stage' # "down"
        BY <1>2 DEF DaemonStart, StartPrediction, StartPaused, EndOfWindow
  <2>3. CASE login = NoLogin
        BY <2>1, <2>2, <2>3
  <2>4. CASE login # NoLogin
    <3>1. login \in Nat /\ windowEnd' = login + WindowLength /\ lastTouch' = login /\ detected'
          BY <2>1, <2>2, <2>4
    <3>2. windowEnd' \in Nat /\ windowEnd' <= login + WindowLength
          BY <3>1, PredictionAssumption
    <3>3. \E t \in {lastLogin', lastTouch'} \ {NoLogin} : windowEnd' <= t + WindowLength
          BY <2>4, <3>1, <3>2
    <3> QED
        BY <2>1, <2>2, <2>4, <3>1, <3>2, <3>3
  <2>5. QED
        BY <2>3, <2>4
<1>3. CASE DaemonStop /\ UNCHANGED now
  <2>1. UNCHANGED <<now, login, lastLogin, lastTouch>> /\ ~detected' /\ stage' = "down"
        BY <1>3 DEF DaemonStop, StopPaused, StopPrediction, logins
  <2>2. detected' \in BOOLEAN /\ done' \in BOOLEAN
        BY <1>3, Zenon DEF DaemonStop, StopPrediction
  <2> QED
      BY <2>1, <2>2
<1>4. CASE Boot /\ UNCHANGED now
  <2>1. UNCHANGED <<now, lastLogin, lastTouch>> /\ login' = NoLogin /\ ~detected'
        BY <1>4 DEF Boot, StopPrediction, logins
  <2>2. detected' \in BOOLEAN /\ done' \in BOOLEAN
        BY <1>4, Zenon DEF Boot, StopPrediction
  <2> QED
      BY <2>1, <2>2
<1>5. CASE Ctl /\ UNCHANGED <<now, predictionVars>>
  <2>1. UNCHANGED stage
        BY <1>5 DEF Ctl, CtlOpen, CtlClose, CtlResume, pauseState
  <2> QED
      BY <1>5, <2>1 DEF predictionVars, session, logins
<1>6. CASE User /\ UNCHANGED <<now, pauseVars>>
  <2>1. UNCHANGED stage
        BY <1>6 DEF pauseVars, pauseState
  <2>2. CASE Login
    <3>1. UNCHANGED <<now, detected, done, windowEnd, lastTouch>> /\ login' = now /\ lastLogin' = now
          BY <1>6, <2>2 DEF Login
    <3>2. detected => \E t \in {lastLogin', lastTouch'} \ {NoLogin} : windowEnd <= t + WindowLength
      <4> SUFFICES ASSUME detected
                   PROVE  \E t \in {lastLogin', lastTouch'} \ {NoLogin} : windowEnd <= t + WindowLength
          OBVIOUS
      <4>1. PICK t \in {lastLogin, lastTouch} \ {NoLogin} : windowEnd <= t + WindowLength
            OBVIOUS
      <4>2. now # NoLogin /\ windowEnd \in Nat /\ WindowLength \in Nat
            BY PredictionAssumption
      <4>3. CASE t = lastLogin
        <5>1. windowEnd <= now + WindowLength
              BY <4>1, <4>2, <4>3
        <5> QED
            BY <3>1, <4>2, <5>1
      <4>4. CASE t = lastTouch
            BY <3>1, <4>1, <4>4
      <4> QED
          BY <4>1, <4>3, <4>4
    <3>3. login' \in {lastLogin', lastTouch'} \ {NoLogin}
          BY <3>1, PredictionAssumption
    <3>4. lastLogin' <= now'
          BY <3>1
    <3> QED
        BY <2>1, <3>1, <3>2, <3>3, <3>4
  <2>3. CASE Touch
    <3>1. /\ UNCHANGED <<now, detected, done, windowEnd, lastLogin>> /\ login' = now
          /\ lastTouch' = IF detected THEN lastTouch ELSE now
          BY <1>6, <2>3 DEF Touch
    <3> QED
        BY <2>1, <3>1, PredictionAssumption
  <2>4. CASE Logout
        BY <1>6, <2>1, <2>4 DEF Logout, logins
  <2>5. CASE Reload
        BY <1>6, <2>1, <2>5 DEF Reload, session, logins
  <2>6. QED
        BY <1>6, <2>2, <2>3, <2>4, <2>5 DEF User
<1>7. CASE Elapse /\ UNCHANGED <<pauseVars, predictionVars>>
  <2>1. UNCHANGED <<login, detected, done, windowEnd, lastLogin, lastTouch, stage>> /\ now' = now + 1
        BY <1>7 DEF Elapse, pauseVars, pauseState, predictionVars, session, logins
  <2>2. lastLogin # NoLogin => lastLogin <= now + 1
        OBVIOUS
  <2> QED
      BY <2>1, <2>2
<1>8. CASE UNCHANGED vars
      BY <1>8 DEF vars, pauseVars, pauseState, predictionVars, session, logins
<1>9. QED
      BY <1>1, <1>2, <1>3, <1>4, <1>5, <1>6, <1>7, <1>8 DEF Next

\* A login noticed late, after a pause or a restart, gets no more of the boot window
\* than is left of it: what is boosted is boosted in it, or in the window of a change
\* of the directory before that (session.c:254, session.c:292).
THEOREM BoostsInWindow == Spec => BoostsAfterLogin
<1>1. ASSUME WindowInv, [Next]_vars, boosted' # {}, boosted' # boosted
      PROVE  InWindow(lastLogin) \/ InWindow(lastTouch)
  <2>1. UnpausedTick /\ Predict
        BY <1>1 DEF Next, Tick, DaemonStart, StartPrediction, DaemonStop, Boot,
             StopPrediction, User, Login, Touch, Logout, Reload, vars, predictionVars, scores
  <2>2. stage # "down"
        BY <2>1 DEF UnpausedTick, OpenTick, UnlinkedTick
  <2>3. now < windowEnd' /\ windowEnd' \in Nat
        BY <1>1, <2>1, <2>2, WindowChecked
  <2>4. PICK t \in {lastLogin, lastTouch} \ {NoLogin} : windowEnd' <= t + WindowLength
        BY <1>1, <2>1, <2>2, WindowChecked
  <2>5. InWindow(t)
        BY <1>1, <2>3, <2>4, PredictionAssumption DEF WindowInv, InWindow
  <2> QED
      BY <2>4, <2>5
<1>2. WindowInv /\ [Next]_vars =>
        [boosted' # {} /\ boosted' # boosted => InWindow(lastLogin) \/ InWindow(lastTouch)]_boosted
      BY <1>1
<1>3. QED
      BY <1>2, WindowInit, WindowStep, PTL DEF Spec, BoostsAfterLogin

-----------------------------------------------------------------------------
(* The prediction: sizes.                                                  *)

LEMMA TotalHolds ==
  ASSUME NEW S \in SUBSET Maps
  PROVE  Total(S) \in Nat
<1>1. IsFiniteSet(S) /\ \A m \in S : Size[m] \in Nat
      BY PredictionAssumption, FS_Subset
<1> QED
    BY <1>1, SumNat DEF Total

LEMMA SizeHolds ==
  ASSUME NEW f \in [Maps -> Nat]
  PROVE  SizeOf(f) \in Nat
<1> DEFINE part == [m \in Maps |-> f[m] * Size[m]]
<1>1. \A a, b \in Nat : a * b \in Nat
      OBVIOUS
<1>2. \A m \in Maps : part[m] \in Nat
      BY <1>1, PredictionAssumption
<1>3. SizeOf(f) = SumFunctionOnSet(part, Maps)
  <2>1. DOMAIN part = Maps
        OBVIOUS
  <2> QED
      BY <2>1 DEF SizeOf, SumFunction
<1>4. IsFiniteSet(Maps)
      BY PredictionAssumption
<1> HIDE DEF part
<1> QED
    BY <1>2, <1>3, <1>4, SumNat

(* The order of the maps.                                                  *)

\* What SetToSeqs gives for a finite set lists each element once.
LEMMA Listed ==
  ASSUME NEW S, IsFiniteSet(S), NEW o \in SetToSeqs(S)
  PROVE  /\ Len(o) \in Nat /\ \A i \in 1..Len(o) : o[i] \in S
         /\ \A x \in S : \E i \in 1..Len(o) : o[i] = x
<1> DEFINE n == Cardinality(S)
<1>1. n \in Nat
      BY FS_CardinalityType
<1>2. o \in [1..n -> S] /\ \A i, j \in 1..n : i # j => o[i] # o[j]
      BY DEF SetToSeqs
<1>3. Len(o) = n
  <2>1. o \in Seq(S)
        BY <1>1, <1>2, SeqDef
  <2>2. Len(o) \in Nat /\ DOMAIN o = 1..Len(o)
        BY <2>1, LenProperties
  <2>3. DOMAIN o = 1..n
        BY <1>2
  <2>4. \A k \in Nat : k \in 1..n <=> k \in 1..Len(o)
        BY <2>2, <2>3
  <2> HIDE DEF n
  <2>5. n > 0 => n \in 1..Len(o)
        BY <1>1, <2>4
  <2>6. Len(o) > 0 => Len(o) \in 1..n
        BY <2>2, <2>4
  <2>7. \A a, b \in Nat : (a > 0 => a \in 1..b) /\ (b > 0 => b \in 1..a) => a = b
        OBVIOUS
  <2> QED
      BY <1>1, <2>2, <2>5, <2>6, <2>7, Zenon
<1>4. o \in Injection(1..n, S)
      BY <1>2 DEF Injection, IsInjective
<1>5. Cardinality(1..n) = n
  <2> HIDE DEF n
  <2> QED
      BY <1>1, FS_Interval
<1>6. o \in Surjection(1..n, S)
      BY <1>4, <1>5, FS_Injection
<1>7. \A x \in S : \E i \in 1..n : o[i] = x
      BY <1>6 DEF Surjection
<1> QED
    BY <1>1, <1>2, <1>3, <1>7

\* What rises from each to the next rises from each to every later one.
LEMMA RisesThroughout ==
  ASSUME NEW f, NEW n \in Nat, \A i \in 1..n : f[i] \in Int,
         \A i \in 1..n - 1 : f[i] <= f[i + 1],
         NEW i \in 1..n, NEW j \in 1..n, i <= j
  PROVE  f[i] <= f[j]
<1> DEFINE Good == {d \in Nat : i + d \in 1..n => f[i] <= f[i + d]}
<1>1. 0 \in Good
      OBVIOUS
<1>2. ASSUME NEW d \in Good PROVE d + 1 \in Good
  <2> SUFFICES ASSUME i + (d + 1) \in 1..n PROVE f[i] <= f[i + (d + 1)]
      OBVIOUS
  <2>1. /\ i + d \in 1..n /\ i + d \in 1..n - 1
        /\ i + (d + 1) = (i + d) + 1
        OBVIOUS
  <2>2. f[i] <= f[i + d] /\ f[i + d] <= f[(i + d) + 1]
        BY <2>1
  <2>3. f[i] \in Int /\ f[i + d] \in Int /\ f[(i + d) + 1] \in Int
        BY <2>1
  <2> QED
      BY <2>1, <2>2, <2>3
<1>3. Good = Nat
  <2>1. Good \in SUBSET Nat
        OBVIOUS
  <2> HIDE DEF Good
  <2> QED
      BY <1>1, <1>2, <2>1, SetOfAllNumbers
<1>4. j - i \in Nat /\ i + (j - i) = j
      OBVIOUS
<1>5. j - i \in Good
      BY <1>3, <1>4
<1> QED
    BY <1>4, <1>5

-----------------------------------------------------------------------------
(* What a prediction loads and chooses.                                    *)

LEMMA PrefixFits ==
  ASSUME NEW o, Len(o) \in Nat
  PROVE  \E k \in 0..Len(o) : Fits(o, k) /\ Prefix(o) = {o[i] : i \in 1..k}
<1> DEFINE Good == {k \in 0..Len(o) : Fits(o, k)}
<1>1. 0 \in Good
      BY DEF Fits
<1>2. Good \in SUBSET Nat /\ \A k \in Good : k <= Len(o)
      OBVIOUS
<1>3. Max(Good) \in Good
  <2> HIDE DEF Good
  <2>1. PICK k \in Good : \A other \in Good : other <= k
        BY <1>1, <1>2, GreatestNumber
  <2>2. \A other \in Good : k >= other
        BY <1>2, <2>1
  <2> QED
      BY <2>1, <2>2, Zenon DEF Max
<1>4. Prefix(o) = {o[i] : i \in 1..Max(Good)}
      BY DEF Prefix
<1> QED
    BY <1>3, <1>4

LEMMA SortedOnes ==
  ASSUME NEW o \in Sorted
  PROVE  /\ Len(o) \in Nat /\ \A i \in 1..Len(o) : o[i] \in Registered /\ MapScore(o[i]) < 0
         /\ \A m \in Registered : MapScore(m) < 0 => \E i \in 1..Len(o) : o[i] = m
         /\ \A i \in 1..Len(o) - 1 : MapScore(o[i]) <= MapScore(o[i + 1])
<1> DEFINE S == {m \in Registered : MapScore(m) < 0}
           score == [m \in Registered |-> MapScore(m)]
<1>1. S = {m \in Registered : score[m] < 0}
      OBVIOUS
<1>2. /\ o \in SetToSeqs({m \in Registered : score[m] < 0})
      /\ \A i \in 1..Len(o) - 1 : score[o[i]] <= score[o[i + 1]]
      BY DEF Sorted
<1>3. o \in SetToSeqs(S)
      BY <1>1, <1>2
<1>4. S \in SUBSET Maps /\ IsFiniteSet(S)
  <2>1. S \in SUBSET Maps
        BY DEF Registered
  <2> QED
      BY <2>1, PredictionAssumption, FS_Subset
<1>5. /\ Len(o) \in Nat /\ \A i \in 1..Len(o) : o[i] \in S
      /\ \A x \in S : \E i \in 1..Len(o) : o[i] = x
  <2> HIDE DEF S
  <2> QED
      BY <1>3, <1>4, Listed
<1>6. ASSUME NEW i \in 1..Len(o) - 1 PROVE MapScore(o[i]) <= MapScore(o[i + 1])
  <2>1. i \in 1..Len(o) /\ i + 1 \in 1..Len(o)
        BY <1>5
  <2>2. o[i] \in Registered /\ o[i + 1] \in Registered
        BY <1>5, <2>1
  <2>3. score[o[i]] <= score[o[i + 1]]
        BY <1>2
  <2>4. score[o[i]] = MapScore(o[i]) /\ score[o[i + 1]] = MapScore(o[i + 1])
        BY <2>2
  <2> QED
      BY <2>3, <2>4
<1> QED
    BY <1>5, <1>6

LEMMA PrefixRegistered ==
  ASSUME NEW o \in Sorted
  PROVE  Prefix(o) \subseteq Registered /\ Registered \subseteq Maps
<1>1. Len(o) \in Nat /\ \A i \in 1..Len(o) : o[i] \in Registered
      BY SortedOnes
<1>2. PICK k \in 0..Len(o) : Prefix(o) = {o[i] : i \in 1..k}
      BY <1>1, PrefixFits
<1>3. \A i \in 1..k : i \in 1..Len(o)
      BY <1>1
<1> QED
    BY <1>1, <1>2, <1>3 DEF Registered

LEMMA ScoreInt ==
  ASSUME PredictionTypeOK, NEW m \in Maps
  PROVE  MapScore(m) \in Int
<1> DEFINE bidding == [e \in Exes |-> exemaps[e][m] * (IF e \in running THEN 1 ELSE lnprob[e])]
<1>1. \A a \in Nat, b \in Int : a * b \in Int
      OBVIOUS
<1>2. \A e \in Exes : exemaps[e][m] \in Nat /\ lnprob[e] \in Int
      BY DEF PredictionTypeOK
<1>3. \A e \in Exes : bidding[e] \in Int
      BY <1>1, <1>2
<1>4. DOMAIN bidding = Exes
      OBVIOUS
<1>5. MapScore(m) = SumFunctionOnSet(bidding, Exes)
      BY <1>4 DEF MapScore, SumFunction
<1> HIDE DEF bidding
<1> QED
    BY <1>3, <1>5, SumInt, PredictionAssumption

\* What was chosen is a beginning of the needed maps in the order of their scores,
\* and fits in the budget of that tick.
SomeChosen == chosen = {} \/ (memory # <<>> /\ \E o \in Sorted : chosen = Prefix(o))

LEMMA ChosenRight == PredictionTypeOK /\ SomeChosen => MostNeededFirst
<1> SUFFICES ASSUME PredictionTypeOK, chosen # {}, NEW o \in Sorted, chosen = Prefix(o)
             PROVE  MostNeededFirst
    BY DEF SomeChosen, MostNeededFirst
<1>1. /\ Len(o) \in Nat /\ \A i \in 1..Len(o) : o[i] \in Registered /\ MapScore(o[i]) < 0
      /\ \A m \in Registered : MapScore(m) < 0 => \E i \in 1..Len(o) : o[i] = m
      /\ \A i \in 1..Len(o) - 1 : MapScore(o[i]) <= MapScore(o[i + 1])
      BY SortedOnes
<1>2. PICK k \in 0..Len(o) : chosen = {o[i] : i \in 1..k}
      BY <1>1, PrefixFits
<1>3. \A i \in 1..k : i \in 1..Len(o)
      BY <1>1
<1>4. \A m \in Registered : m \in Maps /\ MapScore(m) \in Int
      BY ScoreInt DEF Registered
<1>5. ASSUME NEW m \in chosen, NEW n \in Registered \ chosen
      PROVE  MapScore(m) <= MapScore(n)
  <2>1. PICK i \in 1..k : m = o[i]
        BY <1>2
  <2>2. m \in Registered /\ MapScore(m) < 0 /\ i \in 1..Len(o)
        BY <1>1, <1>3, <2>1
  <2>3. CASE ~(MapScore(n) < 0)
        BY <1>4, <2>2, <2>3
  <2>4. CASE MapScore(n) < 0
    <3>1. PICK j \in 1..Len(o) : o[j] = n
          BY <1>1, <2>4
    <3>2. j \notin 1..k
          BY <1>2, <3>1
    <3>3. i <= j
          BY <1>1, <3>1, <3>2, <2>1
    <3> DEFINE f == [x \in 1..Len(o) |-> MapScore(o[x])]
    <3>4. \A x \in 1..Len(o) : f[x] \in Int
          BY <1>1, <1>4
    <3>5. \A x \in 1..Len(o) - 1 : f[x] <= f[x + 1]
      <4>1. \A x \in 1..Len(o) - 1 : x \in 1..Len(o) /\ x + 1 \in 1..Len(o)
            BY <1>1
      <4> QED
          BY <1>1, <4>1
    <3>6. f[i] = MapScore(m) /\ f[j] = MapScore(n)
          BY <2>1, <2>2, <3>1
    <3> HIDE DEF f
    <3>7. f[i] <= f[j]
          BY <1>1, <2>2, <3>3, <3>4, <3>5, RisesThroughout
    <3> QED
        BY <3>6, <3>7
  <2> QED
      BY <2>3, <2>4
<1>6. \A m \in chosen : MapScore(m) < 0
      BY <1>1, <1>2, <1>3
<1> QED
    BY <1>5, <1>6 DEF MostNeededFirst

LEMMA ChosenMaps == SomeChosen => chosen \subseteq Maps
  BY PrefixRegistered DEF SomeChosen

-----------------------------------------------------------------------------
(* The budget.                                                             *)

\* A map has no more bytes than its kilobytes hold.
LEMMA KbHolds ==
  ASSUME NEW m \in Maps
  PROVE  Kb(m) \in Nat /\ Size[m] <= Kilobyte * Kb(m)
<1> DEFINE q == (Size[m] + Kilobyte - 1) \div Kilobyte
<1>1. Size[m] \in Nat \ {0} /\ Kilobyte \in Nat \ {0}
      BY PredictionAssumption
<1>2. \A a \in Nat, k \in Nat \ {0} : a \div k \in Nat /\ a < k * (a \div k) + k
      OBVIOUS
<1>3. Size[m] + Kilobyte - 1 \in Nat
      BY <1>1
<1>4. q \in Nat /\ Size[m] + Kilobyte - 1 < Kilobyte * q + Kilobyte
      BY <1>1, <1>2, <1>3
<1>5. Kilobyte * q \in Nat
      BY <1>1, <1>4
<1> HIDE DEF q
<1>6. Size[m] <= Kilobyte * q
      BY <1>1, <1>4, <1>5
<1> QED
    BY <1>4, <1>6 DEF q, Kb

\* No more than p percent of n is p times a hundredth of n, rounded down.
LEMMA HundredthHolds ==
  ASSUME NEW n \in Nat, NEW p \in Int, p <= 100
  PROVE  /\ p * (n \div 100) \in Int /\ p * (n \div 100) <= n
         /\ p <= 0 => p * (n \div 100) <= 0
<1>1. n \div 100 \in Nat /\ 100 * (n \div 100) <= n
      OBVIOUS
<1>2. \A q \in Nat : p * q \in Int /\ p * q <= 100 * q /\ (p <= 0 => p * q <= 0)
      OBVIOUS
<1> QED
    BY <1>1, <1>2

\* The budget is no more than what is free, or cached where some of that is asked for.
LEMMA BudgetHolds ==
  ASSUME NEW c \in Percents, NEW s \in Memories, c.memtotal <= 0
  PROVE  /\ Budget(c, s) \in Int
         /\ Budget(c, s) <= s.free + IF c.memcached > 0 THEN s.cached ELSE 0
<1> DEFINE x == Clamp(c.memtotal) * (s.total \div 100)
           y == Clamp(c.memfree) * (s.free \div 100)
           z == Clamp(c.memcached) * (s.cached \div 100)
<1>1. /\ c.memtotal \in Int /\ c.memfree \in 0..100 /\ c.memcached \in Int
      /\ s.total \in Nat /\ s.free \in Nat /\ s.cached \in Nat
      BY PredictionAssumption
<1>2. \A v \in Int : Clamp(v) \in Int /\ Clamp(v) <= 100 /\ (v <= 0 => Clamp(v) <= 0)
      BY DEF Clamp
<1>3. x \in Int /\ x <= 0
      BY <1>1, <1>2, HundredthHolds
<1>4. y \in Int /\ y <= s.free
      BY <1>1, <1>2, HundredthHolds
<1>5. z \in Int /\ z <= IF c.memcached > 0 THEN s.cached ELSE 0
      BY <1>1, <1>2, HundredthHolds
<1>6. Budget(c, s) = (IF x + y > 0 THEN x + y ELSE 0) + z
      BY DEF Budget
<1> HIDE DEF x, y, z
<1> QED
    BY <1>1, <1>3, <1>4, <1>5, <1>6

LEMMA ChosenFits ==
  ASSUME PredictionTypeOK, SomeChosen
  PROVE  FreeMemoryOnly
<1> SUFFICES ASSUME chosen # {}, memory[1].memtotal <= 0, NEW o \in Sorted, chosen = Prefix(o)
             PROVE  Total(chosen) <= Kilobyte * (memory[2].free +
                      IF memory[1].memcached > 0 THEN memory[2].cached ELSE 0)
    BY DEF SomeChosen, FreeMemoryOnly
<1> DEFINE kb == [m \in Maps |-> Kb(m)]
           c == memory[1]
           s == memory[2]
           room == s.free + IF c.memcached > 0 THEN s.cached ELSE 0
<1>1. memory # <<>> /\ c \in Percents /\ s \in Memories
      BY DEF PredictionTypeOK, SomeChosen
<1>2. PICK k \in 0..Len(o) : Fits(o, k) /\ chosen = {o[i] : i \in 1..k}
      BY PrefixFits, SortedOnes
<1>3. k # 0
      BY <1>2
<1>4. SumFunctionOnSet(kb, chosen) <= memavail
      BY <1>2, <1>3 DEF Fits
<1>5. memavail \in Int /\ memavail <= room
      BY <1>1, BudgetHolds DEF memavail
<1>6. /\ IsFiniteSet(chosen)
      /\ \A m \in chosen : Size[m] \in Nat /\ kb[m] \in Nat /\ Size[m] <= Kilobyte * kb[m]
  <2>1. chosen \subseteq Maps
        BY DEF PredictionTypeOK
  <2> QED
      BY <2>1, KbHolds, PredictionAssumption, FS_Subset
<1>7. Kilobyte \in Nat
      BY PredictionAssumption
<1>8. room \in Nat
      BY <1>1, PredictionAssumption
<1> HIDE DEF kb, room
<1>9. SumFunctionOnSet(kb, chosen) \in Nat
      BY <1>6, SumNat
<1>10. Total(chosen) <= Kilobyte * SumFunctionOnSet(kb, chosen)
      BY <1>6, <1>7, SumScaled DEF Total
<1>11. SumFunctionOnSet(kb, chosen) <= room
      BY <1>4, <1>5, <1>8, <1>9
<1>12. \A a, b \in Nat : a <= b => Kilobyte * a <= Kilobyte * b /\ Kilobyte * a \in Nat /\ Kilobyte * b \in Nat
      BY <1>7
<1>13. Total(chosen) \in Nat
      BY TotalHolds DEF PredictionTypeOK
<1>14. Total(chosen) <= Kilobyte * room
      BY <1>8, <1>9, <1>10, <1>11, <1>12, <1>13
<1> QED
    BY <1>14 DEF room

-----------------------------------------------------------------------------
(* The exemaps.                                                            *)

\* One exemap of an application for a map that is not its discovery's or a stray one.
Counted ==
  \A e \in Exes, m \in Maps :
    exemaps[e][m] <= 1 \/ exemaps[e][m] <= Learned[e][m] \/ <<e, m>> \in strayed

LEMMA LoadTyped ==
  ASSUME PredictionTypeOK, NEW N \in [Exes -> [Maps -> Nat]], NEW M \in [Exes -> [Maps -> Nat]],
         Load(N, M)
  PROVE  /\ exemaps' \in [Exes -> [Maps -> Nat]] /\ refused' \in [Exes -> [Maps -> Nat]]
         /\ \A e \in Exes, m \in Maps : exemaps'[e][m] = exemaps[e][m] \/ exemaps'[e][m] = 1
<1>1. PICK first \in [Entering(N, M) -> Exes] :
        /\ \A m \in Entering(N, M) : First(N, M, m, first[m])
        /\ LET accepted == {<<first[m], m>> : m \in Entering(N, M)}
               took == [e \in Exes |-> [m \in Maps |-> IF <<e, m>> \in accepted THEN 1 ELSE 0]]
           IN  /\ exemaps' = [e \in Exes |-> [m \in Maps |-> exemaps[e][m] + took[e][m]]]
               /\ refused' = [e \in Exes |-> [m \in Maps |->
                                refused[e][m] + N[e][m] + M[e][m] - took[e][m]]]
      BY DEF Load
<1> DEFINE accepted == {<<first[m], m>> : m \in Entering(N, M)}
           took(e, m) == IF <<e, m>> \in accepted THEN 1 ELSE 0
<1>2. /\ exemaps' = [e \in Exes |-> [m \in Maps |-> exemaps[e][m] + took(e, m)]]
      /\ refused' = [e \in Exes |-> [m \in Maps |-> refused[e][m] + N[e][m] + M[e][m] - took(e, m)]]
      BY <1>1
<1>3. ASSUME NEW e \in Exes, NEW m \in Maps, <<e, m>> \in accepted
      PROVE  exemaps[e][m] = 0 /\ N[e][m] + M[e][m] > 0
  <2>1. m \in Entering(N, M) /\ first[m] = e
        BY <1>3
  <2>2. First(N, M, m, e)
        BY <1>1, <2>1
  <2>3. N[e][m] > 0 \/ M[e][m] > 0
        BY <2>2 DEF First, Loading
  <2>4. ~(exemaps[e][m] > 0) /\ exemaps[e][m] \in Nat
        BY <2>1 DEF Entering, Registered, PredictionTypeOK
  <2> QED
      BY <2>3, <2>4
<1> HIDE DEF accepted
<1>4. ASSUME NEW e \in Exes, NEW m \in Maps
      PROVE  /\ exemaps[e][m] + took(e, m) \in Nat
             /\ refused[e][m] + N[e][m] + M[e][m] - took(e, m) \in Nat
             /\ exemaps[e][m] + took(e, m) \in {exemaps[e][m], 1}
  <2>1. exemaps[e][m] \in Nat /\ refused[e][m] \in Nat
        BY DEF PredictionTypeOK
  <2>2. N[e][m] \in Nat /\ M[e][m] \in Nat
        OBVIOUS
  <2> QED
      BY <1>3, <2>1, <2>2
<1> HIDE DEF took
<1> QED
    BY <1>2, <1>4

\* What a session and the manual list load.
LEMMA NewOnes ==
  ASSUME PredictionTypeOK, NEW R \in SUBSET Exes, NEW T \in SUBSET Exes, NEW N, N = SessionNew(T)
  PROVE  /\ N \in [Exes -> [Maps -> Nat]] /\ ManualNew(N, R) \in [Exes -> [Maps -> Nat]]
         /\ ManualSize(SessionSize(T), ManualNew(N, R)) \in [Exes -> Nat]
<1>1. \A e \in Exes : SessionLoads(e) \in [Maps -> Nat]
  <2>1. \A e \in Exes, m \in Maps : Libs[e][m] \in Nat
        BY PredictionAssumption
  <2> QED
      BY <2>1 DEF SessionLoads
<1>2. N \in [Exes -> [Maps -> Nat]]
      BY <1>1 DEF SessionNew
<1>3. ManualNew(N, R) \in [Exes -> [Maps -> Nat]]
      BY DEF ManualNew
<1>4. \A e \in Exes : SessionSize(T)[e] \in Nat
  <2>1. \A e \in Exes : SizeOf(SessionLoads(e)) \in Nat /\ size[e] \in Nat
        BY <1>1, SizeHolds DEF PredictionTypeOK
  <2> QED
      BY <2>1 DEF SessionSize
<1>5. \A e \in Exes : SizeOf(ManualNew(N, R)[e]) \in Nat
      BY <1>3, SizeHolds
<1>6. ManualSize(SessionSize(T), ManualNew(N, R)) \in [Exes -> Nat]
      BY <1>4, <1>5 DEF ManualSize
<1> QED
    BY <1>2, <1>3, <1>6

LEMMA NewScores ==
  ASSUME PredictionTypeOK, NEW R \in SUBSET Exes, NEW bid \in [Exes \ R -> Bids]
  PROVE  Score(R, bid) \in [Exes -> Int]
<1> DEFINE base(e) == IF e \in Boosts(R) THEN -10 ELSE Zero(e)
           b(e) == IF e \in R THEN 0 ELSE bid[e]
<1>1. Score(R, bid) = [e \in Exes |-> base(e) + b(e)]
      BY DEF Score
<1>2. \A e \in Exes : base(e) \in Int
      BY DEF Zero
<1>3. \A e \in Exes : b(e) \in Int
      BY PredictionAssumption
<1> HIDE DEF base, b
<1> QED
    BY <1>1, <1>2, <1>3

-----------------------------------------------------------------------------
(* The steps.                                                              *)

LEMMA ChosenInit == Init => PredictionTypeOK /\ SomeChosen /\ Counted
<1> SUFFICES ASSUME Init PROVE PredictionTypeOK /\ SomeChosen /\ Counted
    OBVIOUS
<1>1. PredictionInit
      BY DEF Init
<1>2. size \in [Exes -> Nat]
  <2>1. \A e \in Exes : SizeOf(Learned[e]) \in Nat
        BY SizeHolds, PredictionAssumption
  <2> QED
      BY <1>1, <2>1 DEF PredictionInit
<1>3. detected \in BOOLEAN /\ done \in BOOLEAN
      BY <1>1, Zenon DEF PredictionInit
<1>4. /\ login \in Nat \cup {NoLogin} /\ lastLogin \in Nat \cup {NoLogin}
      /\ lastTouch \in Nat \cup {NoLogin} /\ windowEnd \in Nat
      /\ minsize \in MinSizes /\ manual \subseteq Exes /\ black \subseteq Exes
      /\ lnprob \in [Exes -> Int] /\ refused \in [Exes -> [Maps -> Nat]]
      /\ running \subseteq Exes /\ memory \in {<<>>} \cup (Percents \X Memories)
      /\ chosen \subseteq Maps /\ boosted \subseteq Exes \ running /\ strayed \subseteq Exes \X Maps
      BY <1>1, PredictionAssumption DEF PredictionInit, None
<1>5. exemaps \in [Exes -> [Maps -> Nat]]
      BY <1>1, PredictionAssumption DEF PredictionInit
<1>6. PredictionTypeOK
      BY <1>2, <1>3, <1>4, <1>5, Zenon DEF PredictionTypeOK
<1>7. Counted
  <2>1. \A e \in Exes, m \in Maps : exemaps[e][m] = Learned[e][m] /\ Learned[e][m] \in Nat
        BY <1>1, PredictionAssumption DEF PredictionInit
  <2> QED
      BY <2>1 DEF Counted
<1> QED
    BY <1>1, <1>6, <1>7 DEF PredictionInit, SomeChosen

LEMMA PredictMade ==
  ASSUME now \in Nat, PredictionTypeOK, Counted, Predict
  PROVE  PredictionTypeOK' /\ SomeChosen' /\ Counted'
<1>1. /\ CheckSession
      /\ \E R \in SUBSET Exes : \E T \in {{}} \cup IF InBootWindow THEN TopApps(R) ELSE {} :
          /\ Load(SessionNew(T), ManualNew(SessionNew(T), R))
          /\ size' = ManualSize(SessionSize(T), ManualNew(SessionNew(T), R))
          /\ \E bid \in [Exes \ R -> Bids] : lnprob' = Score(R, bid)
          /\ running' = R /\ boosted' = T
          /\ \E o \in Sorted' : memory' \in Percents \X Memories /\ chosen' = Prefix(o)'
      /\ UNCHANGED <<login, settings, logins, strayed>>
      BY DEF Predict
<1>2. PICK R \in SUBSET Exes : \E T \in {{}} \cup IF InBootWindow THEN TopApps(R) ELSE {} :
          /\ Load(SessionNew(T), ManualNew(SessionNew(T), R))
          /\ size' = ManualSize(SessionSize(T), ManualNew(SessionNew(T), R))
          /\ \E bid \in [Exes \ R -> Bids] : lnprob' = Score(R, bid)
          /\ running' = R /\ boosted' = T
          /\ \E o \in Sorted' : memory' \in Percents \X Memories /\ chosen' = Prefix(o)'
      BY <1>1
<1>3. PICK T \in {{}} \cup IF InBootWindow THEN TopApps(R) ELSE {} :
          /\ Load(SessionNew(T), ManualNew(SessionNew(T), R))
          /\ size' = ManualSize(SessionSize(T), ManualNew(SessionNew(T), R))
          /\ \E bid \in [Exes \ R -> Bids] : lnprob' = Score(R, bid)
          /\ running' = R /\ boosted' = T
          /\ \E o \in Sorted' : memory' \in Percents \X Memories /\ chosen' = Prefix(o)'
      BY <1>2
<1> DEFINE N == SessionNew(T)
           M == ManualNew(N, R)
<1>4. T \in SUBSET (Exes \ R) /\ T \in SUBSET Exes
      BY DEF TopApps, Candidates
<1>5. /\ N \in [Exes -> [Maps -> Nat]] /\ M \in [Exes -> [Maps -> Nat]]
      /\ ManualSize(SessionSize(T), M) \in [Exes -> Nat]
      BY <1>4, NewOnes
<1>6. Load(N, M) /\ size' = ManualSize(SessionSize(T), M)
      BY <1>3
<1>7. PICK bid \in [Exes \ R -> Bids] : lnprob' = Score(R, bid)
      BY <1>3
<1>8. PICK o \in Sorted' : memory' \in Percents \X Memories /\ chosen' = Prefix(o)'
      BY <1>3
<1>9. running' = R /\ boosted' = T
      BY <1>3
<1> HIDE DEF N, M
<1>10. /\ exemaps' \in [Exes -> [Maps -> Nat]] /\ refused' \in [Exes -> [Maps -> Nat]]
       /\ \A e \in Exes, m \in Maps : exemaps'[e][m] = exemaps[e][m] \/ exemaps'[e][m] = 1
      BY <1>5, <1>6, LoadTyped
<1>11. size' \in [Exes -> Nat]
      BY <1>5, <1>6
<1>12. lnprob' \in [Exes -> Int]
      BY <1>7, NewScores
<1>13. /\ running' \subseteq Exes /\ boosted' \subseteq Exes \ running'
       /\ memory' \in {<<>>} \cup (Percents \X Memories)
      BY <1>4, <1>8, <1>9
<1>14. SomeChosen'
  <2>1. memory' # <<>>
        BY <1>8
  <2> QED
      BY <1>8, <2>1 DEF SomeChosen
<1>15. chosen' \subseteq Maps
  <2>1. (SomeChosen => chosen \subseteq Maps)'
        BY ChosenMaps, PTL
  <2> QED
      BY <1>14, <2>1
<1>16. detected' \in BOOLEAN /\ done' \in BOOLEAN
      BY <1>1, Zenon DEF CheckSession, PredictionTypeOK
<1>17. windowEnd' \in Nat
  <2>1. windowEnd' = IF detected' /\ ~detected THEN login + WindowLength ELSE windowEnd
        BY <1>1 DEF CheckSession, EndOfWindow
  <2>2. detected' /\ ~detected => login # NoLogin
        BY <1>1, Zenon DEF CheckSession
  <2>3. windowEnd \in Nat /\ login \in Nat \cup {NoLogin}
        BY DEF PredictionTypeOK
  <2> QED
      BY <2>1, <2>2, <2>3, PredictionAssumption
<1>18. /\ login' \in Nat \cup {NoLogin} /\ lastLogin' \in Nat \cup {NoLogin}
       /\ lastTouch' \in Nat \cup {NoLogin} /\ strayed' \subseteq Exes \X Maps
       /\ minsize' \in MinSizes /\ manual' \subseteq Exes /\ black' \subseteq Exes
  <2>1. UNCHANGED <<login, lastLogin, lastTouch, strayed, minsize, manual, black>>
        BY <1>1 DEF settings, logins
  <2> QED
      BY <2>1 DEF PredictionTypeOK
<1>19. PredictionTypeOK'
      BY <1>10, <1>11, <1>12, <1>13, <1>15, <1>16, <1>17, <1>18, Zenon DEF PredictionTypeOK
<1>20. Counted'
  <2>1. strayed' = strayed
        BY <1>1
  <2> SUFFICES ASSUME NEW e \in Exes, NEW m \in Maps, <<e, m>> \notin strayed
               PROVE  exemaps'[e][m] <= 1 \/ exemaps'[e][m] <= Learned[e][m]
      BY <2>1 DEF Counted
  <2>2. exemaps[e][m] <= 1 \/ exemaps[e][m] <= Learned[e][m]
        BY DEF Counted
  <2>3. exemaps'[e][m] = exemaps[e][m] \/ exemaps'[e][m] = 1
        BY <1>10
  <2> QED
      BY <2>2, <2>3
<1> QED
    BY <1>14, <1>19, <1>20

\* What was chosen depends on the scores and the memory only.
LEMMA ScoresKept ==
  ASSUME UNCHANGED scores, SomeChosen, Counted
  PROVE  SomeChosen' /\ Counted'
<1>1. UNCHANGED <<exemaps, refused, lnprob, running, memory, chosen, strayed>>
      BY DEF scores
<1>2. Counted'
      BY <1>1 DEF Counted
<1>3. SomeChosen'
  <2>1. Registered' = Registered
        BY <1>1 DEF Registered
  <2>2. \A m \in Registered : MapScore(m)' = MapScore(m)
        BY <1>1 DEF MapScore
  <2>3. Sorted' = Sorted
        BY <2>1, <2>2 DEF Sorted
  <2>4. \A o \in Sorted : Prefix(o)' = Prefix(o)
        BY <1>1 DEF Prefix, Fits, memavail
  <2> QED
      BY <1>1, <2>3, <2>4 DEF SomeChosen
<1> QED
    BY <1>2, <1>3

\* A restart keeps the exemaps the state file holds, or some of them, and strays.
LEMMA StopMade ==
  ASSUME PredictionTypeOK, Counted, StopPrediction, login' \in Nat \cup {NoLogin}
  PROVE  PredictionTypeOK' /\ SomeChosen' /\ Counted'
<1>1. PICK kept \in Kept, stray \in Strays :
        /\ exemaps' = [e \in Exes |-> [m \in Maps |-> kept[e][m] + stray[e][m]]]
        /\ strayed' = {x \in strayed : kept[x[1]][x[2]] > 0}
                         \cup {x \in Exes \X Maps : stray[x[1]][x[2]] > 0}
      BY DEF StopPrediction
<1>2. \A e \in Exes, m \in Maps : exemaps[e][m] \in Nat /\ Learned[e][m] \in Nat
      BY PredictionAssumption DEF PredictionTypeOK
<1>3. \A e \in Exes, m \in Maps : kept[e][m] \in Nat /\ kept[e][m] <= exemaps[e][m]
  <2>1. CASE refused = None
        BY <1>2, <2>1 DEF Kept
  <2>2. CASE refused # None
    <3>1. kept \in [Exes -> [Maps -> 0..MaxCount]]
          BY <2>2 DEF Kept
    <3>2. \A e \in Exes, m \in Maps : kept[e][m] <= exemaps[e][m]
          BY <2>2 DEF Kept
    <3> QED
        BY <3>1, <3>2, PredictionAssumption
  <2> QED
      BY <2>1, <2>2
<1>4. \A e \in Exes, m \in Maps : stray[e][m] \in Nat
  <2>1. stray \in [Exes -> [Maps -> 0..MaxStrays]]
        BY DEF Strays
  <2> QED
      BY <2>1, PredictionAssumption
<1>5. exemaps' \in [Exes -> [Maps -> Nat]]
      BY <1>1, <1>3, <1>4
<1>6. Counted'
  <2> SUFFICES ASSUME NEW e \in Exes, NEW m \in Maps, <<e, m>> \notin strayed'
               PROVE  exemaps'[e][m] <= 1 \/ exemaps'[e][m] <= Learned[e][m]
      BY DEF Counted
  <2>1. stray[e][m] = 0
        BY <1>1, <1>4
  <2>2. exemaps'[e][m] = kept[e][m]
        BY <1>1, <1>3, <2>1
  <2>3. <<e, m>> \in strayed => kept[e][m] = 0
        BY <1>1, <1>3
  <2>4. exemaps[e][m] <= 1 \/ exemaps[e][m] <= Learned[e][m] \/ <<e, m>> \in strayed
        BY DEF Counted
  <2> QED
      BY <1>2, <1>3, <2>2, <2>3, <2>4
<1>7. size' \in [Exes -> Nat]
  <2>1. size' = [e \in Exes |-> SizeOf(exemaps'[e])]
        BY DEF StopPrediction
  <2>2. \A e \in Exes : SizeOf(exemaps'[e]) \in Nat
        BY <1>5, SizeHolds
  <2> QED
      BY <2>1, <2>2
<1>8. detected' \in BOOLEAN /\ done' \in BOOLEAN
      BY Zenon DEF StopPrediction
<1>9. /\ lastLogin' \in Nat \cup {NoLogin} /\ lastTouch' \in Nat \cup {NoLogin} /\ windowEnd' \in Nat
      /\ minsize' \in MinSizes /\ manual' \subseteq Exes /\ black' \subseteq Exes
      BY DEF StopPrediction, settings, logins, PredictionTypeOK
<1>10. /\ lnprob' = [e \in Exes |-> 0] /\ refused' = None /\ running' = {} /\ memory' = <<>>
       /\ chosen' = {} /\ boosted' = {}
      BY DEF StopPrediction
<1>11. /\ lnprob' \in [Exes -> Int] /\ refused' \in [Exes -> [Maps -> Nat]]
       /\ running' \subseteq Exes /\ memory' \in {<<>>} \cup (Percents \X Memories)
       /\ chosen' \subseteq Maps /\ boosted' \subseteq Exes \ running'
      BY <1>10 DEF None
<1>12. strayed' \subseteq Exes \X Maps
      BY <1>1 DEF PredictionTypeOK
<1>13. PredictionTypeOK'
      BY <1>5, <1>7, <1>8, <1>9, <1>11, <1>12, Zenon DEF PredictionTypeOK
<1> QED
    BY <1>6, <1>10, <1>13 DEF SomeChosen

ChosenInv == now \in Nat /\ PredictionTypeOK /\ SomeChosen /\ Counted

LEMMA ChosenStep == ChosenInv /\ [Next]_vars => ChosenInv'
<1> SUFFICES ASSUME ChosenInv, [Next]_vars PROVE ChosenInv'
    OBVIOUS
<1>1. now \in Nat /\ PredictionTypeOK /\ SomeChosen /\ Counted
      BY DEF ChosenInv
<1>2. CASE Tick /\ UNCHANGED now
  <2>1. CASE Predict
        BY <1>1, <1>2, <2>1, PredictMade DEF ChosenInv
  <2>2. CASE UNCHANGED predictionVars
    <3>1. UNCHANGED <<scores, session, settings, logins>>
          BY <2>2 DEF predictionVars
    <3>2. PredictionTypeOK'
          BY <1>1, <3>1 DEF PredictionTypeOK, scores, session, settings, logins
    <3> QED
        BY <1>1, <1>2, <3>1, <3>2, ScoresKept DEF ChosenInv
  <2> QED
      BY <1>2, <2>1, <2>2 DEF Tick
<1>3. CASE DaemonStart /\ UNCHANGED now
  <2>1. /\ UNCHANGED <<login, settings, scores, lastLogin, now>>
        /\ windowEnd' = IF detected' THEN login + WindowLength ELSE windowEnd
        /\ lastTouch' = IF detected' THEN login ELSE lastTouch
        BY <1>3 DEF DaemonStart, StartPrediction, EndOfWindow
  <2>2. detected' \in BOOLEAN /\ done' \in BOOLEAN /\ (detected' <=> login # NoLogin)
        BY <1>3, Zenon DEF DaemonStart, StartPrediction
  <2>3. windowEnd' \in Nat /\ lastTouch' \in Nat \cup {NoLogin}
        BY <1>1, <2>1, <2>2, PredictionAssumption DEF PredictionTypeOK
  <2>4. PredictionTypeOK'
        BY <1>1, <2>1, <2>2, <2>3 DEF PredictionTypeOK, settings, scores
  <2> QED
      BY <1>1, <2>1, <2>4, ScoresKept DEF ChosenInv
<1>4. CASE DaemonStop /\ UNCHANGED now
  <2>1. StopPrediction /\ login' \in Nat \cup {NoLogin}
        BY <1>1, <1>4 DEF DaemonStop, PredictionTypeOK
  <2> QED
      BY <1>1, <1>4, <2>1, StopMade DEF ChosenInv
<1>5. CASE Boot /\ UNCHANGED now
  <2>1. StopPrediction /\ login' \in Nat \cup {NoLogin}
        BY <1>5 DEF Boot
  <2> QED
      BY <1>1, <1>5, <2>1, StopMade DEF ChosenInv
<1>6. CASE User /\ UNCHANGED <<now, pauseVars>>
  <2>1. UNCHANGED scores /\ now' = now
        BY <1>6 DEF User, Login, Touch, Logout, Reload
  <2>2. CASE Login \/ Touch \/ Logout
    <3>1. /\ UNCHANGED <<detected, windowEnd, done, settings>>
          /\ login' \in Nat \cup {NoLogin} /\ lastLogin' \in Nat \cup {NoLogin}
          /\ lastTouch' \in Nat \cup {NoLogin}
          BY <1>1, <2>2 DEF Login, Touch, Logout, logins, PredictionTypeOK
    <3>2. PredictionTypeOK'
          BY <1>1, <2>1, <3>1 DEF PredictionTypeOK, settings, scores
    <3> QED
        BY <1>1, <2>1, <3>2, ScoresKept DEF ChosenInv
  <2>3. CASE Reload
    <3>1. /\ UNCHANGED <<session, logins>>
          /\ minsize' \in MinSizes /\ manual' \subseteq Exes /\ black' \subseteq Exes
          BY <2>3, PredictionAssumption DEF Reload
    <3> QED
        BY <1>1, <2>1, <3>1, ScoresKept DEF ChosenInv, PredictionTypeOK, session, scores, logins
  <2> QED
      BY <1>6, <2>2, <2>3 DEF User
<1>7. CASE UNCHANGED predictionVars /\ now' \in Nat
  <2>1. UNCHANGED <<scores, session, settings, logins>>
        BY <1>7 DEF predictionVars
  <2>2. PredictionTypeOK'
        BY <1>1, <2>1 DEF PredictionTypeOK, scores, session, settings, logins
  <2> QED
      BY <1>1, <1>7, <2>1, <2>2, ScoresKept DEF ChosenInv
<1> QED
    BY <1>1, <1>2, <1>3, <1>4, <1>5, <1>6, <1>7 DEF Next, Ctl, Elapse, vars

LEMMA ChosenAlways == Spec => []ChosenInv
<1>1. Init => ChosenInv
      BY ChosenInit DEF Init, ChosenInv
<1> QED
    BY <1>1, ChosenStep, PTL DEF Spec

\* What a tick reads ahead are the maps needed most: nothing needed more is left
\* out for something needed less (prophet.c:366).
THEOREM NeededFirst == Spec => []MostNeededFirst
<1>1. ChosenInv => MostNeededFirst
      BY ChosenRight DEF ChosenInv
<1> QED
    BY <1>1, ChosenAlways, PTL

\* What a tick reads ahead fits in free memory, and in cached memory where the
\* configuration asks for that, unless memtotal adds to it (prophet.c:351-371).
THEOREM FreeMemoryKept == Spec => []FreeMemoryOnly
<1>1. ChosenInv => FreeMemoryOnly
      BY ChosenFits DEF ChosenInv
<1> QED
    BY <1>1, ChosenAlways, PTL

\* However often files are listed and loaded, by the session and the manual list and
\* through restarts, an application bids once for a registered map (state_map.c:86).
THEOREM OneBidEach == Spec => []BidsOnce
<1>1. ChosenInv => BidsOnce
      BY DEF ChosenInv, Counted, BidsOnce
<1> QED
    BY <1>1, ChosenAlways, PTL
=============================================================================
