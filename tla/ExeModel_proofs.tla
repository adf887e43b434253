-------------------------- MODULE ExeModel_proofs --------------------------
(***************************************************************************)
(* Theorems about ExeModel, for any executables, cycles and bounds.        *)
(***************************************************************************)
EXTENDS ExeModel, TLAPS

-----------------------------------------------------------------------------
(* What the operators on one chain return.                                 *)

\* markov_state is one of the four states.
LEMMA MarkovStateType ==
  ASSUME NEW ra \in BOOLEAN, NEW rb \in BOOLEAN
  PROVE  /\ MarkovState(ra, rb) \in States
         /\ MarkovState(ra, rb) = 3 <=> ra /\ rb
BY DEF MarkovState, States

\* kp_markov_state_changed returns a chain; it does not touch the time the pair
\* ran together, and it leaves the chain in state s unless it was handled at
\* this very time before.  A chain that has moved did so into state s, or before.
LEMMA StateChangedFacts ==
  ASSUME NEW c \in Chain, NEW s \in States, NEW now \in Nat
  PROVE  LET d == StateChanged(c, s, now) IN
         /\ d \in Chain
         /\ d.time = c.time
         /\ d.ct \in {c.ct, now}
         /\ c.ct # now => d.state = s
         /\ c.state = s => d.state = s
         /\ Moved(d) => Moved(c) \/ (d.state = s /\ d.ct = now)
<1>1. /\ c.state \in Int /\ c.ct \in Int /\ c.born \in Int /\ c.time \in Nat
      /\ c.weight \in [States -> [States -> Nat]] /\ c.stay \in [States -> Int]
  BY DEF Chain
<1>4. [c.weight EXCEPT ![c.state] = Counted(@, c.state, s)] \in [States -> [States -> Nat]]
  <2>1. CASE c.state \in States
    <3>1. c.weight[c.state] \in [States -> Nat]
      BY <1>1, <2>1
    <3>2. Counted(c.weight[c.state], c.state, s) \in [States -> Nat]
      BY <3>1 DEF Counted
    <3>3. QED
      BY <1>1, <2>1, <3>2
  <2>2. CASE c.state \notin States
    BY <1>1, <2>2
  <2>3. QED
    BY <2>1, <2>2
<1>5. [c.stay EXCEPT ![c.state] = @ + (now - c.ct)] \in [States -> Int]
  <2>1. CASE c.state \in States
    BY <1>1, <2>1
  <2>2. CASE c.state \notin States
    BY <1>1, <2>2
  <2>3. QED
    BY <2>1, <2>2
<1>6. /\ Leave(c, s, now) \in Chain     /\ Leave(c, s, now).time = c.time
      /\ Leave(c, s, now).ct = now      /\ Leave(c, s, now).state = s
  BY <1>1, <1>4, <1>5 DEF Leave, Chain, States
<1>7. QED
  BY <1>1, <1>6 DEF StateChanged

\* kp_markov_new returns a chain in the state given to it, dated no later than
\* now, in which no time together is counted yet.
LEMMA NewChainFacts ==
  ASSUME NEW cta \in Int, NEW ctb \in Int, NEW s \in States, NEW now \in Nat
  PROVE  LET d == NewChain(cta, ctb, s, now) IN
         /\ d \in Chain
         /\ d.time = 0
         /\ d.ct <= now
         /\ cta <= now /\ ctb <= now => d.state = s
<1> DEFINE start == StartTime(cta, ctb, now)
           first == StartState(cta, ctb, s, now)
           blank == BlankChain(first, start, start)
<1>1. start \in Int /\ start <= now
  BY DEF StartTime
<1>2. first \in States
  BY DEF StartState, FlipA, FlipB, States
<1>3. blank \in Chain /\ blank.time = 0 /\ blank.ct = start /\ blank.state = first
  BY <1>1, <1>2 DEF BlankChain, Chain, States
<1>4. start = now /\ cta <= now /\ ctb <= now => first = s
  BY DEF StartState
<1>5. NewChain(cta, ctb, s, now) = StateChanged(blank, s, now)
  BY DEF NewChain
<1> HIDE DEF blank, first, start
<1>6. LET d == StateChanged(blank, s, now) IN
      /\ d \in Chain /\ d.time = blank.time /\ d.ct \in {blank.ct, now}
      /\ blank.ct # now => d.state = s
      /\ blank.state = s => d.state = s
  BY <1>3, StateChangedFacts
<1>7. QED
  BY <1>1, <1>3, <1>4, <1>5, <1>6

\* A chain with nothing counted is a chain.
LEMMA BlankChainType ==
  ASSUME NEW s \in Int, NEW t \in Int, NEW u \in Int
  PROVE  /\ BlankChain(s, t, u) \in Chain
         /\ BlankChain(s, t, u).time = 0 /\ BlankChain(s, t, u).state = s
         /\ BlankChain(s, t, u).ct = t
BY DEF BlankChain, Chain

\* So is one of a state file, and it has not moved yet.
LEMMA ReadChainType ==
  ASSUME NEW s \in Int, NEW t \in Int, NEW u \in Int, NEW x \in Nat
  PROVE  LET c == ReadChain(s, t, u, x) IN
         /\ c \in Chain /\ c.state = s /\ c.ct = t /\ c.time = x /\ c.born = u
         /\ \A i, j \in States : c.weight[i][j] = 0
         /\ \A i \in States : c.stay[i] = 0
         /\ ~Moved(c)
<1> DEFINE c == ReadChain(s, t, u, x)
<1>1. c = [state |-> s, ct |-> t, born |-> u, time |-> x,
           weight |-> [i \in States |-> [j \in States |-> 0]],
           stay |-> [i \in States |-> 0]]
      BY DEF ReadChain, BlankChain
<1>2. /\ c \in Chain /\ c.state = s /\ c.ct = t /\ c.time = x /\ c.born = u
      /\ \A i, j \in States : c.weight[i][j] = 0
      /\ \A i \in States : c.stay[i] = 0
  <2>1. 0 \in Nat
        OBVIOUS
  <2>2. /\ [i \in States |-> [j \in States |-> 0]] \in [States -> [States -> Nat]]
        /\ [i \in States |-> 0] \in [States -> Int]
        OBVIOUS
  <2> HIDE DEF c
  <2> QED
      BY <1>1, <2>2 DEF Chain
<1> HIDE DEF c
<1>3. ~Moved(c)
      BY <1>2 DEF Moved
<1> QED
    BY <1>2, <1>3 DEF c

-----------------------------------------------------------------------------
(* How the daemon starts.                                                  *)

\* A chain that is there at the start: one of the file, or a new one.
ReadAtStart(p) ==
  \E s \in Int, g \in Garbage, t \in Nat :
    /\ chain[p] = ReadChain(s, g, time, t) /\ time = BootTime
    /\ p \notin doubtful => /\ s = MarkovState(p[1] \in running, p[2] \in running)
                            /\ g <= time /\ t <= total[p[1]] /\ t <= total[p[2]]
NewAtStart(p) ==
  /\ p \notin doubtful
  /\ chain[p] = NewChain(ct[p[1]], ct[p[2]],
                         MarkovState(p[1] \in running, p[2] \in running), time)

\* Pairs put in order, or taken one way round, are each there one way round.
OneWay(D) == \A p \in D : p[1] # p[2] /\ <<p[2], p[1]>> \notin D

LEMMA OrderedPairs ==
  ASSUME NEW S \in SUBSET Exes, NEW o \in Orders(S), NEW p \in S \X S, o[p[1]] < o[p[2]]
  PROVE  p[1] # p[2] /\ ~(o[p[2]] < o[p[1]])
<1>1. o[p[1]] \in Int /\ o[p[2]] \in Int
      BY DEF Orders
<1> QED
    BY <1>1

\* What the file, the seeds and the mesh chain.
LEMMA PairsAtStart ==
  ASSUME NEW F \in SUBSET Exes, NEW D \in SUBSET Exes, F \cap D = {},
         NEW o \in Orders(F \cup D), NEW file \in FilePairs(F),
         NEW priority \in SUBSET (F \cup D)
  PROVE  LET joined == file \cup SeedPairs(o, F, D)
             all    == joined \cup MeshPairs(o, priority, joined)
         IN /\ (\A f \in F, d \in D : o[f] < o[d]) => OneWay(all)
            /\ all \subseteq (F \cup D) \X (F \cup D)
<1> DEFINE S == F \cup D
           seed == SeedPairs(o, F, D)
           joined == file \cup seed
           mesh == MeshPairs(o, priority, joined)
<1>1. /\ file \subseteq F \X F
      /\ \A p \in file : p[1] # p[2] /\ <<p[2], p[1]>> \notin file
      BY DEF FilePairs
<1>2. /\ seed \subseteq S \X D /\ \A p \in seed : p[2] \in D /\ o[p[1]] < o[p[2]]
      BY DEF SeedPairs
<1>3. /\ mesh \subseteq S \X S
      /\ \A p \in mesh : o[p[1]] < o[p[2]] /\ p \notin joined /\ <<p[2], p[1]>> \notin joined
      BY DEF MeshPairs
<1>4. S \in SUBSET Exes
      OBVIOUS
<1>5. \A p \in seed \cup mesh : /\ p \in S \X S /\ o[p[1]] < o[p[2]]
                                /\ p[1] # p[2] /\ ~(o[p[2]] < o[p[1]])
      BY <1>2, <1>3, <1>4, OrderedPairs
<1> HIDE DEF seed, mesh, S
<1>6. \A p \in seed \cup mesh : <<p[2], p[1]>> \notin seed \cup mesh
  <2> SUFFICES ASSUME NEW p \in seed \cup mesh, <<p[2], p[1]>> \in seed \cup mesh PROVE FALSE
      OBVIOUS
  <2>1. o[<<p[2], p[1]>>[1]] < o[<<p[2], p[1]>>[2]]
        BY <1>5
  <2> QED
      BY <1>5, <2>1
<1>7. \A p \in file : <<p[2], p[1]>> \notin seed
  <2> SUFFICES ASSUME NEW p \in file, <<p[2], p[1]>> \in seed PROVE FALSE
      OBVIOUS
  <2>1. <<p[2], p[1]>>[2] \in D /\ p[1] \in F
        BY <1>1, <1>2
  <2> QED
      BY <2>1
<1>8. \A p \in seed : <<p[2], p[1]>> \notin file
  <2> SUFFICES ASSUME NEW p \in seed, <<p[2], p[1]>> \in file PROVE FALSE
      OBVIOUS
  <2>1. <<p[2], p[1]>>[1] \in F /\ p[2] \in D
        BY <1>1, <1>2
  <2> QED
      BY <2>1
<1>9. \A p \in file : <<p[2], p[1]>> \notin mesh
  <2> SUFFICES ASSUME NEW p \in file, <<p[2], p[1]>> \in mesh PROVE FALSE
      OBVIOUS
  <2> DEFINE q == <<p[2], p[1]>>
  <2>1. q \in mesh /\ <<q[2], q[1]>> = p
        BY <1>1
  <2>2. <<q[2], q[1]>> \notin joined
        BY <1>3, <2>1
  <2> QED
      BY <2>1, <2>2
<1>10. \A p \in mesh : <<p[2], p[1]>> \notin file
       BY <1>3
<1>11. file \subseteq S \X S /\ seed \subseteq S \X S /\ mesh \subseteq S \X S
       BY <1>1, <1>2, <1>3 DEF S
<1>12. OneWay(joined \cup mesh)
       BY <1>1, <1>5, <1>6, <1>7, <1>8, <1>9, <1>10 DEF OneWay
<1> QED
    BY <1>11, <1>12 DEF S, seed, mesh

LEMMA InitFacts ==
  ASSUME Init
  PROVE  /\ time \in Nat /\ lastAcct = time /\ lastRun \in {0, time}
         /\ running \subseteq known /\ known \subseteq Exes /\ heavy \subseteq Exes
         /\ running # {} => lastRun = time
         /\ rt = [e \in Exes |-> IF e \in running THEN time ELSE -1]
         /\ ct \in [Exes -> {-1, time}] /\ total \in [Exes -> {0, time}]
         /\ doubtful \subseteq DOMAIN chain
         /\ DOMAIN chain \subseteq known \X known /\ OneWay(DOMAIN chain)
         /\ chain = [p \in DOMAIN chain |-> chain[p]]
         /\ \A p \in DOMAIN chain : ReadAtStart(p) \/ NewAtStart(p)
<1>1. PICK boot \in {0, BootTime}, F \in SUBSET Exes, D \in SUBSET Exes, ok \in BOOLEAN,
           M \in ManualLists, B \in Blacklists :
        \E priority \in SUBSET (F \cup D) :
          /\ F \cap D = {} /\ (boot = 0 => F = {}) /\ known = F \cup D \cup M /\ heavy \in SUBSET (F \cup D)
          /\ LoadedTable(boot, F, D, priority, ok)
      BY DEF Init
<1>2. PICK priority \in SUBSET (F \cup D) :
        /\ F \cap D = {} /\ (boot = 0 => F = {}) /\ known = F \cup D \cup M
        /\ heavy \in SUBSET (F \cup D)
        /\ LoadedTable(boot, F, D, priority, ok)
      BY <1>1
<1>3. /\ boot \in Nat /\ time = boot /\ lastAcct = boot /\ lastRun = (IF ok THEN boot ELSE 0)
      /\ running \in (IF ok THEN SUBSET F ELSE {{}})
      /\ ct = [e \in Exes |-> IF e \in F THEN -1 ELSE boot]
      /\ rt = [e \in Exes |-> IF e \in running THEN boot ELSE -1]
      /\ total \in {f \in [Exes -> {0, boot}] : \A e \in Exes \ F : f[e] = 0}
      BY <1>2, ConstantAssumption DEF LoadedTable
<1> DEFINE Now(p) == MarkovState(p[1] \in running, p[2] \in running)
           Made(o, file, g, t, s) ==
             LET joined == file \cup SeedPairs(o, F, D) IN
             /\ chain = [p \in joined \cup MeshPairs(o, priority, joined) |->
                          IF p \in file
                            THEN ReadChain(IF ok THEN Now(p) ELSE s[p], g[p], boot, t[p])
                            ELSE NewChain(ct[p[1]], ct[p[2]], Now(p), boot)]
             /\ doubtful = {p \in file : \/ ~ok \/ g[p] > boot
                                         \/ t[p] > total[p[1]] \/ t[p] > total[p[2]]}
<1>4. PICK o \in Orders(F \cup D), file \in FilePairs(F) :
        /\ \A f \in F, d \in D : o[f] < o[d]
        /\ \E g \in [file -> Garbage], t \in [file -> {0, boot}],
              s \in [file -> IF ok THEN {-1} ELSE GarbageStates] : Made(o, file, g, t, s)
      BY <1>2 DEF LoadedTable
<1>5. PICK g \in [file -> Garbage], t \in [file -> {0, boot}],
           s \in [file -> IF ok THEN {-1} ELSE GarbageStates] : Made(o, file, g, t, s)
      BY <1>4
<1> DEFINE joined == file \cup SeedPairs(o, F, D)
           all    == joined \cup MeshPairs(o, priority, joined)
<1>6. OneWay(all) /\ all \subseteq (F \cup D) \X (F \cup D)
      BY <1>2, <1>4, PairsAtStart
<1>7. /\ DOMAIN chain = all
      /\ \A p \in all : chain[p] = IF p \in file
                            THEN ReadChain(IF ok THEN Now(p) ELSE s[p], g[p], boot, t[p])
                            ELSE NewChain(ct[p[1]], ct[p[2]], Now(p), boot)
      /\ chain = [p \in DOMAIN chain |-> chain[p]]
      /\ doubtful \subseteq file
      /\ \A p \in file : p \notin doubtful => /\ ok /\ ~(g[p] > boot)
                                              /\ ~(t[p] > total[p[1]]) /\ ~(t[p] > total[p[2]])
      BY <1>5
<1>8. /\ \A p : Now(p) \in States
      /\ \A p \in file : /\ (IF ok THEN Now(p) ELSE s[p]) \in Int
                         /\ g[p] \in Garbage /\ g[p] \in Int
                         /\ t[p] \in Nat /\ p[1] \in Exes /\ p[2] \in Exes
  <2>1. \A p : Now(p) \in States
        BY DEF MarkovState, States
  <2>2. ASSUME NEW p \in file
        PROVE  /\ g[p] \in Garbage /\ g[p] \in Int /\ t[p] \in Nat
               /\ ~ok => s[p] \in Int
    <3>1. g[p] \in Garbage /\ t[p] \in {0, boot}
          OBVIOUS
    <3>1a. g[p] \in Int
          BY <3>1, ConstantAssumption
    <3>1b. boot \in Nat /\ t[p] \in Nat
          BY <1>3, <3>1
    <3>2. CASE ok
          BY <3>1, <3>1a, <3>1b, <3>2
    <3>3. CASE ~ok
      <4>1. s[p] \in GarbageStates
            BY <3>3
      <4>2. s[p] \in Int
            BY <4>1, ConstantAssumption
      <4> QED
          BY <3>1, <3>1a, <3>1b, <4>2
    <3> QED
        BY <3>2, <3>3
  <2>3. \A p \in file : p[1] \in Exes /\ p[2] \in Exes
        BY DEF FilePairs
  <2> HIDE DEF Now
  <2> QED
      BY <2>1, <2>2, <2>3 DEF States
<1>9. file \subseteq all
      OBVIOUS
<1> HIDE DEF all, joined, Made
<1>10. ASSUME NEW p \in DOMAIN chain PROVE ReadAtStart(p) \/ NewAtStart(p)
  <2>1. CASE p \in file
    <3> DEFINE z == IF ok THEN Now(p) ELSE s[p]
    <3>1. z \in Int /\ g[p] \in Garbage /\ t[p] \in Nat
          BY <1>8, <2>1
    <3>2. chain[p] = ReadChain(z, g[p], time, t[p]) /\ time = BootTime
      <4>1. F # {}
            BY <2>1 DEF FilePairs
      <4> QED
          BY <1>2, <1>3, <1>7, <2>1, <4>1
    <3>3. p \notin doubtful => /\ z = Now(p)
                               /\ g[p] <= time /\ t[p] <= total[p[1]] /\ t[p] <= total[p[2]]
      <4>1. total[p[1]] \in Int /\ total[p[2]] \in Int
            BY <1>3, <1>8, <2>1
      <4> QED
          BY <1>3, <1>7, <1>8, <2>1, <4>1
    <3> HIDE DEF z
    <3> QED
        BY <3>1, <3>2, <3>3 DEF ReadAtStart
  <2>2. CASE p \notin file
        BY <1>3, <1>7, <2>2 DEF NewAtStart
  <2> QED
      BY <2>1, <2>2
<1>11. known \subseteq Exes /\ F \cup D \subseteq known /\ heavy \subseteq Exes
       BY <1>2, ConstantAssumption
<1>12. /\ ct \in [Exes -> {-1, time}] /\ total \in [Exes -> {0, time}]
       /\ lastRun \in {0, time} /\ running \subseteq F /\ (running # {} => lastRun = time)
       BY <1>3
<1>13. DOMAIN chain \subseteq known \X known /\ OneWay(DOMAIN chain)
       BY <1>6, <1>7, <1>11
<1> QED
    BY <1>3, <1>7, <1>9, <1>10, <1>11, <1>12, <1>13

-----------------------------------------------------------------------------
(* Type correctness.                                                       *)

\* Every start of the daemon leaves well-typed tables.
LEMMA InitType == Init => TypeOK
<1> SUFFICES ASSUME Init PROVE TypeOK
  OBVIOUS
<1>1. /\ time \in Nat /\ lastAcct = time /\ lastRun \in {0, time}
      /\ running \subseteq Exes /\ known \subseteq Exes /\ heavy \subseteq Exes
      /\ rt = [e \in Exes |-> IF e \in running THEN time ELSE -1]
      /\ ct \in [Exes -> {-1, time}] /\ total \in [Exes -> {0, time}]
      /\ DOMAIN chain \subseteq Pairs /\ doubtful \subseteq Pairs
  BY InitFacts DEF Pairs
<1>2. rt \in [Exes -> Int] /\ ct \in [Exes -> Int] /\ total \in [Exes -> Nat]
  BY <1>1
<1>3. \A p \in DOMAIN chain : chain[p] \in Chain
  <2> SUFFICES ASSUME NEW p \in DOMAIN chain PROVE chain[p] \in Chain
    OBVIOUS
  <2>1. CASE ReadAtStart(p)
    <3>1. PICK x \in Int, g \in Garbage, t \in Nat : chain[p] = ReadChain(x, g, time, t)
      BY <2>1 DEF ReadAtStart
    <3>2. g \in Int
      BY ConstantAssumption
    <3>3. QED
      BY <1>1, <3>1, <3>2, ReadChainType
  <2>2. CASE NewAtStart(p)
    <3> DEFINE x == MarkovState(p[1] \in running, p[2] \in running)
    <3>1. x \in States /\ ct[p[1]] \in Int /\ ct[p[2]] \in Int
      BY <1>1, <1>2 DEF MarkovState, States, Pairs
    <3>2. chain[p] = NewChain(ct[p[1]], ct[p[2]], x, time)
      BY <2>2 DEF NewAtStart
    <3> HIDE DEF x
    <3>3. QED
      BY <1>1, <3>1, <3>2, NewChainFacts
  <2>3. QED
    BY <2>1, <2>2, InitFacts
<1>4. chain \in [DOMAIN chain -> Chain]
  BY <1>3, InitFacts
<1>5. pool \in [Exes -> Pools]
  BY DEF Init, SyncedPool, Pools
<1>6. /\ phase \in {"tick", "tick2", "off"} /\ cycle \in Cycles /\ doscan \in BOOLEAN
      /\ changed \subseteq Exes /\ newExes \subseteq Exes /\ bad \subseteq Exes
      /\ dirty \in BOOLEAN /\ modelDirty \in BOOLEAN
      /\ unsaved \in BOOLEAN /\ corrupt \in BOOLEAN
  BY ConstantAssumption DEF Init
<1>7. QED
  BY <1>1, <1>2, <1>4, <1>5, <1>6 DEF TypeOK

\* running_markov_inc_time adds to the time together, in state 3 only.
LEMMA TimedFacts ==
  ASSUME NEW c \in Chain, NEW period \in Nat
  PROVE  LET d == Timed(c, period) IN
         /\ d \in Chain /\ d.state = c.state /\ d.ct = c.ct /\ d.weight = c.weight
         /\ d.time = c.time + (IF c.state = 3 THEN period ELSE 0)
<1>1. CASE c.state = 3
  <2>1. [c EXCEPT !.time = c.time + period] \in Chain
    BY DEF Chain
  <2>2. QED
    BY <1>1, <2>1 DEF Timed, Chain
<1>2. CASE c.state # 3
  BY <1>2 DEF Timed, Chain
<1>3. QED
  BY <1>1, <1>2

\* Time only grows, and accounting never runs ahead of it.
Clocks == lastAcct <= time /\ lastRun <= time

\* The chain of a pair after an update.
LEMMA ChainAfterFacts ==
  ASSUME TypeOK, Clocks, NEW W \in SUBSET Exes, NEW p \in Pairs
  PROVE  LET d == ChainAfter(W, p) IN
         /\ d \in Chain
         /\ p \in DOMAIN chain =>
              /\ d.ct \in {chain[p].ct, time}
              /\ ~Moves(p) => d.state = chain[p].state
              /\ chain[p].ct # time /\ Moves(p) => d.state = StateAfter(W, p)
              /\ Moved(d) => Moved(chain[p]) \/ (d.state = StateAfter(W, p) /\ d.ct = time)
         /\ p \notin DOMAIN chain =>
              /\ d.ct <= time
              /\ (\A e \in Exes : ct[e] <= time) => d.state = StateAfter(W, p)
         /\ d.time = (IF p \in DOMAIN chain THEN chain[p].time ELSE 0)
                     + (IF d.state = 3 THEN time - lastAcct ELSE 0)
<1> DEFINE s     == StateAfter(W, p)
           fresh == NewChain(ChangeBefore(W, p[1]), ChangeBefore(W, p[2]), s, time)
           old   == IF p \in DOMAIN chain THEN chain[p] ELSE fresh
           moved == IF Moves(p) THEN StateChanged(old, s, time) ELSE old
<1>1. s \in States
  BY DEF StateAfter, MarkovState, States
<1>2. /\ ChangeBefore(W, p[1]) \in Int /\ ChangeBefore(W, p[2]) \in Int
      /\ (\A e \in Exes : ct[e] <= time) =>
           ChangeBefore(W, p[1]) <= time /\ ChangeBefore(W, p[2]) <= time
  BY DEF ChangeBefore, TypeOK, Pairs
<1> HIDE DEF s
<1>3. /\ fresh \in Chain /\ fresh.time = 0 /\ fresh.ct <= time
      /\ (\A e \in Exes : ct[e] <= time) => fresh.state = s
  <2>1. time \in Nat
        BY DEF TypeOK
  <2> DEFINE ca == ChangeBefore(W, p[1])
             cb == ChangeBefore(W, p[2])
  <2> HIDE DEF ca, cb
  <2>2. ca \in Int /\ cb \in Int /\ ((\A e \in Exes : ct[e] <= time) => ca <= time /\ cb <= time)
        BY <1>2 DEF ca, cb
  <2>3. fresh = NewChain(ca, cb, s, time)
        BY DEF ca, cb
  <2> HIDE DEF fresh
  <2> QED
      BY <1>1, <2>1, <2>2, <2>3, NewChainFacts
<1> HIDE DEF fresh
<1>4. old \in Chain
  BY <1>3 DEF TypeOK
<1>5. /\ moved \in Chain /\ moved.time = old.time /\ moved.ct \in {old.ct, time}
      /\ ~Moves(p) => moved.state = old.state /\ moved.ct = old.ct
      /\ old.ct # time /\ Moves(p) => moved.state = s
      /\ old.state = s => moved.state = s
      /\ Moved(moved) => Moved(old) \/ (moved.state = s /\ moved.ct = time)
  <2> HIDE DEF old
  <2>1. QED
    BY <1>1, <1>4, StateChangedFacts DEF TypeOK
<1>6. ChainAfter(W, p) = Timed(moved, time - lastAcct)
  BY DEF ChainAfter, s, fresh
<1>7. time - lastAcct \in Nat
  BY DEF TypeOK, Clocks
<1>8. LET d == Timed(moved, time - lastAcct) IN
      /\ d \in Chain /\ d.state = moved.state /\ d.ct = moved.ct
      /\ Moved(d) => Moved(moved)
      /\ d.time = moved.time + (IF moved.state = 3 THEN time - lastAcct ELSE 0)
  <2> HIDE DEF moved
  <2>1. QED
    BY <1>5, <1>7, TimedFacts DEF Moved
<1>9. p \in DOMAIN chain => old = chain[p]
  OBVIOUS
<1>10. p \notin DOMAIN chain => old = fresh
  OBVIOUS
<1>11. time \in Nat /\ moved.ct \in Int
  BY <1>5 DEF TypeOK, Chain
<1> HIDE DEF moved, old
<1>12. QED
  BY <1>3, <1>5, <1>6, <1>8, <1>9, <1>10, <1>11 DEF s

\* Saving leaves its three flags well typed.
LEMMA SaveWithType ==
  ASSUME NEW d, NEW u \in BOOLEAN, SaveWith(d, u)
  PROVE  bad' = {} /\ dirty' = FALSE /\ unsaved' \in BOOLEAN
BY DEF SaveWith

\* A scan leaves well-typed tables, dated now.
LEMMA ScanType ==
  ASSUME TypeOK, NEW R \in SUBSET Exes, NEW G \in SUBSET Exes, Scan(R, G)
  PROVE  /\ rt' \in [Exes -> Int] /\ lastRun' = time /\ heavy' \subseteq Exes
         /\ newExes' \subseteq Exes /\ changed' \subseteq Exes /\ running' \subseteq Exes
         /\ dirty' \in BOOLEAN /\ modelDirty' \in BOOLEAN /\ unsaved' \in BOOLEAN
<1>1. /\ Started(R \cap known) \subseteq Exes /\ Stopped(R \cap known) \subseteq Exes
  BY DEF Started, Stopped, TypeOK
<1>2. rt' \in [Exes -> Int]
  BY DEF Scan, TypeOK
<1>3. QED
  BY <1>1, <1>2 DEF Scan, TypeOK

\* Every handler preserves the types and the order of the clocks.
LEMMA StepType == TypeOK /\ Clocks /\ [Next]_vars => TypeOK' /\ Clocks'
<1> SUFFICES ASSUME TypeOK, Clocks, [Next]_vars
             PROVE  TypeOK' /\ Clocks'
  OBVIOUS
<1> USE DEF Clocks
<1>1. ASSUME Tick
      PROVE  TypeOK' /\ Clocks'
  <2>1. time' \in Nat /\ time' >= time
    BY <1>1, ConstantAssumption DEF Tick, TypeOK
  <2>2. CASE doscan
    <3>1. PICK R \in SUBSET Exes, G \in SUBSET Exes : Scan(R, G)
      BY <1>1, <2>2 DEF Tick
    <3>2. /\ rt' \in [Exes -> Int] /\ lastRun' = time /\ heavy' \subseteq Exes
          /\ newExes' \subseteq Exes /\ changed' \subseteq Exes /\ running' \subseteq Exes
          /\ dirty' \in BOOLEAN /\ modelDirty' \in BOOLEAN /\ unsaved' \in BOOLEAN
      BY <3>1, ScanType
    <3>3. /\ phase' = "tick2"
          /\ UNCHANGED <<cycle, doscan, lastAcct, known, pool, ct, total, chain, bad, doubtful, corrupt>>
      BY <1>1 DEF Tick, ghosts
    <3>4. QED
      BY <2>1, <3>2, <3>3 DEF TypeOK
  <2>3. CASE ~doscan
    BY <1>1, <2>1, <2>3 DEF Tick, TypeOK, ghosts
  <2>4. QED
    BY <2>2, <2>3
<1>2. ASSUME Tick2Learn
      PROVE  TypeOK' /\ Clocks'
  <2>1. time' \in Nat /\ time' >= time
    BY <1>2, ConstantAssumption DEF Tick2Learn, TypeOK
  <2>2. PICK W \in SUBSET newExes : \E o \in Orders(W), P \in [W -> Pools] : Learn(W, o, P)
    BY <1>2 DEF Tick2Learn
  <2>3. PICK o \in Orders(W), P \in [W -> Pools] : Learn(W, o, P)
    BY <2>2
  <2>4. W \subseteq Exes
    BY DEF TypeOK
  <2>5. /\ known' \subseteq Exes /\ running' \subseteq Exes
        /\ pool' \in [Exes -> Pools] /\ rt' \in [Exes -> Int] /\ ct' \in [Exes -> Int]
    BY <2>3, <2>4 DEF Learn, TypeOK
  <2>6. total' \in [Exes -> Nat]
    BY <2>3 DEF Learn, TypeOK
  <2>7. /\ DOMAIN chain' = DOMAIN chain \cup NewPairs(W, o, P)
        /\ DOMAIN chain' \subseteq Pairs
    BY <2>3, <2>4 DEF Learn, TypeOK, Pairs, NewPairs
  <2>8. \A p \in DOMAIN chain' : ChainAfter(W, p) \in Chain
    BY <2>4, <2>7, ChainAfterFacts
  <2>9. chain' \in [DOMAIN chain' -> Chain]
    BY <2>3, <2>8 DEF Learn
  <2>10. lastAcct' = time /\ unsaved' \in BOOLEAN
    BY <2>3 DEF Learn, TypeOK
  <2>11. bad' \subseteq Exes
    BY <1>2 DEF Tick2Learn, TypeOK
  <2>12. /\ changed' = {} /\ newExes' = {} /\ modelDirty' = FALSE /\ phase' = "tick"
         /\ UNCHANGED <<cycle, doscan, lastRun, heavy, dirty, doubtful, corrupt>>
    BY <1>2 DEF Tick2Learn, ghosts
  <2>13. Clocks'
    BY <2>1, <2>10, <2>12 DEF TypeOK
  <2>14. TypeOK'
    BY <2>1, <2>5, <2>6, <2>7, <2>9, <2>10, <2>11, <2>12 DEF TypeOK
  <2>15. QED
    BY <2>13, <2>14
<1>3. ASSUME Tick2Overwrite
      PROVE  TypeOK' /\ Clocks'
  BY <1>3 DEF Tick2Overwrite, TypeOK, timers, stamps, table, lists, disk
<1>3a. ASSUME Tick2Stray
       PROVE  TypeOK' /\ Clocks'
  BY <1>3a DEF Tick2Stray, TypeOK, timers, stamps, table, lists, disk
<1>4. ASSUME Tick2Idle
      PROVE  TypeOK' /\ Clocks'
  <2>1. time' \in Nat /\ time' >= time
    BY <1>4, ConstantAssumption DEF Tick2Idle, TypeOK
  <2>2. QED
    BY <1>4, <2>1 DEF Tick2Idle, TypeOK, stamps, table, lists, disk, ghosts
<1>5. ASSUME NEW M \in ManualLists, NEW B \in Blacklists, Reload(M, B)
      PROVE  TypeOK' /\ Clocks'
  <2>1. M \subseteq Exes
    BY ConstantAssumption
  <2>2. pool' \in [Exes -> Pools]
    BY <1>5 DEF Reload, SyncedPool, TypeOK, Pools
  <2>3. bad' = {} /\ dirty' = FALSE /\ unsaved' \in BOOLEAN
    BY <1>5, SaveWithType DEF Reload, TypeOK
  <2>4. /\ rt' \in [Exes -> Int] /\ ct' \in [Exes -> Int] /\ total' \in [Exes -> Nat]
        /\ known' \subseteq Exes /\ doscan' \in BOOLEAN /\ cycle' \in Cycles
    BY <1>5, <2>1, ConstantAssumption DEF Reload, TypeOK
  <2>5. QED
    BY <1>5, <2>2, <2>3, <2>4 DEF Reload, TypeOK, stamps, lists, ghosts
<1>6. ASSUME Save
      PROVE  TypeOK' /\ Clocks'
  BY <1>6, SaveWithType DEF Save, TypeOK, timers, stamps, table, lists, ghosts
<1>7. ASSUME Autosave
      PROVE  TypeOK' /\ Clocks'
  <2>1. /\ known' \subseteq Exes
        /\ DOMAIN chain' \subseteq Pairs /\ chain' \in [DOMAIN chain' -> Chain]
        /\ doubtful' \subseteq Pairs
    BY <1>7 DEF Autosave, TypeOK
  <2>2. bad' = {} /\ dirty' = FALSE /\ unsaved' \in BOOLEAN
    BY <1>7, SaveWithType DEF Autosave, TypeOK
  <2>3. QED
    BY <1>7, <2>1, <2>2 DEF Autosave, TypeOK, timers, stamps, lists
<1>8. ASSUME Stop
      PROVE  TypeOK' /\ Clocks'
  BY <1>8, SaveWithType DEF Stop, TypeOK, stamps, table, lists, ghosts
<1>9. CASE UNCHANGED vars
  BY <1>9 DEF vars, timers, stamps, table, lists, disk, ghosts, TypeOK
<1>10. QED
  BY <1>1, <1>2, <1>3, <1>3a, <1>4, <1>5, <1>6, <1>7, <1>8, <1>9 DEF Next

\* The tables keep their types, whatever the configuration and the state file, and
\* whether it is read to its end or up to an error (state_io.c:693, state.c:130).
THEOREM TypeCorrect == Spec => [](TypeOK /\ Clocks)
<1>1. Init => TypeOK /\ Clocks
  <2> SUFFICES ASSUME Init PROVE TypeOK /\ Clocks
    OBVIOUS
  <2>1. lastRun \in {0, time} /\ lastAcct = time /\ time \in Nat
    BY InitFacts
  <2>2. QED
    BY <2>1, InitType DEF Clocks, TypeOK
<1>2. QED
  BY <1>1, StepType, PTL DEF Spec

-----------------------------------------------------------------------------
(* The tables, the lists and the chains agree, whatever runs between the   *)
(* ticks.                                                                  *)

\* Facts of IInv used below.
LEMMA IInvClocks == IInv => TypeOK /\ Clocks
BY DEF IInv, ModelConsistent, TimesNested, Clocks

\* Every start of the daemon satisfies the invariant.
LEMMA InitInv == AlwaysScans /\ Init => IInv
<1> SUFFICES ASSUME AlwaysScans, Init PROVE IInv
  OBVIOUS
<1>1. TypeOK
  BY InitType
<1>2. /\ phase = "tick" /\ doscan \in ScanSettings
      /\ changed = {} /\ modelDirty = FALSE
  BY DEF Init
<1>3. /\ time \in Nat /\ lastAcct = time /\ lastRun \in {0, time}
      /\ running \subseteq known
      /\ running # {} => lastRun = time
      /\ \A x \in Exes : /\ rt[x] = (IF x \in running THEN time ELSE -1)
                         /\ ct[x] <= time /\ total[x] \in Nat /\ total[x] <= time
  <2>1. /\ ct \in [Exes -> {-1, time}] /\ total \in [Exes -> {0, time}] /\ time \in Nat
        /\ rt = [e \in Exes |-> IF e \in running THEN time ELSE -1]
    BY InitFacts
  <2>2. \A x \in Exes : /\ rt[x] = (IF x \in running THEN time ELSE -1)
                        /\ ct[x] <= time /\ total[x] \in Nat /\ total[x] <= time
    BY <2>1
  <2>3. QED
    BY <2>2, InitFacts
<1>4. \A p \in DOMAIN chain : p[1] \in known /\ p[2] \in known
  BY InitFacts
<1>5. \A x \in Exes : IsRunning(x) <=> x \in running
  BY <1>3 DEF IsRunning
<1>6. known \subseteq Exes
  BY <1>1 DEF TypeOK
<1>7. ASSUME NEW p \in DOMAIN chain
      PROVE  /\ Trusted(p) => /\ chain[p].ct <= time
                              /\ chain[p].state = MarkovState(IsRunning(p[1]), IsRunning(p[2]))
             /\ p \notin doubtful => chain[p].time <= total[p[1]] /\ chain[p].time <= total[p[2]]
  <2> DEFINE now == MarkovState(p[1] \in running, p[2] \in running)
  <2>1. p[1] \in Exes /\ p[2] \in Exes
    BY <1>4, <1>6
  <2>2. now = MarkovState(IsRunning(p[1]), IsRunning(p[2])) /\ now \in States
    BY <1>5, <2>1 DEF MarkovState, States
  <2>3. CASE ReadAtStart(p)
    <3>1. PICK x \in Int, g \in Garbage, t \in Nat :
            /\ chain[p] = ReadChain(x, g, time, t)
            /\ p \notin doubtful => x = now /\ g <= time /\ t <= total[p[1]] /\ t <= total[p[2]]
      BY <2>3 DEF ReadAtStart
    <3>2. g \in Int
      BY ConstantAssumption
    <3>3. /\ chain[p].state = x /\ chain[p].ct = g /\ chain[p].time = t /\ ~Moved(chain[p])
      <4>1. time \in Int
        BY <1>3
      <4> DEFINE c == ReadChain(x, g, time, t)
      <4> HIDE DEF now
      <4>2. c.state = x /\ c.ct = g /\ c.time = t
        BY DEF ReadChain, BlankChain
      <4>2a. ~Moved(c)
        BY <3>2, <4>1, ReadChainType
      <4> HIDE DEF c
      <4>3. chain[p] = c
        BY <3>1 DEF c
      <4>4. QED
        BY <4>2, <4>2a, <4>3
    <3> HIDE DEF now
    <3>4. QED
      BY <2>2, <3>1, <3>3 DEF Trusted
  <2>4. CASE NewAtStart(p)
    <3>1. chain[p] = NewChain(ct[p[1]], ct[p[2]], now, time)
      BY <2>4 DEF NewAtStart
    <3>2. ct[p[1]] \in Int /\ ct[p[2]] \in Int /\ ct[p[1]] <= time /\ ct[p[2]] <= time
      BY <1>1, <1>3, <2>1 DEF TypeOK
    <3> HIDE DEF now
    <3>3. chain[p].ct <= time /\ chain[p].time = 0 /\ chain[p].state = now
      BY <1>3, <2>2, <3>1, <3>2, NewChainFacts
    <3>4. QED
      BY <1>3, <2>1, <2>2, <3>3
  <2>5. QED
    BY <2>3, <2>4, InitFacts
<1>8. NoDangling /\ RunningExact
  BY <1>2, <1>3, <1>4, <1>5, <1>6 DEF NoDangling, RunningExact
<1>9. MarkovAgrees
  BY <1>7 DEF MarkovAgrees
<1>10. TimesNested
  BY <1>3, <1>6, <1>7 DEF TimesNested
<1>11. Recent
  BY <1>2, <1>3, ConstantAssumption DEF Recent, AlwaysScans
<1>12. Dated
  BY <1>2, <1>3, <1>7 DEF Dated
<1>13. QED
  BY <1>1, <1>8, <1>9, <1>10, <1>11, <1>12 DEF IInv, ModelConsistent

\* A handler that leaves the clocks, the stamps, the lists and the chains alone
\* and at most adds stopped executables to the table preserves the invariant.
LEMMA QuietStep ==
  ASSUME IInv, TypeOK',
         known \subseteq known',
         \A x \in Exes : \/ x \in known /\ rt'[x] = rt[x] /\ total'[x] = total[x]
                         \/ x \notin known /\ (x \in known' => rt'[x] < lastRun
                                                              /\ total'[x] <= lastAcct),
         \A x \in Exes : ct'[x] <= time,
         doscan', phase' \in {phase, "off"},
         UNCHANGED <<time, stamps, lists, chain, doubtful>>
  PROVE  IInv'
<1> USE DEF IInv, ModelConsistent
<1>1. \A x \in known : IsRunning(x)' <=> IsRunning(x)
  BY DEF IsRunning, stamps, TypeOK
<1>2. \A x \in known' \ known : ~IsRunning(x)'
  BY DEF IsRunning, stamps, TypeOK
<1>3. NoDangling' /\ RunningExact'
  BY <1>1, <1>2 DEF NoDangling, RunningExact, lists, TypeOK
<1>4. MarkovAgrees'
  <2>1. \A p \in DOMAIN chain : /\ IsRunning(p[1])' <=> IsRunning(p[1])
                                /\ IsRunning(p[2])' <=> IsRunning(p[2])
    BY <1>1 DEF NoDangling
  <2>2. QED
    BY <2>1 DEF MarkovAgrees, MarkovState, Trusted, lists
<1>5. TimesNested'
  <2>1. \A p \in DOMAIN chain : /\ total'[p[1]] = total[p[1]]
                                /\ total'[p[2]] = total[p[2]]
    BY DEF NoDangling, TypeOK
  <2>2. QED
    BY <2>1 DEF TimesNested, stamps, TypeOK
<1>6. Recent'
  BY DEF Recent, NoDangling, stamps, lists, TypeOK
<1>7. Dated'
  BY DEF Dated, Trusted
<1>8. QED
  BY <1>3, <1>4, <1>5, <1>6, <1>7

\* The scan: who runs changes, and the changes are exactly what is on the list.
LEMMA TickInv == ASSUME AlwaysScans, IInv, TypeOK', Tick PROVE IInv'
<1> USE DEF IInv, ModelConsistent
<1>1. doscan /\ doscan' = doscan /\ phase = "tick" /\ phase' = "tick2"
  BY DEF Recent, Tick
<1>2. PICK R \in SUBSET Exes, G \in SUBSET Exes : Scan(R, G)
  BY <1>1 DEF Tick
<1> DEFINE seen == R \cap known
<1>3. /\ rt' = [x \in Exes |-> IF x \in seen THEN time ELSE rt[x]]
      /\ lastRun' = time /\ modelDirty' = TRUE
      /\ changed' = Started(seen) \cup Stopped(seen)
      /\ running' = Started(seen) \cup (running \ Stopped(seen))
  BY <1>2 DEF Scan
<1>4. UNCHANGED <<lastAcct, known, ct, total, chain, doubtful>>
  BY DEF Tick, ghosts
<1>5. /\ cycle \in Nat /\ cycle >= 2 /\ cycle <= CycleMax /\ CycleMax \in Nat
      /\ time' = time + cycle \div 2
  BY ConstantAssumption DEF Tick, TypeOK
<1>6. time' > time /\ time' - time <= CycleMax \div 2
  BY <1>5 DEF TypeOK
<1>7. \A x \in known : IsRunning(x)' <=> x \in seen \/ rt[x] >= time
  BY <1>3 DEF IsRunning, TypeOK
<1>8. lastRun <= time
  BY DEF TimesNested
<1>9. NoDangling'
  BY <1>3, <1>4 DEF NoDangling, Started, Stopped
<1>10. RunningExact'
  <2>1. \A x \in known : x \in running' <=> IsRunning(x)'
    BY <1>3, <1>7, <1>8 DEF RunningExact, Started, Stopped, IsRunning, TypeOK
  <2>2. running' \subseteq known'
    BY <1>9 DEF NoDangling
  <2>3. QED
    BY <1>4, <2>1, <2>2 DEF RunningExact
<1>11. \A x \in known : x \notin changed' => (IsRunning(x)' <=> IsRunning(x))
  BY <1>3, <1>7, <1>8 DEF RunningExact, Started, Stopped, IsRunning, TypeOK
<1>12. MarkovAgrees'
  <2>1. changed = {}
    BY <1>1 DEF Recent
  <2>2. \A p \in DOMAIN chain :
          p[1] \notin changed' /\ p[2] \notin changed' =>
            /\ IsRunning(p[1])' <=> IsRunning(p[1])
            /\ IsRunning(p[2])' <=> IsRunning(p[2])
    BY <1>11 DEF NoDangling
  <2>3. QED
    BY <1>4, <2>1, <2>2 DEF MarkovAgrees, MarkovState, Trusted
<1>13. TimesNested'
  BY <1>3, <1>4, <1>6 DEF TimesNested, TypeOK
<1>14. Recent'
  <2>1. \A x \in changed' : time' - rt'[x] <= CycleMax + CycleMax \div 2
    <3> SUFFICES ASSUME NEW x \in changed'
                 PROVE  time' - rt'[x] <= CycleMax + CycleMax \div 2
      OBVIOUS
    <3>1. x \in Exes
      BY DEF TypeOK
    <3>2. CASE x \in seen
      BY <1>3, <1>5, <1>6, <3>1, <3>2 DEF TypeOK
    <3>3. CASE x \notin seen
      <4>1. x \in running
        BY <1>3, <3>3 DEF Started, Stopped
      <4>2. rt[x] >= lastRun
        BY <4>1 DEF RunningExact, IsRunning
      <4>3. time - rt[x] <= CycleMax
        BY <3>1, <4>1, <4>2, <1>5 DEF Recent, TypeOK
      <4>4. QED
        BY <1>3, <1>5, <1>6, <3>1, <3>3, <4>3 DEF TypeOK
    <3>4. QED
      BY <3>2, <3>3
  <2>2. time' - lastRun' <= CycleMax \div 2 /\ CycleMax \div 2 <= CycleMax
    BY <1>3, <1>5, <1>6
  <2>3. time' - lastRun' <= CycleMax /\ lastRun' < time'
    BY <1>3, <1>5, <1>6, <2>2 DEF TypeOK
  <2>4. doscan' /\ phase' = "tick2" /\ modelDirty'
    BY <1>1, <1>3 DEF Recent
  <2>5. QED
    BY <2>1, <2>2, <2>3, <2>4 DEF Recent
<1>15. Dated'
  <2>1. \A p \in DOMAIN chain : chain[p].ct \in Int
    BY DEF TypeOK, Chain
  <2>2. QED
    BY <1>4, <1>6, <2>1 DEF Dated, Trusted, TypeOK
<1>16. QED
  BY <1>9, <1>10, <1>12, <1>13, <1>14, <1>15

\* The update: the chains with an end on the list of changes move to the state
\* their executables are in, the new ones start in it, and all are accounted for.
LEMMA LearnInv == ASSUME IInv, TypeOK', Tick2Learn PROVE IInv'
<1> USE DEF IInv, ModelConsistent
<1>1. PICK W \in SUBSET newExes :
        /\ W \cap known = {}
        /\ \E o \in Orders(W), P \in [W -> Pools] : Learn(W, o, P)
  BY DEF Tick2Learn
<1>2. PICK o \in Orders(W), P \in [W -> Pools] : Learn(W, o, P)
  BY <1>1
<1>3. /\ known' = known \cup W /\ running' = running \cup W /\ lastAcct' = time
      /\ rt' = [x \in Exes |-> IF x \in W THEN lastRun ELSE rt[x]]
      /\ ct' = [x \in Exes |-> IF x \in W \cup changed THEN time ELSE ct[x]]
  BY <1>2 DEF Learn
<1>4. /\ DOMAIN chain' = DOMAIN chain \cup NewPairs(W, o, P)
      /\ \A p \in DOMAIN chain' : chain'[p] = ChainAfter(W, p)
  BY <1>2 DEF Learn
<1>5. /\ phase = "tick2" /\ modelDirty
      /\ changed' = {} /\ modelDirty' = FALSE /\ phase' = "tick"
      /\ lastRun' = lastRun /\ doscan' = doscan
      /\ time' = time + (cycle + 1) \div 2
  BY DEF Tick2Learn
<1>5a. doubtful' = doubtful
  BY DEF Tick2Learn, ghosts
<1>6. W \subseteq Exes
  BY DEF TypeOK
<1>7. Clocks
  BY IInvClocks
<1>8. /\ time' >= time /\ time' - time <= (CycleMax + 1) \div 2
      /\ (CycleMax + 1) \div 2 + CycleMax \div 2 = CycleMax /\ time' \in Nat
  BY <1>5, ConstantAssumption DEF TypeOK
<1>9. \A x \in Exes : IsRunning(x)' <=> RunsAfter(W, x)
  BY <1>3, <1>5 DEF IsRunning, RunsAfter, TypeOK
<1>10. \A p \in DOMAIN chain' : p[1] \in known' /\ p[2] \in known'
  BY <1>3, <1>4 DEF NoDangling, NewPairs
<1>11. NoDangling'
  BY <1>3, <1>5, <1>10 DEF NoDangling
<1>12. RunningExact'
  BY <1>3, <1>6, <1>9 DEF RunningExact, RunsAfter, TypeOK
<1>13. \A p \in DOMAIN chain' :
         /\ p \in Pairs /\ p[1] \in Exes /\ p[2] \in Exes
         /\ p \in DOMAIN chain \/ p \in NewPairs(W, o, P)
  BY <1>4 DEF TypeOK, Pairs
<1>14. MarkovAgrees'
  <2> SUFFICES ASSUME NEW p \in DOMAIN chain', Trusted(p)'
               PROVE  chain'[p].state = MarkovState(IsRunning(p[1])', IsRunning(p[2])')
    BY DEF MarkovAgrees
  <2>1. StateAfter(W, p) = MarkovState(IsRunning(p[1])', IsRunning(p[2])')
    BY <1>9, <1>13 DEF StateAfter, MarkovState
  <2>1a. CASE p \in DOMAIN chain /\ ~Trusted(p)
    <3>1. Moved(chain'[p]) /\ ~Moved(chain[p])
      BY <1>5a, <2>1a DEF Trusted
    <3>2. QED
      BY <1>4, <1>6, <1>7, <1>13, <2>1, <2>1a, <3>1, ChainAfterFacts
  <2>2. CASE p \in DOMAIN chain /\ Trusted(p) /\ Moves(p)
    <3>1. chain[p].ct < time /\ chain[p].ct \in Int
      BY <2>2, <1>5 DEF Dated, TypeOK, Chain
    <3>2. chain[p].ct # time
      BY <3>1 DEF TypeOK
    <3>3. QED
      BY <1>4, <1>6, <1>7, <1>13, <2>1, <2>2, <3>2, ChainAfterFacts
  <2>3. CASE p \in DOMAIN chain /\ Trusted(p) /\ ~Moves(p)
    <3>1. chain'[p].state = chain[p].state
      BY <1>4, <1>6, <1>7, <1>13, <2>3, ChainAfterFacts
    <3>2. p[1] \in known /\ p[2] \in known
      BY <2>3 DEF NoDangling
    <3>3. RunsAfter(W, p[1]) = IsRunning(p[1]) /\ RunsAfter(W, p[2]) = IsRunning(p[2])
      BY <1>1, <3>2 DEF RunsAfter, IsRunning
    <3>4. chain[p].state = MarkovState(IsRunning(p[1]), IsRunning(p[2]))
      BY <2>3 DEF MarkovAgrees, Moves
    <3>5. QED
      BY <2>1, <3>1, <3>3, <3>4 DEF StateAfter
  <2>4. CASE p \notin DOMAIN chain
    <3>1. \A x \in Exes : ct[x] <= time
      BY DEF Dated
    <3>2. QED
      BY <1>4, <1>6, <1>7, <1>13, <2>1, <2>4, <3>1, ChainAfterFacts
  <2>5. QED
    BY <2>1a, <2>2, <2>3, <2>4
<1>15. TimesNested'
  <2> DEFINE period == time - lastAcct
  <2>1. period \in Nat /\ time \in Nat /\ lastAcct \in Nat
    BY <1>7 DEF TypeOK, Clocks
  <2>2. \A x \in known' :
          total'[x] = (IF x \in W THEN 0 ELSE total[x])
                      + (IF RunsAfter(W, x) THEN period ELSE 0)
    BY <1>2, <1>3, <1>6 DEF Learn, TypeOK
  <2>3. \A x \in known' : total'[x] <= time
    <3> SUFFICES ASSUME NEW x \in known' PROVE total'[x] <= time
      OBVIOUS
    <3>1. x \in Exes /\ total[x] \in Nat
      BY DEF TypeOK
    <3>2. x \notin W => total[x] <= lastAcct
      BY <1>3 DEF TimesNested
    <3>3. QED
      BY <2>1, <2>2, <3>1, <3>2
  <2>4. \A p \in DOMAIN chain' \ doubtful' : /\ chain'[p].time <= total'[p[1]]
                                            /\ chain'[p].time <= total'[p[2]]
    <3> SUFFICES ASSUME NEW p \in DOMAIN chain', p \notin doubtful
                 PROVE  /\ chain'[p].time <= total'[p[1]]
                        /\ chain'[p].time <= total'[p[2]]
      BY <1>5a
    <3> DEFINE before == IF p \in DOMAIN chain THEN chain[p].time ELSE 0
    <3>1. chain'[p].time = before + (IF chain'[p].state = 3 THEN period ELSE 0)
      BY <1>4, <1>6, <1>7, <1>13, ChainAfterFacts
    <3>2. chain'[p].state = 3 => RunsAfter(W, p[1]) /\ RunsAfter(W, p[2])
      <4>1. chain'[p].state = MarkovState(IsRunning(p[1])', IsRunning(p[2])')
        BY <1>5, <1>5a, <1>14 DEF MarkovAgrees, Trusted
      <4>2. IsRunning(p[1])' \in BOOLEAN /\ IsRunning(p[2])' \in BOOLEAN
        BY DEF IsRunning
      <4>3. QED
        BY <1>9, <1>13, <4>1, <4>2, MarkovStateType
    <3>3. p \in DOMAIN chain => p[1] \notin W /\ p[2] \notin W
      BY <1>1 DEF NoDangling
    <3>4. /\ before \in Nat /\ total[p[1]] \in Nat /\ total[p[2]] \in Nat
          /\ p \in DOMAIN chain => before <= total[p[1]] /\ before <= total[p[2]]
      BY <1>13 DEF TimesNested, TypeOK, Chain
    <3>5. before <= (IF p[1] \in W THEN 0 ELSE total[p[1]])
      BY <3>3, <3>4
    <3>6. before <= (IF p[2] \in W THEN 0 ELSE total[p[2]])
      BY <3>3, <3>4
    <3> HIDE DEF before, period
    <3>7. QED
      BY <1>10, <2>1, <2>2, <3>1, <3>2, <3>4, <3>5, <3>6
  <2>5. QED
    BY <1>3, <1>5, <1>7, <1>8, <2>1, <2>3, <2>4 DEF TimesNested, Clocks, TypeOK
<1>16. Recent'
  <2>1. time - lastRun <= CycleMax \div 2
    BY <1>5 DEF Recent
  <2>2. time' - lastRun' <= CycleMax
    BY <1>5, <1>8, <2>1, ConstantAssumption DEF TypeOK
  <2>3. doscan'
    BY <1>5 DEF Recent
  <2>4. QED
    BY <1>5, <2>2, <2>3 DEF Recent
<1>17. Dated'
  <2>1. \A x \in Exes : ct'[x] <= time'
    BY <1>3, <1>8 DEF Dated, TypeOK
  <2>2. \A p \in DOMAIN chain' : Trusted(p)' => chain'[p].ct <= time'
    <3> SUFFICES ASSUME NEW p \in DOMAIN chain', Trusted(p)' PROVE chain'[p].ct <= time'
      OBVIOUS
    <3>1. chain'[p] \in Chain /\ time \in Nat
      BY DEF TypeOK
    <3>2. chain'[p].ct <= time
      <4>1. CASE p \in DOMAIN chain
        <5>1. chain'[p].ct \in {chain[p].ct, time}
          BY <1>4, <1>6, <1>7, <1>13, <4>1, ChainAfterFacts
        <5>2. CASE Trusted(p)
          <6>1. chain[p].ct <= time
            BY <4>1, <5>2 DEF Dated
          <6>2. QED
            BY <3>1, <5>1, <6>1
        <5>3. CASE ~Trusted(p)
          <6>1. Moved(chain'[p]) /\ ~Moved(chain[p])
            BY <1>5a, <5>3 DEF Trusted
          <6>2. chain'[p].ct = time
            BY <1>4, <1>6, <1>7, <1>13, <4>1, <6>1, ChainAfterFacts
          <6>3. QED
            BY <3>1, <6>2
        <5>4. QED
          BY <5>2, <5>3
      <4>2. CASE p \notin DOMAIN chain
        BY <1>4, <1>6, <1>7, <1>13, <4>2, ChainAfterFacts
      <4>3. QED
        BY <4>1, <4>2
    <3>3. QED
      BY <1>8, <3>1, <3>2 DEF Chain
  <2>3. QED
    BY <1>5, <2>1, <2>2 DEF Dated
<1>18. QED
  BY <1>11, <1>12, <1>14, <1>15, <1>16, <1>17

\* A reload adds executables that do not run, and changes no chain.
LEMMA ReloadInv ==
  ASSUME AlwaysScans, IInv, TypeOK', NEW M \in ManualLists, NEW B \in Blacklists,
         Reload(M, B)
  PROVE  IInv'
<1>1. TypeOK /\ Clocks /\ Dated
  BY IInvClocks DEF IInv
<1>2. \A x \in Exes : ct'[x] <= time
  BY <1>1 DEF Reload, Dated, TypeOK
<1>3. \A x \in Exes :
        \/ x \in known /\ rt'[x] = rt[x] /\ total'[x] = total[x]
        \/ x \notin known /\ (x \in known' => rt'[x] < lastRun /\ total'[x] <= lastAcct)
  BY <1>1 DEF Reload, TypeOK
<1>4. doscan' /\ phase' \in {phase, "off"} /\ known \subseteq known'
  BY DEF Reload, AlwaysScans
<1>5. UNCHANGED <<time, stamps, lists, chain, doubtful>>
  BY DEF Reload, ghosts
<1>6. QED
  BY <1>2, <1>3, <1>4, <1>5, QuietStep

\* Autosave drops nothing the lists point to: what they hold is too recent.
LEMMA AutosaveInv == ASSUME IInv, TypeOK', Autosave PROVE IInv'
<1> USE DEF IInv, ModelConsistent
<1> DEFINE evicted == IF Cardinality(known) > EvictThreshold THEN Evictable ELSE {}
<1>1. /\ known' = known \ evicted
      /\ chain' = [p \in {q \in DOMAIN chain : {q[1], q[2]} \cap evicted = {}} |-> chain[p]]
      /\ UNCHANGED <<time, phase, cycle, doscan, lastRun, lastAcct>>
      /\ UNCHANGED <<rt, ct, total, running, changed, newExes, modelDirty>>
  BY DEF Autosave, timers, stamps, lists
<1>1a. doubtful' = doubtful \cap DOMAIN chain'
  BY DEF Autosave
<1>2. /\ DOMAIN chain' \subseteq DOMAIN chain
      /\ \A p \in DOMAIN chain' : /\ chain'[p] = chain[p]
                                  /\ p[1] \notin evicted /\ p[2] \notin evicted
  BY <1>1
<1>3. \A x \in evicted : x \in Exes /\ rt[x] <= time - MaxAge
  BY DEF Evictable, TypeOK
<1>3a. evicted \subseteq known
  BY DEF Evictable
<1> HIDE DEF evicted
<1>4. /\ time \in Nat /\ lastRun \in Nat /\ MaxAge \in Nat /\ CycleMax \in Nat
      /\ MaxAge > 2 * CycleMax /\ CycleMax \div 2 <= CycleMax
      /\ \A x \in Exes : rt[x] \in Int
  BY ConstantAssumption DEF TypeOK
<1>5. \A x \in evicted : ~IsRunning(x) /\ x \notin changed
  <2> SUFFICES ASSUME NEW x \in evicted PROVE ~IsRunning(x) /\ x \notin changed
    OBVIOUS
  <2>1. ~IsRunning(x)
    <3> SUFFICES ASSUME IsRunning(x) PROVE FALSE
      OBVIOUS
    <3>1. x \in running
      BY <1>3a DEF RunningExact
    <3>2. time - lastRun <= CycleMax
      BY <3>1 DEF Recent
    <3>3. QED
      BY <1>3, <1>4, <3>2 DEF IsRunning
  <2>2. ASSUME x \in changed PROVE FALSE
    <3>1. time - rt[x] <= CycleMax + CycleMax \div 2
      BY <2>2 DEF Recent
    <3>2. CycleMax \div 2 \in Int
      BY <1>4
    <3>3. QED
      BY <1>3, <1>4, <3>1, <3>2
  <2>3. QED
    BY <2>1, <2>2
<1>6. NoDangling'
  BY <1>1, <1>2, <1>5 DEF NoDangling, RunningExact
<1>7. RunningExact'
  BY <1>1, <1>5 DEF RunningExact, IsRunning
<1>7a. \A p \in DOMAIN chain' : Trusted(p)' => Trusted(p)
  BY <1>1a, <1>2 DEF Trusted
<1>8. MarkovAgrees'
  BY <1>1, <1>2, <1>7a DEF MarkovAgrees, IsRunning
<1>9. TimesNested'
  BY <1>1, <1>1a, <1>2 DEF TimesNested
<1>10. Recent'
  BY <1>1 DEF Recent
<1>11. Dated'
  BY <1>1, <1>2, <1>7a DEF Dated
<1>12. QED
  BY <1>6, <1>7, <1>8, <1>9, <1>10, <1>11

\* Every handler preserves the invariant.
LEMMA StepInv == AlwaysScans /\ IInv /\ TypeOK' /\ [Next]_vars => IInv'
<1> SUFFICES ASSUME AlwaysScans, IInv, TypeOK', [Next]_vars PROVE IInv'
  OBVIOUS
<1>1. TypeOK /\ Clocks /\ Recent /\ Dated
  BY IInvClocks DEF IInv
<1>2. ASSUME UNCHANGED <<time, cycle, doscan, stamps, table, chain, lists, doubtful>>,
             phase' \in {phase, "off"}
      PROVE  IInv'
  <2>1. \A x \in Exes : ct'[x] <= time
    BY <1>1, <1>2 DEF Dated, table
  <2>2. \A x \in Exes :
          \/ x \in known /\ rt'[x] = rt[x] /\ total'[x] = total[x]
          \/ x \notin known /\ (x \in known' => rt'[x] < lastRun /\ total'[x] <= lastAcct)
    BY <1>2 DEF table
  <2>3. doscan' /\ known \subseteq known'
    BY <1>1, <1>2 DEF Recent, table
  <2>4. QED
    BY <1>2, <2>1, <2>2, <2>3, QuietStep
<1>3. CASE Tick
  BY <1>3, TickInv
<1>4. CASE Tick2Learn
  BY <1>4, LearnInv
<1>5. CASE Tick2Overwrite
  BY <1>2, <1>5 DEF Tick2Overwrite, timers
<1>5a. CASE Tick2Stray
  BY <1>2, <1>5a DEF Tick2Stray, timers
<1>6. CASE Tick2Idle
  BY <1>1, <1>6 DEF Tick2Idle, Recent
<1>7. ASSUME NEW M \in ManualLists, NEW B \in Blacklists, Reload(M, B) PROVE IInv'
  BY <1>7, ReloadInv
<1>8. CASE Save
  BY <1>2, <1>8 DEF Save, timers, ghosts
<1>9. CASE Autosave
  BY <1>9, AutosaveInv
<1>10. CASE Stop
  BY <1>2, <1>10 DEF Stop, ghosts
<1>11. CASE UNCHANGED vars
  BY <1>2, <1>11 DEF vars, timers, ghosts
<1>12. QED
  BY <1>3, <1>4, <1>5, <1>5a, <1>6, <1>7, <1>8, <1>9, <1>10, <1>11 DEF Next

\* The inductive invariant holds in every behaviour.
LEMMA Invariance == ASSUME AlwaysScans PROVE Spec => []IInv
<1>1. Init => IInv
  BY InitInv
<1>2. IInv /\ TypeOK' /\ [Next]_vars => IInv'
  BY StepInv
<1>3. TypeOK /\ Clocks => TypeOK
  OBVIOUS
<1>4. QED
  BY <1>1, <1>2, <1>3, TypeCorrect, PTL DEF Spec

\* Nothing the ticks hand to one another is freed by autosave in between.
THEOREM ListsNeverDangle ==
  ASSUME AlwaysScans
  PROVE  Spec => []NoDangling
<1>1. IInv => NoDangling
  BY DEF IInv, ModelConsistent
<1>2. QED
  BY <1>1, Invariance, PTL

\* The running list always is what the timestamps say.
THEOREM RunningListExact ==
  ASSUME AlwaysScans
  PROVE  Spec => []RunningExact
<1>1. IInv => RunningExact
  BY DEF IInv, ModelConsistent
<1>2. QED
  BY <1>1, Invariance, PTL

\* No chain ever misses a change of its executables; one that the state file left
\* without a state, or dated in the future, is right from the first move it makes.
THEOREM ChainsAgree ==
  ASSUME AlwaysScans
  PROVE  Spec => []MarkovAgrees
<1>1. IInv => MarkovAgrees
  BY DEF IInv, ModelConsistent
<1>2. QED
  BY <1>1, Invariance, PTL

\* Time together never exceeds the time of either, nor that the time accounted, for
\* every chain that started so and with a state.
THEOREM TimesStayNested ==
  ASSUME AlwaysScans
  PROVE  Spec => []TimesNested
<1>1. IInv => TimesNested
  BY DEF IInv, ModelConsistent
<1>2. QED
  BY <1>1, Invariance, PTL

-----------------------------------------------------------------------------
(* What the chains learn.  None of this needs scanning to be on.           *)

\* The moves of one chain are counted as one walk; its stays are counted once.
Walked(c) ==
  /\ \A i \in States : 2 * c.weight[i][i] = c.weight[i][0] + c.weight[i][1] + c.weight[i][2] + c.weight[i][3]
  /\ c.state \in States => \E first \in States : \A i \in States :
       (c.weight[0][i] + c.weight[1][i] + c.weight[2][i] + c.weight[3][i] - c.weight[i][i])
           + (IF i = first THEN 1 ELSE 0)
         = c.weight[i][i] + (IF i = c.state THEN 1 ELSE 0)

Stayed(c, now) ==
  /\ c.ct <= now
  /\ \A i \in States : c.stay[i] >= 0
  /\ c.stay[0] + c.stay[1] + c.stay[2] + c.stay[3] = c.ct - c.born

LEMMA LeaveWalks ==
  ASSUME NEW c \in Chain, NEW s \in States, NEW now \in Nat,
         c.state \in States, c.state # s, Walked(c)
  PROVE  Walked(Leave(c, s, now))
<1> DEFINE w == c.weight
           d == Leave(c, s, now)
           more(i, j) == IF i = c.state /\ (j = c.state \/ j = s) THEN 1 ELSE 0
<1>1. /\ c.state \in States /\ w \in [States -> [States -> Nat]]
      /\ \A i, j \in States : w[i][j] \in Nat
      BY DEF Chain
<1>2. /\ d.state = s
      /\ \A i, j \in States : d.weight[i][j] = w[i][j] + more(i, j)
      BY <1>1 DEF Leave, Counted
<1>3. 0 \in States /\ 1 \in States /\ 2 \in States /\ 3 \in States
      BY DEF States
<1>4. PICK first \in States : \A i \in States :
        (w[0][i] + w[1][i] + w[2][i] + w[3][i] - w[i][i]) + (IF i = first THEN 1 ELSE 0)
          = w[i][i] + (IF i = c.state THEN 1 ELSE 0)
      BY DEF Walked
<1> HIDE DEF d
<1>5. ASSUME NEW i \in States
      PROVE  2 * d.weight[i][i] = d.weight[i][0] + d.weight[i][1] + d.weight[i][2] + d.weight[i][3]
  <2>1. /\ w[i][i] \in Nat /\ w[i][0] \in Nat /\ w[i][1] \in Nat /\ w[i][2] \in Nat /\ w[i][3] \in Nat
        /\ 2 * w[i][i] = w[i][0] + w[i][1] + w[i][2] + w[i][3]
        BY <1>1, <1>3 DEF Walked
  <2>2. /\ d.weight[i][i] = w[i][i] + more(i, i)
        /\ d.weight[i][0] = w[i][0] + more(i, 0) /\ d.weight[i][1] = w[i][1] + more(i, 1)
        /\ d.weight[i][2] = w[i][2] + more(i, 2) /\ d.weight[i][3] = w[i][3] + more(i, 3)
        BY <1>2, <1>3
  <2>3. 2 * more(i, i) = more(i, 0) + more(i, 1) + more(i, 2) + more(i, 3)
    <3>1. CASE i = c.state
          BY <1>1, <3>1 DEF States
    <3>2. CASE i # c.state
          BY <3>2
    <3> QED
        BY <3>1, <3>2
  <2>4. /\ more(i, i) \in Nat /\ more(i, 0) \in Nat /\ more(i, 1) \in Nat
        /\ more(i, 2) \in Nat /\ more(i, 3) \in Nat
        OBVIOUS
  <2> HIDE DEF more, w
  <2>5. 2 * (w[i][i] + more(i, i)) = (w[i][0] + more(i, 0)) + (w[i][1] + more(i, 1))
                                      + (w[i][2] + more(i, 2)) + (w[i][3] + more(i, 3))
    <3>1. PICK x, x0, x1, x2, x3 \in Int :
          x = w[i][i] /\ x0 = w[i][0] /\ x1 = w[i][1] /\ x2 = w[i][2] /\ x3 = w[i][3]
      <4>1. /\ w[i][i] \in Int /\ w[i][0] \in Int /\ w[i][1] \in Int
            /\ w[i][2] \in Int /\ w[i][3] \in Int
            BY <2>1
      <4> QED
          BY <4>1, Zenon
    <3>2. PICK y, y0, y1, y2, y3 \in Int :
          y = more(i, i) /\ y0 = more(i, 0) /\ y1 = more(i, 1) /\ y2 = more(i, 2) /\ y3 = more(i, 3)
        BY <2>1, <2>3, <2>4
    <3>3. 2 * x = x0 + x1 + x2 + x3
        BY <3>1, <2>1, Zenon
    <3>4. 2 * y = y0 + y1 + y2 + y3
        BY <3>2, <2>3, Zenon
    <3>5. 2 * (x + y) = (x0 + y0) + (x1 + y1) + (x2 + y2) + (x3 + y3)
        BY <3>3, <3>4
    <3> QED
        BY <3>1, <3>2, <3>5, Zenon
  <2> QED
      BY <2>2, <2>5
<1>6. ASSUME NEW i \in States
      PROVE  (d.weight[0][i] + d.weight[1][i] + d.weight[2][i] + d.weight[3][i] - d.weight[i][i])
                 + (IF i = first THEN 1 ELSE 0)
               = d.weight[i][i] + (IF i = s THEN 1 ELSE 0)
  <2>1. /\ w[i][i] \in Nat /\ w[0][i] \in Nat /\ w[1][i] \in Nat /\ w[2][i] \in Nat /\ w[3][i] \in Nat
        /\ (w[0][i] + w[1][i] + w[2][i] + w[3][i] - w[i][i]) + (IF i = first THEN 1 ELSE 0)
             = w[i][i] + (IF i = c.state THEN 1 ELSE 0)
        BY <1>1, <1>3, <1>4
  <2>2. /\ d.weight[i][i] = w[i][i] + more(i, i)
        /\ d.weight[0][i] = w[0][i] + more(0, i) /\ d.weight[1][i] = w[1][i] + more(1, i)
        /\ d.weight[2][i] = w[2][i] + more(2, i) /\ d.weight[3][i] = w[3][i] + more(3, i)
        BY <1>2, <1>3
  <2>3. (more(0, i) + more(1, i) + more(2, i) + more(3, i) - more(i, i)) + (IF i = c.state THEN 1 ELSE 0)
          = more(i, i) + (IF i = s THEN 1 ELSE 0)
    <3>1. CASE i = c.state
          BY <1>1, <3>1 DEF States
    <3>2. CASE i = s /\ i # c.state
          BY <1>1, <3>2 DEF States
    <3>3. CASE i # s /\ i # c.state
          BY <3>3
    <3> QED
        BY <3>1, <3>2, <3>3
  <2>4. /\ more(i, i) \in Nat /\ more(0, i) \in Nat /\ more(1, i) \in Nat
        /\ more(2, i) \in Nat /\ more(3, i) \in Nat
        OBVIOUS
  <2> DEFINE f == IF i = first THEN 1 ELSE 0
             b == IF i = c.state THEN 1 ELSE 0
             a == IF i = s THEN 1 ELSE 0
  <2>5. f \in Int /\ b \in Int /\ a \in Int
        OBVIOUS
  <2> HIDE DEF more, w, f, b, a
  <2>6. ((w[0][i] + more(0, i)) + (w[1][i] + more(1, i)) + (w[2][i] + more(2, i))
           + (w[3][i] + more(3, i)) - (w[i][i] + more(i, i))) + f = (w[i][i] + more(i, i)) + a
    <3>1. (w[0][i] + w[1][i] + w[2][i] + w[3][i] - w[i][i]) + f = w[i][i] + b
          BY <2>1 DEF f, b
    <3>2. (more(0, i) + more(1, i) + more(2, i) + more(3, i) - more(i, i)) + b = more(i, i) + a
          BY <2>3 DEF b, a
    <3> QED
      <4>1. PICK x, x0, x1, x2, x3 \in Int :
            x = w[i][i] /\ x0 = w[0][i] /\ x1 = w[1][i] /\ x2 = w[2][i] /\ x3 = w[3][i]
        <5>1. /\ w[i][i] \in Int /\ w[0][i] \in Int /\ w[1][i] \in Int
              /\ w[2][i] \in Int /\ w[3][i] \in Int
              BY <2>1
        <5> QED
            BY <5>1, Zenon
      <4>2. PICK y, y0, y1, y2, y3 \in Int :
            y = more(i, i) /\ y0 = more(0, i) /\ y1 = more(1, i) /\ y2 = more(2, i) /\ y3 = more(3, i)
          BY <2>1, <2>4
      <4>3. (x0 + x1 + x2 + x3 - x) + f = x + b
          BY <4>1, <3>1, Zenon
      <4>4. (y0 + y1 + y2 + y3 - y) + b = y + a
          BY <4>2, <3>2, Zenon
      <4>5. ((x0 + y0) + (x1 + y1) + (x2 + y2) + (x3 + y3) - (x + y)) + f = (x + y) + a
          BY <4>3, <4>4, <2>5
      <4> QED
          BY <4>1, <4>2, <4>5, Zenon
  <2> QED
      BY <2>2, <2>6 DEF f, a
<1>7. Walked(d)
      BY <1>2, <1>5, <1>6 DEF Walked
<1> QED
    BY <1>7 DEF d

LEMMA LeaveStays ==
  ASSUME NEW c \in Chain, NEW s \in States, NEW now \in Nat,
         c.state \in States, Stayed(c, now)
  PROVE  Stayed(Leave(c, s, now), now)
<1> DEFINE d == Leave(c, s, now)
           more(i) == IF i = c.state THEN now - c.ct ELSE 0
<1>1. /\ c.state \in States /\ c.ct \in Int /\ c.born \in Int
      /\ \A i \in States : c.stay[i] \in Int
      BY DEF Chain
<1>2. /\ d.ct = now /\ d.born = c.born
      /\ \A i \in States : d.stay[i] = c.stay[i] + more(i)
      BY <1>1 DEF Leave, Chain
<1>3. 0 \in States /\ 1 \in States /\ 2 \in States /\ 3 \in States
      BY DEF States
<1>4. c.ct <= now /\ \A i \in States : c.stay[i] >= 0
      BY DEF Stayed
<1>5. more(0) + more(1) + more(2) + more(3) = now - c.ct
  <2>1. c.state = 0 \/ c.state = 1 \/ c.state = 2 \/ c.state = 3
        BY <1>1 DEF States
  <2> QED
      BY <1>1, <2>1
<1>6. \A i \in States : more(i) \in Int /\ more(i) >= 0
  <2>1. now - c.ct \in Int /\ now - c.ct >= 0
        BY <1>1, <1>4
  <2> QED
      BY <2>1
<1> HIDE DEF d, more
<1>7. ASSUME NEW i \in States PROVE d.stay[i] >= 0
  <2>1. c.stay[i] \in Int /\ c.stay[i] >= 0 /\ more(i) \in Int /\ more(i) >= 0
        BY <1>1, <1>4, <1>6
  <2>2. c.stay[i] + more(i) >= 0
        BY <2>1
  <2> QED
      BY <1>2, <2>2
<1>8. /\ c.stay[0] \in Int /\ c.stay[1] \in Int /\ c.stay[2] \in Int /\ c.stay[3] \in Int
      /\ more(0) \in Int /\ more(1) \in Int /\ more(2) \in Int /\ more(3) \in Int
      /\ d.stay[0] = c.stay[0] + more(0) /\ d.stay[1] = c.stay[1] + more(1)
      /\ d.stay[2] = c.stay[2] + more(2) /\ d.stay[3] = c.stay[3] + more(3)
      BY <1>1, <1>2, <1>3, <1>6
<1>9. c.stay[0] + c.stay[1] + c.stay[2] + c.stay[3] = c.ct - c.born
      BY DEF Stayed
<1>10. d.stay[0] + d.stay[1] + d.stay[2] + d.stay[3] = now - c.born
  <2>1. (c.stay[0] + more(0)) + (c.stay[1] + more(1)) + (c.stay[2] + more(2)) + (c.stay[3] + more(3))
          = (c.ct - c.born) + (now - c.ct)
        BY <1>5, <1>8, <1>9
  <2>2. (c.ct - c.born) + (now - c.ct) = now - c.born
        BY <1>1
  <2> QED
      BY <1>8, <2>1, <2>2
<1>11. Stayed(d, now)
      BY <1>2, <1>7, <1>10 DEF Stayed
<1> QED
    BY <1>11 DEF d

LEMMA StaysLater ==
  ASSUME NEW c \in Chain, NEW now \in Int, NEW later \in Int, now <= later, Stayed(c, now)
  PROVE  Stayed(c, later)
<1>1. c.ct \in Int /\ c.ct <= now
      BY DEF Chain, Stayed
<1>2. c.ct <= later
      BY <1>1
<1> QED
    BY <1>2 DEF Stayed

LEMMA ChangeLearns ==
  ASSUME NEW c \in Chain, NEW s \in States, NEW now \in Nat,
         c.ct = now \/ c.state \in States
  PROVE  /\ Walked(c) => Walked(StateChanged(c, s, now))
         /\ Stayed(c, now) => Stayed(StateChanged(c, s, now), now)
  BY LeaveWalks, LeaveStays DEF StateChanged

\* A chain that starts has counted nothing yet.
LEMMA BlankLearns ==
  ASSUME NEW c, NEW now \in Int, c.ct \in Int,
         \A i, j \in States : c.weight[i][j] = 0,
         \A i \in States : c.stay[i] = 0
  PROVE  /\ Walked(c)
         /\ c.ct = c.born /\ c.ct <= now => Stayed(c, now)
<1>1. 0 \in States /\ 1 \in States /\ 2 \in States /\ 3 \in States
      BY DEF States
<1>2. ASSUME NEW i \in States
      PROVE  /\ c.weight[i][i] = 0 /\ c.weight[i][0] = 0 /\ c.weight[i][1] = 0
             /\ c.weight[i][2] = 0 /\ c.weight[i][3] = 0 /\ c.weight[0][i] = 0
             /\ c.weight[1][i] = 0 /\ c.weight[2][i] = 0 /\ c.weight[3][i] = 0
      BY <1>1
<1>3. Walked(c)
      BY <1>2 DEF Walked
<1>4. c.ct = c.born /\ c.ct <= now => Stayed(c, now)
      BY <1>1 DEF Stayed
<1> QED
    BY <1>3, <1>4

LEMMA NewLearns ==
  ASSUME NEW cta \in Int, NEW ctb \in Int, NEW s \in States, NEW now \in Nat
  PROVE  Walked(NewChain(cta, ctb, s, now)) /\ Stayed(NewChain(cta, ctb, s, now), now)
<1> DEFINE start == StartTime(cta, ctb, now)
           first == StartState(cta, ctb, s, now)
           blank == BlankChain(first, start, start)
<1>1. start \in Int /\ start <= now
      BY DEF StartTime
<1>2. first \in States
      BY DEF StartState, FlipA, FlipB, States
<1>3. NewChain(cta, ctb, s, now) = StateChanged(blank, s, now)
      BY DEF NewChain
<1> HIDE DEF start, first
<1>4. /\ blank \in Chain /\ blank.state \in States
      /\ blank.ct = start /\ blank.born = start
      /\ \A i, j \in States : blank.weight[i][j] = 0
      /\ \A i \in States : blank.stay[i] = 0
      BY <1>1, <1>2 DEF BlankChain, Chain, States
<1> HIDE DEF blank
<1>5. Walked(blank) /\ Stayed(blank, now)
      BY <1>1, <1>4, BlankLearns
<1> QED
    BY <1>3, <1>4, <1>5, ChangeLearns

\* A chain that starts does so in one of the four states.
LEMMA NewChainInStates ==
  ASSUME NEW cta \in Int, NEW ctb \in Int, NEW s \in States, NEW now \in Nat
  PROVE  NewChain(cta, ctb, s, now).state \in States
<1> DEFINE start == StartTime(cta, ctb, now)
           first == StartState(cta, ctb, s, now)
<1>1. first \in States
      BY DEF StartState, FlipA, FlipB, States
<1> HIDE DEF start, first
<1>2. NewChain(cta, ctb, s, now) = StateChanged(BlankChain(first, start, start), s, now)
      BY DEF NewChain, start, first
<1> QED
    BY <1>1, <1>2 DEF StateChanged, Leave, BlankChain

LEMMA AfterLearns ==
  ASSUME TypeOK, Clocks, Strays = {}, NEW W \in SUBSET Exes, NEW p \in Pairs
  PROVE  /\ (p \in DOMAIN chain => Walked(chain[p])) => Walked(ChainAfter(W, p))
         /\ (p \in DOMAIN chain => Stayed(chain[p], time)) => Stayed(ChainAfter(W, p), time)
<1> DEFINE s     == StateAfter(W, p)
           fresh == NewChain(ChangeBefore(W, p[1]), ChangeBefore(W, p[2]), s, time)
           old   == IF p \in DOMAIN chain THEN chain[p] ELSE fresh
           moved == IF Moves(p) THEN StateChanged(old, s, time) ELSE old
           last  == Timed(moved, time - lastAcct)
<1>1. s \in States
      BY DEF StateAfter, MarkovState, States
<1>2. ChangeBefore(W, p[1]) \in Int /\ ChangeBefore(W, p[2]) \in Int /\ time \in Nat
      BY DEF ChangeBefore, TypeOK, Pairs
<1>3. ChainAfter(W, p) = last
      BY DEF ChainAfter
<1> HIDE DEF s
<1>4. /\ fresh \in Chain /\ Walked(fresh) /\ Stayed(fresh, time)
      /\ fresh.state \in States
      BY <1>1, <1>2, NewChainFacts, NewLearns, NewChainInStates
<1> HIDE DEF fresh
<1>5. /\ old \in Chain
      /\ (p \in DOMAIN chain => Walked(chain[p])) => Walked(old)
      /\ (p \in DOMAIN chain => Stayed(chain[p], time)) => Stayed(old, time)
      /\ Moves(p) => old.ct = time \/ old.state \in States
      BY <1>4 DEF TypeOK, Strays
<1> HIDE DEF old
<1>6. /\ moved \in Chain
      /\ Walked(old) => Walked(moved)
      /\ Stayed(old, time) => Stayed(moved, time)
      BY <1>1, <1>2, <1>5, StateChangedFacts, ChangeLearns
<1> HIDE DEF moved
<1>7. /\ last.weight = moved.weight /\ last.stay = moved.stay /\ last.ct = moved.ct
      /\ last.born = moved.born /\ last.state = moved.state
      BY <1>6 DEF Timed, Chain
<1> HIDE DEF last
<1>8. (Walked(moved) => Walked(last)) /\ (Stayed(moved, time) => Stayed(last, time))
      BY <1>7 DEF Walked, Stayed
<1> QED
    BY <1>3, <1>5, <1>6, <1>8

\* What a handler may do to the chains: leave them, drop some, or update them all.
LEMMA ChainSteps ==
  ASSUME TypeOK, Clocks, [Next]_vars
  PROVE  /\ time' \in Nat /\ time <= time'
         /\ \/ DOMAIN chain' \subseteq DOMAIN chain /\ \A p \in DOMAIN chain' : chain'[p] = chain[p]
            \/ \E W \in SUBSET Exes :
                 /\ Strays = {} /\ DOMAIN chain' \subseteq Pairs
                 /\ \A p \in DOMAIN chain' : chain'[p] = ChainAfter(W, p)
<1>1. time \in Nat /\ cycle \in Nat /\ cycle \div 2 \in Nat /\ (cycle + 1) \div 2 \in Nat
      BY ConstantAssumption DEF TypeOK
<1>2. time' = time \/ time' = time + cycle \div 2 \/ time' = time + (cycle + 1) \div 2
      BY DEF Next, Tick, Tick2Learn, Tick2Overwrite, Tick2Stray, Tick2Idle, Reload, Save,
             Autosave, Stop, timers, vars
<1>3. time' \in Nat /\ time <= time'
      BY <1>1, <1>2
<1>4. CASE Tick2Learn
  <2>1. PICK W \in SUBSET newExes : \E o \in Orders(W), P \in [W -> Pools] : Learn(W, o, P)
        BY <1>4 DEF Tick2Learn
  <2>2. PICK o \in Orders(W), P \in [W -> Pools] : Learn(W, o, P)
        BY <2>1
  <2>3. W \in SUBSET Exes
        BY DEF TypeOK
  <2>4. /\ DOMAIN chain' = DOMAIN chain \cup NewPairs(W, o, P)
        /\ \A p \in DOMAIN chain' : chain'[p] = ChainAfter(W, p)
        BY <2>2 DEF Learn
  <2>5. DOMAIN chain' \subseteq Pairs
        BY <2>3, <2>4 DEF TypeOK, Pairs, NewPairs
  <2>6. Strays = {}
        BY <1>4 DEF Tick2Learn
  <2> QED
      BY <1>3, <2>3, <2>4, <2>5, <2>6
<1>5. CASE Autosave
  <2>1. DOMAIN chain' \subseteq DOMAIN chain /\ \A p \in DOMAIN chain' : chain'[p] = chain[p]
        BY <1>5 DEF Autosave
  <2> QED
      BY <1>3, <2>1
<1>6. CASE chain' = chain
      BY <1>3, <1>6
<1> QED
    BY <1>4, <1>5, <1>6 DEF Next, Tick, Tick2Overwrite, Tick2Stray, Tick2Idle, Reload, Save, Stop,
                               vars

\* A state file that is read leaves the time of a chain's last change unset: what it
\* counts adds up if there is none, or if it happens to be the time of the start.
TimestampsSet == Garbage \subseteq {BootTime}

LEMMA InitLearned ==
  Init => /\ \A p \in DOMAIN chain : Walked(chain[p])
          /\ TimestampsSet => \A p \in DOMAIN chain : Stayed(chain[p], time)
<1> SUFFICES ASSUME Init
             PROVE  /\ \A p \in DOMAIN chain : Walked(chain[p])
                    /\ TimestampsSet => \A p \in DOMAIN chain : Stayed(chain[p], time)
    OBVIOUS
<1> SUFFICES ASSUME NEW p \in DOMAIN chain
             PROVE  Walked(chain[p]) /\ (TimestampsSet => Stayed(chain[p], time))
    OBVIOUS
<1>1. time \in Nat
      BY InitFacts
<1>2. CASE ReadAtStart(p)
  <2>1. PICK x \in Int, g \in Garbage, t \in Nat :
          chain[p] = ReadChain(x, g, time, t) /\ time = BootTime
        BY <1>2 DEF ReadAtStart
  <2>2. g \in Int
        BY ConstantAssumption
  <2>3. /\ chain[p].ct = g /\ chain[p].born = time
        /\ \A i, j \in States : chain[p].weight[i][j] = 0
        /\ \A i \in States : chain[p].stay[i] = 0
    <3> DEFINE c == ReadChain(x, g, time, t)
    <3>1. time \in Int
          BY <1>1
    <3>2. /\ c.ct = g /\ c.born = time
          /\ \A i, j \in States : c.weight[i][j] = 0
          /\ \A i \in States : c.stay[i] = 0
          BY <2>2, <3>1, ReadChainType
    <3> HIDE DEF c
    <3>3. chain[p] = c
          BY <2>1 DEF c
    <3> QED
        BY <3>2, <3>3
  <2>4. /\ Walked(chain[p])
        /\ chain[p].ct = chain[p].born /\ chain[p].ct <= time => Stayed(chain[p], time)
        BY <1>1, <2>2, <2>3, BlankLearns
  <2>5. TimestampsSet => g = time
        BY <2>1 DEF TimestampsSet
  <2> QED
      BY <1>1, <2>3, <2>4, <2>5
<1>3. CASE NewAtStart(p)
  <2> DEFINE x == MarkovState(p[1] \in running, p[2] \in running)
  <2>1. x \in States /\ ct[p[1]] \in Int /\ ct[p[2]] \in Int
        BY InitType DEF MarkovState, States, TypeOK, Pairs
  <2>2. chain[p] = NewChain(ct[p[1]], ct[p[2]], x, time)
        BY <1>3 DEF NewAtStart
  <2> HIDE DEF x
  <2> QED
      BY <1>1, <2>1, <2>2, NewLearns
<1> QED
    BY <1>2, <1>3, InitFacts

\* The moves every chain counted since the start form a walk to the state it is in
\* (state.h:168), the first move of a chain without a state included.
THEOREM WalksCounted == Spec => []WeightsFormWalk
<1> DEFINE Walks == \A p \in DOMAIN chain : Walked(chain[p])
<1>1. Init => Walks
      BY InitLearned
<1>2. TypeOK /\ Clocks /\ Walks /\ [Next]_vars => Walks'
  <2> SUFFICES ASSUME TypeOK, Clocks, Walks, [Next]_vars, NEW p \in DOMAIN chain'
               PROVE  Walked(chain'[p])
      BY DEF Walked
  <2>1. CASE p \in DOMAIN chain /\ chain'[p] = chain[p]
        BY <2>1
  <2>2. CASE \E W \in SUBSET Exes : Strays = {} /\ p \in Pairs /\ chain'[p] = ChainAfter(W, p)
        BY <2>2, AfterLearns
  <2> QED
      BY <2>1, <2>2, ChainSteps
<1>3. Walks => WeightsFormWalk
      BY DEF Walked, WeightsFormWalk
<1> HIDE DEF Walks
<1> QED
    BY <1>1, <1>2, <1>3, TypeCorrect, PTL DEF Spec

\* The stays every chain recorded add up to the time it has been observed for
\* (state_markov.c:104), where no time was left unset.
THEOREM StaysCounted == ASSUME TimestampsSet PROVE Spec => []StaysAddUp
<1> DEFINE Stays == \A p \in DOMAIN chain : Stayed(chain[p], time)
<1>1. Init => Stays
      BY InitLearned
<1>2. TypeOK /\ Clocks /\ Stays /\ [Next]_vars => Stays'
  <2> SUFFICES ASSUME TypeOK, Clocks, Stays, [Next]_vars, NEW p \in DOMAIN chain'
               PROVE  Stayed(chain'[p], time')
      BY DEF Stayed
  <2>1. time \in Int /\ time' \in Int /\ time <= time'
        BY ChainSteps DEF TypeOK
  <2>2. CASE p \in DOMAIN chain /\ chain'[p] = chain[p]
    <3>1. chain[p] \in Chain
          BY <2>2 DEF TypeOK
    <3> QED
        BY <2>1, <2>2, <3>1, StaysLater
  <2>3. CASE \E W \in SUBSET Exes : Strays = {} /\ p \in Pairs /\ chain'[p] = ChainAfter(W, p)
    <3>1. chain'[p] \in Chain /\ Stayed(chain'[p], time)
          BY <2>3, AfterLearns, ChainAfterFacts
    <3> QED
        BY <2>1, <3>1, StaysLater
  <2> QED
      BY <2>2, <2>3, ChainSteps
<1>3. Stays => StaysAddUp
      BY DEF Stayed, StaysAddUp
<1> HIDE DEF Stays
<1> QED
    BY <1>1, <1>2, <1>3, TypeCorrect, PTL DEF Spec

-----------------------------------------------------------------------------
(* Which chains there are.                                                 *)

\* No chain joins an executable to itself, or what another one joins, and what it
\* joins is in the table.
OnePerPair ==
  \A p \in DOMAIN chain :
    /\ p \in Pairs /\ p[1] \in known /\ p[2] \in known
    /\ p[1] # p[2] /\ <<p[2], p[1]>> \notin DOMAIN chain

LEMMA InitPairs == Init => OnePerPair
BY InitFacts DEF OnePerPair, OneWay, Pairs

LEMMA StepPairs == TypeOK /\ OnePerPair /\ [Next]_vars => OnePerPair'
<1> SUFFICES ASSUME TypeOK, OnePerPair, [Next]_vars PROVE OnePerPair'
    OBVIOUS
<1>1. CASE Tick2Learn
  <2>1. PICK W \in SUBSET newExes : /\ W \cap known = {}
                                    /\ \E o \in Orders(W), P \in [W -> Pools] : Learn(W, o, P)
        BY <1>1 DEF Tick2Learn
  <2>2. PICK o \in Orders(W), P \in [W -> Pools] : Learn(W, o, P)
        BY <2>1
  <2>3. W \in SUBSET Exes /\ known \subseteq Exes
        BY DEF TypeOK
  <2>4. known' = known \cup W /\ DOMAIN chain' = DOMAIN chain \cup NewPairs(W, o, P)
        BY <2>2 DEF Learn
  <2>5. ASSUME NEW p \in NewPairs(W, o, P)
        PROVE  /\ p \in Pairs /\ p[1] \in known \cup W /\ p[2] \in W /\ p[1] # p[2]
               /\ <<p[2], p[1]>> \notin NewPairs(W, o, P)
    <3>1. /\ p \in (known \cup W) \X W /\ p[1] \in known \cup W /\ p[2] \in W
          /\ p[1] \in W => o[p[1]] < o[p[2]]
          BY DEF NewPairs
    <3>2. CASE p[1] \in W
      <4>1. p \in W \X W
            BY <3>1, <3>2
      <4>2. p[1] # p[2] /\ ~(o[p[2]] < o[p[1]])
            BY <2>3, <3>1, <3>2, <4>1, OrderedPairs
      <4> QED
          BY <2>3, <3>1, <4>2 DEF NewPairs, Pairs
    <3>3. CASE p[1] \notin W
          BY <2>3, <3>1, <3>3 DEF NewPairs, Pairs
    <3> QED
        BY <3>2, <3>3
  <2>6. ASSUME NEW p \in DOMAIN chain
        PROVE  /\ p \in Pairs /\ p[1] \in known /\ p[2] \in known /\ p[1] # p[2]
               /\ p[1] \notin W /\ p[2] \notin W
               /\ <<p[2], p[1]>> \notin DOMAIN chain /\ <<p[2], p[1]>> \notin NewPairs(W, o, P)
    <3>1. p[1] \notin W /\ p[2] \notin W
          BY <2>1 DEF OnePerPair
    <3> QED
        BY <3>1 DEF OnePerPair, NewPairs
  <2>7. \A p \in NewPairs(W, o, P) : <<p[2], p[1]>> \notin DOMAIN chain
    <3> SUFFICES ASSUME NEW p \in NewPairs(W, o, P), <<p[2], p[1]>> \in DOMAIN chain PROVE FALSE
        OBVIOUS
    <3>1. <<p[2], p[1]>>[1] \notin W
          BY <2>6
    <3> QED
        BY <2>5, <3>1
  <2> QED
      BY <2>4, <2>5, <2>6, <2>7 DEF OnePerPair
<1>2. CASE Autosave
  <2>1. PICK evicted : /\ known' = known \ evicted
                       /\ DOMAIN chain' = {q \in DOMAIN chain : {q[1], q[2]} \cap evicted = {}}
        BY <1>2 DEF Autosave
  <2> QED
      BY <2>1 DEF OnePerPair
<1>3. CASE chain' = chain /\ known \subseteq known'
      BY <1>3 DEF OnePerPair
<1> QED
    BY <1>1, <1>2, <1>3 DEF Next, Tick, Tick2Overwrite, Tick2Stray, Tick2Idle, Reload, Save, Stop,
                               vars, table

\* No two chains join the same two executables, whether the state file (either way
\* round), seeding, the mesh or discovery made them, and whatever was dropped in
\* between (state_exe.c:196, state_markov.c:282).
THEOREM PairsChainedOnce == Spec => []OneChainPerPair
<1>1. OnePerPair => OneChainPerPair
      BY DEF OnePerPair, OneChainPerPair
<1> QED
    BY <1>1, InitPairs, StepPairs, TypeCorrect, PTL DEF Spec
=============================================================================
