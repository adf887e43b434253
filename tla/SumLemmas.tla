----------------------------- MODULE SumLemmas -----------------------------
(***************************************************************************)
(* Sums of finitely many integers: the facts about SumFunctionOnSet that   *)
(* the proofs about counters rest on.  The operator is a fold, defined by  *)
(* recursion on the subsets of its set.  The induction theorems of the     *)
(* library take a predicate; here induction is about sets instead: what    *)
(* holds is a set of numbers or of subsets, which has no smallest element  *)
(* outside.                                                                *)
(***************************************************************************)
EXTENDS Integers, FiniteSets, Functions, FiniteSetTheorems,
        WellFoundedInduction, TLAPS

-----------------------------------------------------------------------------
(* Induction on numbers, with a set for what is to hold.                   *)

Before == {pair \in Nat \X Nat : pair[1] < pair[2]}

LEMMA BeforeWellFounded == IsWellFoundedOn(Before, Nat)
<1>1. Before = OpToRel(<, Nat)
      BY SMT DEF Before, OpToRel
<1> QED
    BY <1>1, NatLessThanWellFounded, Zenon

LEMMA LeastNumber ==
  ASSUME NEW T \in SUBSET Nat, T # {}
  PROVE  \E least \in T : \A n \in T : least <= n
<1>1. PICK least \in T : \A n \in T : <<n, least>> \notin Before
      BY BeforeWellFounded, WFMin
<1>2. ASSUME NEW n \in T PROVE least <= n
  <2>1. least \in Nat /\ n \in Nat
        OBVIOUS
  <2>2. ~(n < least)
        BY <1>1, <2>1 DEF Before
  <2> QED
      BY <2>1, <2>2
<1> QED
    BY <1>2

LEMMA SetOfAllNumbers ==
  ASSUME NEW T \in SUBSET Nat, 0 \in T, \A n \in T : n + 1 \in T
  PROVE  T = Nat
<1> SUFFICES ASSUME Nat \ T # {} PROVE FALSE
    OBVIOUS
<1>1. PICK n \in Nat \ T : \A other \in Nat \ T : n <= other
      BY LeastNumber
<1>2. n # 0 /\ n - 1 \in Nat
      OBVIOUS
<1>3. n - 1 \in T
      BY <1>1, <1>2
<1>4. (n - 1) + 1 = n
      OBVIOUS
<1> QED
    BY <1>3, <1>4

\* A set of integers with an upper bound has a greatest.
LEMMA GreatestNumber ==
  ASSUME NEW T \in SUBSET Nat, T # {}, NEW bound \in Nat, \A n \in T : n <= bound
  PROVE  \E greatest \in T : \A n \in T : n <= greatest
<1> DEFINE Above == {bound - n : n \in T}
<1>1. \A n \in T : n \in Nat /\ bound - n \in Nat
      OBVIOUS
<1>2. Above \in SUBSET Nat /\ Above # {}
      BY <1>1
<1>3. PICK least \in Above : \A d \in Above : least <= d
  <2> HIDE DEF Above
  <2> QED
      BY <1>2, LeastNumber
<1>4. PICK greatest \in T : least = bound - greatest
      OBVIOUS
<1>5. ASSUME NEW n \in T PROVE n <= greatest
  <2>1. least <= bound - n
        BY <1>3
  <2> QED
      BY <1>1, <1>4, <2>1
<1> QED
    BY <1>5

-----------------------------------------------------------------------------
(* The recursion that SumFunctionOnSet stands for.                         *)

Picked(s) == CHOOSE x \in s : TRUE

Added(f, h, s) == IF s = {} THEN 0 ELSE f[Picked(s)] + h[s \ {Picked(s)}]

Sums(f, Sets, h) == h = [s \in Sets |-> Added(f, h, s)]

LEMMA SumUnfolded ==
  ASSUME NEW f, NEW S
  PROVE  SumFunctionOnSet(f, S) = (CHOOSE h : Sums(f, SUBSET S, h))[S]
  BY DEF SumFunctionOnSet, FoldFunctionOnSet, MapThenFoldSet, Sums, Added, Picked

UpTo(S, n) == {s \in SUBSET S : Cardinality(s) <= n}

LEMMA OneLess ==
  ASSUME NEW S, IsFiniteSet(S), NEW n \in Nat, NEW s \in UpTo(S, n + 1), s # {}
  PROVE  /\ Picked(s) \in s /\ s \ {Picked(s)} \in UpTo(S, n)
<1>1. Picked(s) \in s
      BY DEF Picked
<1>2. s \in SUBSET S /\ Cardinality(s) <= n + 1
      BY DEF UpTo
<1>3. IsFiniteSet(s) /\ Cardinality(s) \in Nat
      BY <1>2, FS_Subset, FS_CardinalityType
<1>4. Cardinality(s \ {Picked(s)}) = Cardinality(s) - 1
      BY <1>1, <1>3, FS_RemoveElement
<1>5. s \ {Picked(s)} \in SUBSET S
      BY <1>2
<1> QED
    BY <1>1, <1>2, <1>3, <1>4, <1>5 DEF UpTo

LEMMA SumsExist ==
  ASSUME NEW f, NEW S, IsFiniteSet(S)
  PROVE  \E h : Sums(f, SUBSET S, h)
<1> DEFINE Good == {n \in Nat : \E h : Sums(f, UpTo(S, n), h)}
<1>1. 0 \in Good
  <2>1. UpTo(S, 0) = {{}}
    <3>1. ASSUME NEW s \in SUBSET S
          PROVE  Cardinality(s) <= 0 <=> s = {}
          BY FS_Subset, FS_CardinalityType, FS_EmptySet
    <3> QED
        BY <3>1 DEF UpTo
  <2>2. Sums(f, {{}}, [s \in {{}} |-> 0])
        BY DEF Sums, Added
  <2> QED
      BY <2>1, <2>2
<1>2. ASSUME NEW n \in Good PROVE n + 1 \in Good
  <2>1. PICK h : Sums(f, UpTo(S, n), h)
        OBVIOUS
  <2> DEFINE more == [s \in UpTo(S, n + 1) |-> Added(f, h, s)]
  <2>2. UpTo(S, n) \subseteq UpTo(S, n + 1)
    <3>1. ASSUME NEW s \in UpTo(S, n) PROVE s \in UpTo(S, n + 1)
      <4>1. s \in SUBSET S /\ Cardinality(s) <= n
            BY DEF UpTo
      <4>2. Cardinality(s) \in Nat
            BY <4>1, FS_Subset, FS_CardinalityType
      <4> QED
          BY <4>1, <4>2 DEF UpTo
    <3> QED
        BY <3>1
  <2>3. \A s \in UpTo(S, n) : h[s] = more[s]
        BY <2>1, <2>2 DEF Sums
  <2>4. ASSUME NEW s \in UpTo(S, n + 1)
        PROVE  Added(f, h, s) = Added(f, more, s)
    <3>1. CASE s = {}
          BY <3>1 DEF Added
    <3>2. CASE s # {}
      <4>1. h[s \ {Picked(s)}] = more[s \ {Picked(s)}]
            BY <3>2, <2>3, OneLess
      <4> HIDE DEF more
      <4> QED
          BY <3>2, <4>1 DEF Added
    <3> QED
        BY <3>1, <3>2
  <2>5. Sums(f, UpTo(S, n + 1), more)
    <3>1. more = [s \in UpTo(S, n + 1) |-> Added(f, h, s)]
          OBVIOUS
    <3> HIDE DEF more
    <3> QED
        BY <2>4, <3>1, Zenon DEF Sums
  <2> QED
      BY <2>5
<1>3. Good = Nat
  <2> HIDE DEF Good
  <2>1. Good \in SUBSET Nat
        BY DEF Good
  <2> QED
      BY <1>1, <1>2, <2>1, SetOfAllNumbers
<1>4. Cardinality(S) \in Nat
      BY FS_CardinalityType
<1>5. PICK h : Sums(f, UpTo(S, Cardinality(S)), h)
      BY <1>3, <1>4
<1>6. UpTo(S, Cardinality(S)) = SUBSET S
      BY FS_Subset DEF UpTo
<1> QED
    BY <1>5, <1>6

\* Induction on subsets: a smallest one, among those where something fails.
LEMMA SmallestSubset ==
  ASSUME NEW S, IsFiniteSet(S), NEW T \in SUBSET (SUBSET S), T # {}
  PROVE  \E s \in T : \A x \in s : s \ {x} \notin T
<1>1. IsWellFoundedOn(StrictSubsetOrdering(S), SUBSET S)
      BY FS_StrictSubsetOrderingWellFounded, FS_FiniteSubsetsOfFinite
<1>2. PICK s \in T : \A u \in T : <<u, s>> \notin StrictSubsetOrdering(S)
      BY <1>1, WFMin
<1>3. ASSUME NEW x \in s, s \ {x} \in T PROVE FALSE
  <2>1. s \ {x} \in SUBSET s /\ s \ {x} # s
        OBVIOUS
  <2>2. <<s \ {x}, s>> \in StrictSubsetOrdering(S)
        BY <2>1 DEF StrictSubsetOrdering
  <2> QED
      BY <1>2, <1>3, <2>2
<1> QED
    BY <1>3

LEMMA SumsUnique ==
  ASSUME NEW f, NEW S, IsFiniteSet(S), NEW g, NEW h,
         Sums(f, SUBSET S, g), Sums(f, SUBSET S, h)
  PROVE  g = h
<1> DEFINE Differ == {s \in SUBSET S : g[s] # h[s]}
<1>1. CASE Differ = {}
      BY <1>1 DEF Sums
<1>2. CASE Differ # {}
  <2>1. PICK s \in Differ : \A x \in s : s \ {x} \notin Differ
    <3> HIDE DEF Differ
    <3>1. Differ \in SUBSET (SUBSET S)
          BY DEF Differ
    <3> QED
        BY <1>2, <3>1, SmallestSubset
  <2>2. g[s] = Added(f, g, s) /\ h[s] = Added(f, h, s)
        BY DEF Sums
  <2>3. CASE s = {}
        BY <2>2, <2>3 DEF Added
  <2>4. CASE s # {}
    <3>1. Picked(s) \in s
          BY <2>4 DEF Picked
    <3>2. g[s \ {Picked(s)}] = h[s \ {Picked(s)}]
          BY <2>1, <3>1
    <3> QED
        BY <2>2, <2>4, <3>2 DEF Added
  <2> QED
      BY <2>3, <2>4
<1> QED
    BY <1>1, <1>2

LEMMA SumOfSubset ==
  ASSUME NEW f, NEW S, IsFiniteSet(S), NEW h, Sums(f, SUBSET S, h), NEW s \in SUBSET S
  PROVE  SumFunctionOnSet(f, s) = h[s]
<1> DEFINE part == [u \in SUBSET s |-> h[u]]
           own  == CHOOSE g : Sums(f, SUBSET s, g)
<1>1. IsFiniteSet(s)
      BY FS_Subset
<1>2. Sums(f, SUBSET s, part)
  <2>1. ASSUME NEW u \in SUBSET s PROVE h[u] = Added(f, part, u)
    <3>1. h[u] = Added(f, h, u)
          BY DEF Sums
    <3>2. u \ {Picked(u)} \in SUBSET s
          OBVIOUS
    <3>3. part[u \ {Picked(u)}] = h[u \ {Picked(u)}]
          BY <3>2
    <3> HIDE DEF part
    <3> QED
        BY <3>1, <3>3 DEF Added
  <2>2. part = [u \in SUBSET s |-> h[u]]
        OBVIOUS
  <2> HIDE DEF part
  <2> QED
      BY <2>1, <2>2, Zenon DEF Sums
<1>3. Sums(f, SUBSET s, own)
      BY <1>1, SumsExist
<1>4. own = part
  <2> HIDE DEF own, part
  <2> QED
      BY <1>1, <1>2, <1>3, SumsUnique
<1>5. SumFunctionOnSet(f, s) = own[s]
      BY SumUnfolded
<1>6. part[s] = h[s]
      OBVIOUS
<1> HIDE DEF own, part
<1> QED
    BY <1>4, <1>5, <1>6

-----------------------------------------------------------------------------
(* The facts about sums.                                                   *)

LEMMA SumEquation ==
  ASSUME NEW f, NEW S, IsFiniteSet(S)
  PROVE  SumFunctionOnSet(f, S) =
           IF S = {} THEN 0
           ELSE f[Picked(S)] + SumFunctionOnSet(f, S \ {Picked(S)})
<1>1. PICK h : Sums(f, SUBSET S, h)
      BY SumsExist
<1>2. \A s \in SUBSET S : SumFunctionOnSet(f, s) = h[s]
      BY <1>1, SumOfSubset
<1>3. h[S] = Added(f, h, S)
      BY <1>1 DEF Sums
<1>4. S \in SUBSET S /\ S \ {Picked(S)} \in SUBSET S
      OBVIOUS
<1> QED
    BY <1>2, <1>3, <1>4 DEF Added

LEMMA SumEmpty ==
  ASSUME NEW f
  PROVE  SumFunctionOnSet(f, {}) = 0
  BY SumEquation, FS_EmptySet

\* The sum over the smallest set where something fails.
LEMMA SumPick ==
  ASSUME NEW f, NEW S, IsFiniteSet(S), NEW s \in SUBSET S, s # {}
  PROVE  /\ Picked(s) \in s
         /\ SumFunctionOnSet(f, s) = f[Picked(s)] + SumFunctionOnSet(f, s \ {Picked(s)})
<1>1. Picked(s) \in s
      BY DEF Picked
<1>2. IsFiniteSet(s)
      BY FS_Subset
<1> QED
    BY <1>1, <1>2, SumEquation

LEMMA SumInt ==
  ASSUME NEW f, NEW S, IsFiniteSet(S), \A x \in S : f[x] \in Int
  PROVE  SumFunctionOnSet(f, S) \in Int
<1> DEFINE Fails == {s \in SUBSET S : SumFunctionOnSet(f, s) \notin Int}
<1> SUFFICES ASSUME Fails # {} PROVE FALSE
    OBVIOUS
<1>1. PICK s \in Fails : \A x \in s : s \ {x} \notin Fails
  <2>1. Fails \in SUBSET (SUBSET S)
        OBVIOUS
  <2> HIDE DEF Fails
  <2> QED
      BY <2>1, SmallestSubset
<1>2. s # {}
      BY SumEmpty
<1>3. /\ Picked(s) \in s
      /\ SumFunctionOnSet(f, s) = f[Picked(s)] + SumFunctionOnSet(f, s \ {Picked(s)})
      BY <1>2, SumPick
<1>4. SumFunctionOnSet(f, s \ {Picked(s)}) \in Int
      BY <1>1, <1>3
<1> QED
    BY <1>3, <1>4

LEMMA SumNat ==
  ASSUME NEW f, NEW S, IsFiniteSet(S), \A x \in S : f[x] \in Nat
  PROVE  SumFunctionOnSet(f, S) \in Nat
<1> DEFINE Fails == {s \in SUBSET S : SumFunctionOnSet(f, s) \notin Nat}
<1> SUFFICES ASSUME Fails # {} PROVE FALSE
    OBVIOUS
<1>1. PICK s \in Fails : \A x \in s : s \ {x} \notin Fails
  <2>1. Fails \in SUBSET (SUBSET S)
        OBVIOUS
  <2> HIDE DEF Fails
  <2> QED
      BY <2>1, SmallestSubset
<1>2. s # {}
      BY SumEmpty
<1>3. /\ Picked(s) \in s
      /\ SumFunctionOnSet(f, s) = f[Picked(s)] + SumFunctionOnSet(f, s \ {Picked(s)})
      BY <1>2, SumPick
<1>4. SumFunctionOnSet(f, s \ {Picked(s)}) \in Nat
      BY <1>1, <1>3
<1> QED
    BY <1>3, <1>4

\* Any element may be taken first.
LEMMA SumRemove ==
  ASSUME NEW f, NEW S, IsFiniteSet(S), \A x \in S : f[x] \in Int, NEW x \in S
  PROVE  SumFunctionOnSet(f, S) = f[x] + SumFunctionOnSet(f, S \ {x})
<1> DEFINE Fails == {s \in SUBSET S :
      \E y \in s : SumFunctionOnSet(f, s) # f[y] + SumFunctionOnSet(f, s \ {y})}
<1> SUFFICES ASSUME Fails # {} PROVE FALSE
    OBVIOUS
<1>1. PICK s \in Fails : \A y \in s : s \ {y} \notin Fails
  <2>1. Fails \in SUBSET (SUBSET S)
        OBVIOUS
  <2> HIDE DEF Fails
  <2> QED
      BY <2>1, SmallestSubset
<1>2. PICK y \in s : SumFunctionOnSet(f, s) # f[y] + SumFunctionOnSet(f, s \ {y})
      OBVIOUS
<1>3. PICK p \in s : SumFunctionOnSet(f, s) = f[p] + SumFunctionOnSet(f, s \ {p})
  <2>1. s \in SUBSET S /\ s # {}
        BY <1>2
  <2> HIDE DEF Fails
  <2> QED
      BY <2>1, SumPick
<1>4. y # p
      BY <1>2, <1>3
<1>5. SumFunctionOnSet(f, s \ {p}) = f[y] + SumFunctionOnSet(f, s \ {p, y})
  <2>1. s \ {p} \in SUBSET S /\ y \in s \ {p} /\ (s \ {p}) \ {y} = s \ {p, y}
        BY <1>4
  <2> QED
      BY <1>1, <1>3, <2>1
<1>6. SumFunctionOnSet(f, s \ {y}) = f[p] + SumFunctionOnSet(f, s \ {p, y})
  <2>1. s \ {y} \in SUBSET S /\ p \in s \ {y} /\ (s \ {y}) \ {p} = s \ {p, y}
        BY <1>3, <1>4
  <2>2. \A z \in s \ {y} : SumFunctionOnSet(f, s \ {y}) =
                            f[z] + SumFunctionOnSet(f, (s \ {y}) \ {z})
        BY <1>1, <1>2, <2>1
  <2> HIDE DEF Fails
  <2> QED
      BY <2>1, <2>2
<1>7. f[p] \in Int /\ f[y] \in Int
      BY <1>2, <1>3
<1>8. SumFunctionOnSet(f, s \ {p, y}) \in Int
  <2>1. IsFiniteSet(s \ {p, y}) /\ \A z \in s \ {p, y} : f[z] \in Int
        BY FS_Subset
  <2> QED
      BY <2>1, SumInt
<1> HIDE DEF Fails
<1> QED
    BY <1>2, <1>3, <1>5, <1>6, <1>7, <1>8

LEMMA SumSame ==
  ASSUME NEW f, NEW g, NEW S, IsFiniteSet(S), \A x \in S : f[x] = g[x]
  PROVE  SumFunctionOnSet(f, S) = SumFunctionOnSet(g, S)
<1> DEFINE Fails == {s \in SUBSET S : SumFunctionOnSet(f, s) # SumFunctionOnSet(g, s)}
<1> SUFFICES ASSUME Fails # {} PROVE FALSE
    OBVIOUS
<1>1. PICK s \in Fails : \A x \in s : s \ {x} \notin Fails
  <2>1. Fails \in SUBSET (SUBSET S)
        OBVIOUS
  <2> HIDE DEF Fails
  <2> QED
      BY <2>1, SmallestSubset
<1>2. s # {}
      BY SumEmpty
<1>3. /\ Picked(s) \in s
      /\ SumFunctionOnSet(f, s) = f[Picked(s)] + SumFunctionOnSet(f, s \ {Picked(s)})
      /\ SumFunctionOnSet(g, s) = g[Picked(s)] + SumFunctionOnSet(g, s \ {Picked(s)})
      BY <1>2, SumPick
<1>4. SumFunctionOnSet(f, s \ {Picked(s)}) = SumFunctionOnSet(g, s \ {Picked(s)})
      BY <1>1, <1>3
<1> QED
    BY <1>3, <1>4

LEMMA SumZero ==
  ASSUME NEW f, NEW S, IsFiniteSet(S), \A x \in S : f[x] = 0
  PROVE  SumFunctionOnSet(f, S) = 0
<1> DEFINE Fails == {s \in SUBSET S : SumFunctionOnSet(f, s) # 0}
<1> SUFFICES ASSUME Fails # {} PROVE FALSE
    OBVIOUS
<1>1. PICK s \in Fails : \A x \in s : s \ {x} \notin Fails
  <2>1. Fails \in SUBSET (SUBSET S)
        OBVIOUS
  <2> HIDE DEF Fails
  <2> QED
      BY <2>1, SmallestSubset
<1>2. s # {}
      BY SumEmpty
<1>3. /\ Picked(s) \in s
      /\ SumFunctionOnSet(f, s) = f[Picked(s)] + SumFunctionOnSet(f, s \ {Picked(s)})
      BY <1>2, SumPick
<1>4. SumFunctionOnSet(f, s \ {Picked(s)}) = 0
      BY <1>1, <1>3
<1> QED
    BY <1>3, <1>4

\* Two functions summed at once.
LEMMA SumPlus ==
  ASSUME NEW f, NEW g, NEW h, NEW S, IsFiniteSet(S),
         \A x \in S : f[x] \in Int /\ g[x] \in Int /\ h[x] = f[x] + g[x]
  PROVE  SumFunctionOnSet(h, S) = SumFunctionOnSet(f, S) + SumFunctionOnSet(g, S)
<1> DEFINE Fails == {s \in SUBSET S :
      SumFunctionOnSet(h, s) # SumFunctionOnSet(f, s) + SumFunctionOnSet(g, s)}
<1> SUFFICES ASSUME Fails # {} PROVE FALSE
    OBVIOUS
<1>1. PICK s \in Fails : \A x \in s : s \ {x} \notin Fails
  <2>1. Fails \in SUBSET (SUBSET S)
        OBVIOUS
  <2> HIDE DEF Fails
  <2> QED
      BY <2>1, SmallestSubset
<1>2. s # {}
  <2>1. /\ SumFunctionOnSet(f, {}) = 0 /\ SumFunctionOnSet(g, {}) = 0
        /\ SumFunctionOnSet(h, {}) = 0
        BY SumEmpty
  <2>2. SumFunctionOnSet(h, s) # SumFunctionOnSet(f, s) + SumFunctionOnSet(g, s)
        OBVIOUS
  <2> HIDE DEF Fails
  <2> QED
      BY <2>1, <2>2
<1> DEFINE p == Picked(s)
           r == s \ {p}
<1>3. p \in s /\ SumFunctionOnSet(f, s) = f[p] + SumFunctionOnSet(f, r)
      BY <1>2, SumPick
<1>4. SumFunctionOnSet(g, s) = g[p] + SumFunctionOnSet(g, r)
      BY <1>2, SumPick
<1>5. SumFunctionOnSet(h, s) = h[p] + SumFunctionOnSet(h, r)
      BY <1>2, SumPick
<1>6. r \in SUBSET S /\ IsFiniteSet(r)
      BY FS_Subset
<1>7. SumFunctionOnSet(f, r) \in Int /\ SumFunctionOnSet(g, r) \in Int
      BY <1>6, SumInt
<1>8. SumFunctionOnSet(h, r) = SumFunctionOnSet(f, r) + SumFunctionOnSet(g, r)
      BY <1>1, <1>3, <1>6
<1>9. f[p] \in Int /\ g[p] \in Int /\ h[p] = f[p] + g[p]
      BY <1>3
<1>10. SumFunctionOnSet(h, s) # SumFunctionOnSet(f, s) + SumFunctionOnSet(g, s)
      OBVIOUS
<1> HIDE DEF p, r
<1> QED
    BY <1>3, <1>4, <1>5, <1>7, <1>8, <1>9, <1>10

\* A sum over two parts.
LEMMA SumParts ==
  ASSUME NEW f, NEW S, IsFiniteSet(S), \A x \in S : f[x] \in Int,
         NEW part, NEW rest, part \cup rest = S, part \cap rest = {}
  PROVE  SumFunctionOnSet(f, S) = SumFunctionOnSet(f, part) + SumFunctionOnSet(f, rest)
<1> DEFINE Fails == {s \in SUBSET S : SumFunctionOnSet(f, s) #
             SumFunctionOnSet(f, s \cap part) + SumFunctionOnSet(f, s \ part)}
<1> SUFFICES ASSUME Fails # {} PROVE FALSE
  <2>1. S \cap part = part /\ S \ part = rest /\ S \in SUBSET S
        OBVIOUS
  <2>2. S \notin Fails => SumFunctionOnSet(f, S) =
          SumFunctionOnSet(f, S \cap part) + SumFunctionOnSet(f, S \ part)
        BY <2>1
  <2> HIDE DEF Fails
  <2> QED
      BY <2>1, <2>2, Zenon
<1>1. PICK s \in Fails : \A x \in s : s \ {x} \notin Fails
  <2>1. Fails \in SUBSET (SUBSET S)
        OBVIOUS
  <2> HIDE DEF Fails
  <2>2. \E s \in Fails : \A x \in s : s \ {x} \notin Fails
        BY <2>1, SmallestSubset, SMTT(30)
  <2> QED
      BY <2>2
<1>2. s # {}
  <2>1. {} \cap part = {} /\ {} \ part = {} /\ SumFunctionOnSet(f, {}) = 0
        BY SumEmpty
  <2>2. SumFunctionOnSet(f, s) #
          SumFunctionOnSet(f, s \cap part) + SumFunctionOnSet(f, s \ part)
        OBVIOUS
  <2>3. s = {} => s \cap part = {} /\ s \ part = {}
        OBVIOUS
  <2> HIDE DEF Fails
  <2>4. s = {} => 0 # 0 + 0
        BY <2>1, <2>2, <2>3, Zenon
  <2> QED
      BY <2>4
<1>3. PICK p \in s : TRUE
      BY <1>2
<1>4. \A u \in SUBSET s : IsFiniteSet(u) /\ \A x \in u : f[x] \in Int
      BY FS_Subset
<1>5. \A u \in SUBSET s : SumFunctionOnSet(f, u) \in Int
      BY <1>4, SumInt
<1>6. SumFunctionOnSet(f, s) = f[p] + SumFunctionOnSet(f, s \ {p})
      BY <1>4, SumRemove
<1>7. SumFunctionOnSet(f, s \ {p}) =
        SumFunctionOnSet(f, (s \ {p}) \cap part) + SumFunctionOnSet(f, (s \ {p}) \ part)
      BY <1>1
<1>8. SumFunctionOnSet(f, s) # SumFunctionOnSet(f, s \cap part) + SumFunctionOnSet(f, s \ part)
      OBVIOUS
<1> HIDE DEF Fails
<1>9. CASE p \in part
  <2>1. /\ (s \ {p}) \cap part = (s \cap part) \ {p}
        /\ (s \ {p}) \ part = s \ part
        BY <1>9
  <2>2. SumFunctionOnSet(f, s \cap part) = f[p] + SumFunctionOnSet(f, (s \cap part) \ {p})
    <3> DEFINE u == s \cap part
    <3>1. p \in u /\ u \in SUBSET s
          BY <1>9
    <3> HIDE DEF u
    <3>2. IsFiniteSet(u) /\ \A x \in u : f[x] \in Int
          BY <1>4, <3>1
    <3>3. SumFunctionOnSet(f, u) = f[p] + SumFunctionOnSet(f, u \ {p})
          BY <3>1, <3>2, SumRemove
    <3> QED
        BY <3>3 DEF u
  <2>3. /\ f[p] \in Int /\ SumFunctionOnSet(f, (s \cap part) \ {p}) \in Int
        /\ SumFunctionOnSet(f, s \ part) \in Int
    <3>1. (s \cap part) \ {p} \in SUBSET s /\ s \ part \in SUBSET s
          OBVIOUS
    <3> QED
        BY <1>4, <1>5, <3>1
  <2>4. SumFunctionOnSet(f, s \ {p}) =
          SumFunctionOnSet(f, (s \cap part) \ {p}) + SumFunctionOnSet(f, s \ part)
        BY <1>7, <2>1
  <2> QED
      BY <1>6, <1>8, <2>2, <2>3, <2>4
<1>10. CASE p \notin part
  <2>1. /\ (s \ {p}) \cap part = s \cap part
        /\ (s \ {p}) \ part = (s \ part) \ {p}
        BY <1>10
  <2>2. SumFunctionOnSet(f, s \ part) = f[p] + SumFunctionOnSet(f, (s \ part) \ {p})
    <3> DEFINE u == s \ part
    <3>1. p \in u /\ u \in SUBSET s
          BY <1>10
    <3> HIDE DEF u
    <3>2. IsFiniteSet(u) /\ \A x \in u : f[x] \in Int
          BY <1>4, <3>1
    <3>3. SumFunctionOnSet(f, u) = f[p] + SumFunctionOnSet(f, u \ {p})
          BY <3>1, <3>2, SumRemove
    <3> QED
        BY <3>3 DEF u
  <2>3. /\ f[p] \in Int /\ SumFunctionOnSet(f, (s \ part) \ {p}) \in Int
        /\ SumFunctionOnSet(f, s \cap part) \in Int
    <3>1. (s \ part) \ {p} \in SUBSET s /\ s \cap part \in SUBSET s
          OBVIOUS
    <3> QED
        BY <1>4, <1>5, <3>1
  <2>4. SumFunctionOnSet(f, s \ {p}) =
          SumFunctionOnSet(f, s \cap part) + SumFunctionOnSet(f, (s \ part) \ {p})
        BY <1>7, <2>1
  <2> QED
      BY <1>6, <1>8, <2>2, <2>3, <2>4
<1> QED
    BY <1>9, <1>10

\* One term changes.
LEMMA SumChange ==
  ASSUME NEW f, NEW g, NEW S, IsFiniteSet(S), NEW e \in S,
         \A x \in S : f[x] \in Int /\ g[x] \in Int,
         \A x \in S \ {e} : f[x] = g[x]
  PROVE  SumFunctionOnSet(g, S) = (SumFunctionOnSet(f, S) - f[e]) + g[e]
<1>1. IsFiniteSet(S \ {e})
      BY FS_Subset
<1>2. /\ SumFunctionOnSet(f, S) = f[e] + SumFunctionOnSet(f, S \ {e})
      /\ SumFunctionOnSet(g, S) = g[e] + SumFunctionOnSet(g, S \ {e})
      BY SumRemove
<1>3. SumFunctionOnSet(f, S \ {e}) = SumFunctionOnSet(g, S \ {e})
      BY <1>1, SumSame
<1>4. SumFunctionOnSet(f, S \ {e}) \in Int
      BY <1>1, SumInt
<1> QED
    BY <1>2, <1>3, <1>4

\* A term of a sum of counters is no more than the sum, and is all of it only
\* if the others are zero.
LEMMA SumPart ==
  ASSUME NEW f, NEW S, IsFiniteSet(S), \A x \in S : f[x] \in Nat, NEW e \in S
  PROVE  /\ f[e] <= SumFunctionOnSet(f, S)
         /\ f[e] = SumFunctionOnSet(f, S) => \A x \in S \ {e} : f[x] = 0
<1>1. IsFiniteSet(S \ {e})
      BY FS_Subset
<1>2. SumFunctionOnSet(f, S) = f[e] + SumFunctionOnSet(f, S \ {e})
      BY SumRemove
<1>3. SumFunctionOnSet(f, S \ {e}) \in Nat
      BY <1>1, SumNat
<1>4. ASSUME f[e] = SumFunctionOnSet(f, S), NEW x \in S \ {e}
      PROVE  f[x] = 0
  <2>1. SumFunctionOnSet(f, S \ {e}) = 0
        BY <1>2, <1>3, <1>4
  <2>2. SumFunctionOnSet(f, S \ {e}) = f[x] + SumFunctionOnSet(f, (S \ {e}) \ {x})
        BY <1>1, SumRemove
  <2>3. SumFunctionOnSet(f, (S \ {e}) \ {x}) \in Nat
    <3>1. IsFiniteSet((S \ {e}) \ {x})
          BY FS_Subset
    <3> QED
        BY <3>1, SumNat
  <2> QED
      BY <2>1, <2>2, <2>3
<1> QED
    BY <1>2, <1>3, <1>4

\* What is at most c times as large term by term is so as a whole.
LEMMA SumScaled ==
  ASSUME NEW f, NEW g, NEW c \in Nat, NEW S, IsFiniteSet(S),
         \A x \in S : f[x] \in Nat /\ g[x] \in Nat /\ f[x] <= c * g[x]
  PROVE  SumFunctionOnSet(f, S) <= c * SumFunctionOnSet(g, S)
<1> DEFINE Fails == {s \in SUBSET S :
      ~(SumFunctionOnSet(f, s) <= c * SumFunctionOnSet(g, s))}
<1> SUFFICES ASSUME Fails # {} PROVE FALSE
    OBVIOUS
<1>1. PICK s \in Fails : \A x \in s : s \ {x} \notin Fails
  <2>1. Fails \in SUBSET (SUBSET S)
        OBVIOUS
  <2> HIDE DEF Fails
  <2> QED
      BY <2>1, SmallestSubset
<1>2. ~(SumFunctionOnSet(f, s) <= c * SumFunctionOnSet(g, s))
      OBVIOUS
<1>3. s # {}
  <2>1. SumFunctionOnSet(f, {}) = 0 /\ SumFunctionOnSet(g, {}) = 0
        BY SumEmpty
  <2>2. 0 <= c * 0
        OBVIOUS
  <2> HIDE DEF Fails
  <2> QED
      BY <1>2, <2>1, <2>2
<1> DEFINE p == Picked(s)
           r == s \ {p}
<1>4. p \in s /\ SumFunctionOnSet(f, s) = f[p] + SumFunctionOnSet(f, r)
      BY <1>3, SumPick
<1>5. SumFunctionOnSet(g, s) = g[p] + SumFunctionOnSet(g, r)
      BY <1>3, SumPick
<1>6. r \in SUBSET S /\ IsFiniteSet(r)
      BY FS_Subset
<1>7. SumFunctionOnSet(f, r) \in Nat /\ SumFunctionOnSet(g, r) \in Nat
      BY <1>6, SumNat
<1>8. SumFunctionOnSet(f, r) <= c * SumFunctionOnSet(g, r)
      BY <1>1, <1>4, <1>6
<1>9. f[p] \in Nat /\ g[p] \in Nat /\ f[p] <= c * g[p]
      BY <1>4
<1>10. \A a, b \in Nat : c * (a + b) = c * a + c * b /\ c * a \in Nat /\ c * b \in Nat
      OBVIOUS
<1> HIDE DEF p, r, Fails
<1>11. c * SumFunctionOnSet(g, s) = c * g[p] + c * SumFunctionOnSet(g, r)
      BY <1>5, <1>7, <1>9, <1>10
<1>12. c * g[p] \in Nat /\ c * SumFunctionOnSet(g, r) \in Nat
      BY <1>7, <1>9, <1>10
<1>13. f[p] + SumFunctionOnSet(f, r) <= c * g[p] + c * SumFunctionOnSet(g, r)
      BY <1>7, <1>8, <1>9, <1>12
<1> QED
    BY <1>2, <1>4, <1>11, <1>13

\* A sum of counters is positive if and only if one of them is.
LEMMA SumPositive ==
  ASSUME NEW f, NEW S, IsFiniteSet(S), \A x \in S : f[x] \in Nat
  PROVE  SumFunctionOnSet(f, S) > 0 <=> \E x \in S : f[x] > 0
<1>1. ASSUME NEW x \in S, f[x] > 0 PROVE SumFunctionOnSet(f, S) > 0
  <2>1. f[x] <= SumFunctionOnSet(f, S) /\ SumFunctionOnSet(f, S) \in Nat
        BY SumPart, SumNat
  <2> QED
      BY <1>1, <2>1
<1>2. ASSUME SumFunctionOnSet(f, S) > 0 PROVE \E x \in S : f[x] > 0
  <2> SUFFICES ASSUME \A x \in S : f[x] = 0 PROVE FALSE
      OBVIOUS
  <2>1. SumFunctionOnSet(f, S) = 0
        BY SumZero
  <2> QED
      BY <1>2, <2>1
<1> QED
    BY <1>1, <1>2

\* What is one for some and zero for the others sums up to their number.
LEMMA SumCount ==
  ASSUME NEW f, NEW S, IsFiniteSet(S), NEW part \in SUBSET S,
         \A x \in S : f[x] = IF x \in part THEN 1 ELSE 0
  PROVE  SumFunctionOnSet(f, S) = Cardinality(part)
<1> DEFINE Fails == {s \in SUBSET S : SumFunctionOnSet(f, s) # Cardinality(s \cap part)}
<1> SUFFICES ASSUME Fails # {} PROVE FALSE
  <2>1. S \cap part = part
        OBVIOUS
  <2> QED
      BY <2>1
<1>1. PICK s \in Fails : \A x \in s : s \ {x} \notin Fails
  <2>1. Fails \in SUBSET (SUBSET S)
        OBVIOUS
  <2> HIDE DEF Fails
  <2> QED
      BY <2>1, SmallestSubset
<1>2. SumFunctionOnSet(f, s) # Cardinality(s \cap part)
      OBVIOUS
<1>3. s # {}
  <2>1. s = {} => s \cap part = {}
        OBVIOUS
  <2>2. SumFunctionOnSet(f, {}) = 0 /\ Cardinality({}) = 0
        BY SumEmpty, FS_EmptySet
  <2> HIDE DEF Fails
  <2> QED
      BY <1>2, <2>1, <2>2
<1>4. PICK p \in s : SumFunctionOnSet(f, s) = f[p] + SumFunctionOnSet(f, s \ {p})
  <2>1. s \in SUBSET S
        OBVIOUS
  <2> HIDE DEF Fails
  <2> QED
      BY <1>3, <2>1, SumPick
<1>5. SumFunctionOnSet(f, s \ {p}) = Cardinality((s \ {p}) \cap part)
      BY <1>1
<1>6. IsFiniteSet(s \cap part) /\ Cardinality(s \cap part) \in Nat
      BY FS_Subset, FS_CardinalityType
<1>7. CASE p \in part
  <2>1. (s \ {p}) \cap part = (s \cap part) \ {p} /\ p \in s \cap part /\ f[p] = 1
        BY <1>7
  <2> HIDE DEF Fails
  <2>2. Cardinality((s \cap part) \ {p}) = Cardinality(s \cap part) - 1
        BY <1>6, <2>1, FS_RemoveElement
  <2>3. SumFunctionOnSet(f, s) = 1 + (Cardinality(s \cap part) - 1)
        BY <1>4, <1>5, <2>1, <2>2, Zenon
  <2> QED
      BY <1>2, <1>6, <2>3
<1>8. CASE p \notin part
  <2>1. (s \ {p}) \cap part = s \cap part /\ f[p] = 0
        BY <1>8
  <2> HIDE DEF Fails
  <2>2. SumFunctionOnSet(f, s) = 0 + Cardinality(s \cap part)
        BY <1>4, <1>5, <2>1, Zenon
  <2> QED
      BY <1>2, <1>6, <2>2
<1> QED
    BY <1>7, <1>8
=============================================================================
