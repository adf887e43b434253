---------------------------- MODULE Reload_proofs ----------------------------
(***************************************************************************)
(* Theorems about Reload and the modules it is composed of, for any files, *)
(* any number of commands that edit them at any moment, and any life of    *)
(* the daemon.                                                             *)
(*                                                                         *)
(* Names and paths, and the lines a reset keeps, come first; then Typed,   *)
(* the types of everything, on which the others rest; then, each with the  *)
(* invariant it needs: what the daemon has follows the files (InForce),    *)
(* the summary (OfConfs), the edits (OwnFiles and Undisturbed), the classes *)
(* (ClassInv).                                                             *)
(***************************************************************************)
EXTENDS Reload, SumLemmas, SequenceTheorems

-----------------------------------------------------------------------------
(* Names and paths.                                                        *)

LEMMA CanonicalPath ==
  ASSUME NEW p \in Paths, NEW otherwise
  PROVE  CanonicalOr(p, otherwise) \in Paths \cup {otherwise}
  BY AppPathsAssumption DEF CanonicalOr

LEMMA AppNameIsName ==
  ASSUME NEW name \in Names
  PROVE  resolve_app_name(name) \in Names
<1> DEFINE found == IF name \in Paths THEN name ELSE Located[name]
<1>1. found \in Paths \cup {NoPath}
      BY AppPathsAssumption DEF Names
<1>2. CASE found = NoPath
      BY <1>2 DEF resolve_app_name
<1>3. CASE found # NoPath
  <2>1. CanonicalOr(found, found) \in Paths
        BY <1>1, <1>3, CanonicalPath
  <2> QED
      BY <1>3, <2>1 DEF resolve_app_name, Names
<1> QED
    BY <1>2, <1>3

LEMMA WrapperStarts ==
  ASSUME NEW p \in Paths
  PROVE  parse_script_for_exec(p) \in Paths \cup {NoPath}
<1> DEFINE execs == FileAt[p].execs
           accepted == {i \in 1..Len(execs) : IsTrustedElf(execs[i])}
           first == SelectInSeq(execs, IsTrustedElf)
<1>1. execs \in Seq(Paths)
      BY AppPathsAssumption
<1>2. CASE accepted = {}
  <2>1. first = 0
        BY <1>2 DEF SelectInSeq
  <2> QED
      BY <2>1 DEF parse_script_for_exec
<1>3. CASE accepted # {}
  <2>1. first = Min(accepted)
        BY <1>3 DEF SelectInSeq
  <2>2. accepted \in SUBSET Nat
        BY <1>1
  <2>3. \E least \in accepted : \A n \in accepted : least <= n
    <3> HIDE DEF accepted
    <3> QED
        BY <1>3, <2>2, LeastNumber
  <2>4. first \in accepted
    <3> HIDE DEF accepted, first
    <3> QED
        BY <2>1, <2>3 DEF Min
  <2>5. execs[first] \in Paths /\ first # 0
    <3>1. first \in 1..Len(execs)
          BY <2>4
    <3> HIDE DEF first, execs
    <3> QED
        BY <1>1, <3>1
  <2>6. CanonicalOr(execs[first], NoPath) \in Paths \cup {NoPath}
        BY <2>5, CanonicalPath
  <2> QED
      BY <2>5, <2>6 DEF parse_script_for_exec
<1> QED
    BY <1>2, <1>3

LEMMA BinaryIsPath ==
  ASSUME NEW p \in Paths
  PROVE  resolve_binary_path(p) \in Paths \cup {NoPath}
<1> DEFINE real == CanonicalOr(p, NoPath)
<1>1. real \in Paths \cup {NoPath}
      BY CanonicalPath
<1>2. CASE real = NoPath
      BY <1>2 DEF resolve_binary_path
<1>3. CASE real \in Paths
  <2>1. parse_script_for_exec(real) \in Paths \cup {NoPath}
        BY <1>3, WrapperStarts
  <2>2. extract_interpreter(real) \in Paths \cup {NoPath}
    <3>1. FileAt[real].shebang \in Paths \cup {NoPath}
          BY <1>3, AppPathsAssumption
    <3>2. CanonicalOr(FileAt[real].shebang, NoPath) \in Paths \cup {NoPath}
          BY <3>1, CanonicalPath DEF CanonicalOr
    <3> QED
        BY <3>2 DEF extract_interpreter
  <2> QED
      BY <1>1, <2>1, <2>2 DEF resolve_binary_path
<1> QED
    BY <1>1, <1>2, <1>3

LEMMA ManualListedPaths == ManualListed \subseteq Paths
  BY BinaryIsPath DEF ManualListed

LEMMA ClassOfPath ==
  ASSUME NEW e, NEW listed
  PROVE  ClassOf(e, listed) \in Classes
  BY DEF ClassOf, Unlisted, Classes

-----------------------------------------------------------------------------
(* The lines a reset keeps.                                                *)

Keeping(lines, entry, kept, n) ==
  IF n = 0 THEN <<>>
  ELSE IF lines[n] = entry THEN kept[n - 1]
  ELSE Append(kept[n - 1], lines[n])

Keeps(lines, entry, upTo, kept) ==
  kept = [n \in 0..upTo |-> Keeping(lines, entry, kept, n)]

LEMMA WithoutUnfolded ==
  ASSUME NEW lines, NEW entry
  PROVE  Without(lines, entry)
           = (CHOOSE kept : Keeps(lines, entry, Len(lines), kept))[Len(lines)]
  BY DEF Without, Keeps, Keeping

LEMMA KeepsExists ==
  ASSUME NEW lines, NEW entry, NEW upTo \in Nat
  PROVE  \E kept : Keeps(lines, entry, upTo, kept)
<1> DEFINE Good == {n \in Nat : \E kept : Keeps(lines, entry, n, kept)}
<1>1. 0 \in Good
  <2> DEFINE kept == [n \in 0..0 |-> <<>>]
  <2>1. \A n \in 0..0 : Keeping(lines, entry, kept, n) = <<>>
        BY DEF Keeping
  <2>2. Keeps(lines, entry, 0, kept)
        BY <2>1 DEF Keeps
  <2> QED
      BY <2>2
<1>2. ASSUME NEW n \in Good PROVE n + 1 \in Good
  <2>1. PICK kept : Keeps(lines, entry, n, kept)
        OBVIOUS
  <2> DEFINE more == [i \in 0..(n + 1) |-> Keeping(lines, entry, kept, i)]
  <2>2. n \in Nat
        OBVIOUS
  <2>3. \A i \in 0..n : kept[i] = more[i]
    <3>1. \A i \in 0..n : kept[i] = Keeping(lines, entry, kept, i) /\ i \in 0..(n + 1)
          BY <2>1, <2>2 DEF Keeps
    <3> QED
        BY <3>1
  <2>4. \A i \in 0..(n + 1) : Keeping(lines, entry, kept, i) = Keeping(lines, entry, more, i)
    <3> SUFFICES ASSUME NEW i \in 0..(n + 1), i # 0
                 PROVE  kept[i - 1] = more[i - 1]
        BY DEF Keeping
    <3>1. i - 1 \in 0..n
          BY <2>2
    <3> QED
        BY <2>3, <3>1
  <2>5. Keeps(lines, entry, n + 1, more)
        BY <2>4 DEF Keeps
  <2> QED
      BY <2>2, <2>5
<1>3. Good = Nat
  <2>1. Good \in SUBSET Nat
        OBVIOUS
  <2> HIDE DEF Good
  <2> QED
      BY <1>1, <1>2, <2>1, SetOfAllNumbers
<1> QED
    BY <1>3

LEMMA AppendedLine ==
  ASSUME NEW S, NEW lines \in Seq(S), NEW line \in S
  PROVE  ToSet(Append(lines, line)) = ToSet(lines) \cup {line}
<1> DEFINE L == Len(lines)
           longer == Append(lines, line)
<1>1. /\ DOMAIN longer = 1..(L + 1) /\ DOMAIN lines = 1..L /\ L \in Nat
      /\ longer[L + 1] = line /\ \A i \in 1..L : longer[i] = lines[i]
      OBVIOUS
<1>2. 1..(L + 1) = 1..L \cup {L + 1}
      BY <1>1
<1> HIDE DEF longer, L
<1>3. ToSet(longer) = {longer[i] : i \in 1..L} \cup {longer[L + 1]}
      BY <1>1, <1>2 DEF ToSet
<1>4. {longer[i] : i \in 1..L} = ToSet(lines)
      BY <1>1 DEF ToSet
<1> QED
    BY <1>1, <1>3, <1>4 DEF longer

\* What is kept of a list: its lines without those that equal the entry.
LEMMA KeptLines ==
  ASSUME NEW S, NEW lines \in Seq(S), NEW entry
  PROVE  /\ Without(lines, entry) \in Seq(S)
         /\ ToSet(Without(lines, entry)) = ToSet(lines) \ {entry}
<1> DEFINE L == Len(lines)
           kept == CHOOSE k : Keeps(lines, entry, L, k)
           Right(n) == /\ kept[n] \in Seq(S)
                       /\ ToSet(kept[n]) = {lines[i] : i \in 1..n} \ {entry}
           Good == {n \in Nat : n <= L => Right(n)}
<1>1. L \in Nat
      OBVIOUS
<1>2. \A n \in 0..L : kept[n] = Keeping(lines, entry, kept, n)
  <2>1. Keeps(lines, entry, L, kept)
    <3>1. \E k : Keeps(lines, entry, L, k)
          BY <1>1, KeepsExists
    <3> HIDE DEF L
    <3> QED
        BY <3>1
  <2> HIDE DEF kept
  <2> QED
      BY <2>1, Zenon DEF Keeps
<1> HIDE DEF kept
<1>3. 0 \in Good
  <2>1. kept[0] = <<>>
        BY <1>1, <1>2 DEF Keeping
  <2>2. ToSet(<<>>) = {} /\ <<>> \in Seq(S)
        BY DEF ToSet
  <2>3. {lines[i] : i \in 1..0} = {}
        OBVIOUS
  <2>4. Right(0)
        BY <2>1, <2>2, <2>3
  <2> HIDE DEF Right
  <2> QED
      BY <2>4
<1>4. ASSUME NEW n \in Good PROVE n + 1 \in Good
  <2> SUFFICES ASSUME n + 1 <= L PROVE Right(n + 1)
      OBVIOUS
  <2>1. n \in Nat /\ n + 1 \in 0..L /\ n + 1 # 0 /\ (n + 1) - 1 = n /\ n <= L
        BY <1>1
  <2>2. Right(n)
        BY <2>1
  <2>3. kept[n + 1] = IF lines[n + 1] = entry THEN kept[n] ELSE Append(kept[n], lines[n + 1])
        BY <1>2, <2>1 DEF Keeping
  <2>4. {lines[i] : i \in 1..(n + 1)} = {lines[i] : i \in 1..n} \cup {lines[n + 1]}
    <3>1. 1..(n + 1) = 1..n \cup {n + 1}
          BY <2>1
    <3> QED
        BY <3>1
  <2>5. lines[n + 1] \in S
        BY <2>1
  <2>6. CASE lines[n + 1] = entry
        BY <2>2, <2>3, <2>4, <2>6
  <2>7. CASE lines[n + 1] # entry
    <3>1. kept[n + 1] = Append(kept[n], lines[n + 1])
          BY <2>3, <2>7
    <3>2. kept[n + 1] \in Seq(S)
          BY <2>2, <2>5, <3>1
    <3>3. ToSet(kept[n + 1]) = ToSet(kept[n]) \cup {lines[n + 1]}
          BY <2>2, <2>5, <3>1, AppendedLine
    <3> QED
        BY <2>2, <2>4, <2>7, <3>2, <3>3
  <2> QED
      BY <2>6, <2>7
<1>5. Good = Nat
  <2>1. Good \in SUBSET Nat
        OBVIOUS
  <2> HIDE DEF Good
  <2> QED
      BY <1>3, <1>4, <2>1, SetOfAllNumbers
<1>6. Right(L)
  <2>1. L <= L
        BY <1>1
  <2> HIDE DEF Right, L
  <2> QED
      BY <1>1, <1>5, <2>1
<1>7. Without(lines, entry) = kept[L]
      BY WithoutUnfolded DEF kept
<1>8. {lines[i] : i \in 1..L} = ToSet(lines)
  <2>1. DOMAIN lines = 1..L
        OBVIOUS
  <2> QED
      BY <2>1, Zenon DEF ToSet
<1> HIDE DEF L
<1> QED
    BY <1>6, <1>7, <1>8

-----------------------------------------------------------------------------
(* The files and the commands have their types.                            *)

\* A command has its list open only while it resets, and its temporary file only
\* between opening and renaming it.
RightStep(r) ==
  /\ r.step = "append" => r.what \in Names
  /\ r.step \in {"open", "write", "rename"} => r.op = "reset"
  /\ r.out # NoInode <=> r.step \in {"write", "rename"}

ListsTyped == ListsTypeOK /\ \A p \in Ctls : RightStep(ctl[p])

LEMMA CommandTyped ==
  ASSUME NEW op \in {"none", "promote", "demote", "reset", "configure"},
         NEW step \in {"idle", "append", "open", "signal"},
         NEW what \in Names \cup {NoPath}, NEW file \in ListNames,
         step = "append" => what \in Names, step = "open" => op = "reset"
  PROVE  /\ Command(op, step, what, file) \in CtlRecords
         /\ RightStep(Command(op, step, what, file))
  BY DEF Command, CtlRecords, RightStep

LEMMA IdleTyped == Idle \in CtlRecords /\ RightStep(Idle)
  BY CommandTyped DEF Idle, ListNames

LEMMA UnionBound ==
  ASSUME NEW S, NEW T, IsFiniteSet(S), IsFiniteSet(T),
         NEW m \in Nat, NEW n \in Nat, Cardinality(S) <= m, Cardinality(T) <= n
  PROVE  IsFiniteSet(S \cup T) /\ Cardinality(S \cup T) <= m + n
<1>1. /\ IsFiniteSet(S \cup T)
      /\ Cardinality(S \cup T) = Cardinality(S) + Cardinality(T) - Cardinality(S \cap T)
      BY FS_Union
<1>2. IsFiniteSet(S \cap T)
      BY FS_Subset
<1>3. Cardinality(S) \in Nat /\ Cardinality(T) \in Nat /\ Cardinality(S \cap T) \in Nat
      BY <1>2, FS_CardinalityType
<1> QED
    BY <1>1, <1>3

\* There are inodes for both lists.
LEMMA FirstInodes ==
  /\ FirstInode \in [ListNames -> Inodes]
  /\ FirstInode["apps.list"] # FirstInode["blacklist"]
<1>1. \E i, j \in Inodes : i # j
  <2> SUFFICES ASSUME \A i, j \in Inodes : i = j PROVE FALSE
      OBVIOUS
  <2>1. Cardinality(Inodes) <= 1
    <3>1. CASE Inodes = {}
          BY <3>1, FS_EmptySet
    <3>2. CASE Inodes # {}
      <4>1. PICK i \in Inodes : TRUE
            BY <3>2
      <4>2. Inodes = {i}
            BY <4>1
      <4> QED
          BY <4>2, FS_Singleton
    <3> QED
        BY <3>1, <3>2
  <2>2. Cardinality(Inodes) \in Nat /\ Cardinality(Ctls) \in Nat
        BY ListsAssumption, FS_CardinalityType
  <2> QED
      BY <2>1, <2>2, ListsAssumption
<1>2. PICK i, j \in Inodes : i # j
      BY <1>1
<1> DEFINE both == [f \in ListNames |-> IF f = "blacklist" THEN j ELSE i]
<1>3. both \in [ListNames -> Inodes] /\ IsInjective(both)
      BY <1>2 DEF IsInjective, ListNames
<1>4. FirstInode \in [ListNames -> Inodes] /\ IsInjective(FirstInode)
  <2> HIDE DEF both
  <2> QED
      BY <1>3, Zenon DEF FirstInode
<1> QED
    BY <1>4 DEF IsInjective, ListNames

LEMMA UsedInodes ==
  ASSUME ListsTypeOK
  PROVE  /\ Used \subseteq Inodes /\ IsFiniteSet(Used)
         /\ Cardinality(Used) <= 4 + Cardinality(Ctls)
<1> DEFINE Linked == {link["apps.list"]} \cup {link["blacklist"]}
           Temps  == {temp["apps.list"]} \cup {temp["blacklist"]}
           Outs   == {ctl[p].out : p \in Ctls}
           out    == [p \in Ctls |-> ctl[p].out]
<1>1. \A s, t : IsFiniteSet({s} \cup {t}) /\ Cardinality({s} \cup {t}) <= 2
  <2> TAKE s, t
  <2>1. IsFiniteSet({s}) /\ Cardinality({s}) = 1
        BY FS_Singleton
  <2> QED
      BY <2>1, FS_AddElement
<1>2. IsFiniteSet(Outs) /\ Cardinality(Outs) <= Cardinality(Ctls)
  <2>1. out \in Surjection(Ctls, Outs)
        BY DEF Surjection
  <2> HIDE DEF out, Outs
  <2> QED
      BY <2>1, FS_Surjection, ListsAssumption
<1>3. Used \subseteq (Linked \cup Temps) \cup Outs
      BY DEF Used, ListNames
<1>4. Used \subseteq Inodes
      BY DEF Used, ListsTypeOK, CtlRecords
<1> HIDE DEF Linked, Temps, Outs
<1>5. IsFiniteSet(Linked \cup Temps) /\ Cardinality(Linked \cup Temps) <= 4
  <2>1. /\ IsFiniteSet(Linked) /\ Cardinality(Linked) <= 2
        /\ IsFiniteSet(Temps) /\ Cardinality(Temps) <= 2
        BY <1>1 DEF Linked, Temps
  <2>2. IsFiniteSet(Linked \cup Temps) /\ Cardinality(Linked \cup Temps) <= 2 + 2
        BY <2>1, UnionBound
  <2> QED
      BY <2>2
<1>6. /\ IsFiniteSet((Linked \cup Temps) \cup Outs)
      /\ Cardinality((Linked \cup Temps) \cup Outs) <= 4 + Cardinality(Ctls)
  <2>1. Cardinality(Ctls) \in Nat
        BY ListsAssumption, FS_CardinalityType
  <2> QED
      BY <1>2, <1>5, <2>1, UnionBound
<1>7. /\ IsFiniteSet(Used)
      /\ Cardinality(Used) <= Cardinality((Linked \cup Temps) \cup Outs)
      BY <1>3, <1>6, FS_Subset
<1>8. /\ Cardinality(Used) \in Nat /\ Cardinality(Ctls) \in Nat
      /\ Cardinality((Linked \cup Temps) \cup Outs) \in Nat
      BY <1>6, <1>7, ListsAssumption, FS_CardinalityType
<1> QED
    BY <1>4, <1>6, <1>7, <1>8

LEMMA FreshInode ==
  ASSUME ListsTypeOK
  PROVE  Fresh \in Inodes /\ Fresh \notin Used
<1>1. ~(Inodes \subseteq Used)
  <2> SUFFICES ASSUME Inodes \subseteq Used PROVE FALSE
      OBVIOUS
  <2>1. Cardinality(Inodes) <= Cardinality(Used)
        BY UsedInodes, FS_Subset
  <2>2. Cardinality(Inodes) \in Nat /\ Cardinality(Used) \in Nat /\ Cardinality(Ctls) \in Nat
        BY UsedInodes, ListsAssumption, FS_CardinalityType
  <2> QED
      BY <2>1, <2>2, UsedInodes, ListsAssumption
<1> QED
    BY <1>1 DEF Fresh

LEMMA WrittenLines ==
  ASSUME NEW S, NEW old \in Seq(S), NEW new \in Seq(S)
  PROVE  /\ Written(old, new) \in Seq(S)
         /\ ToSet(new) \subseteq ToSet(Written(old, new))
         /\ old = <<>> => Written(old, new) = new
<1> DEFINE rest == SubSeq(old, Len(new) + 1, Len(old))
<1>1. rest \in Seq(S)
      OBVIOUS
<1>2. old = <<>> => rest = <<>>
      OBVIOUS
<1> HIDE DEF rest
<1>3. Written(old, new) = new \o rest
      BY DEF Written, rest
<1>4. \A i \in 1..Len(new) : i \in DOMAIN (new \o rest) /\ (new \o rest)[i] = new[i]
      BY <1>1
<1>5. DOMAIN new = 1..Len(new)
      OBVIOUS
<1>6. ToSet(new) \subseteq ToSet(new \o rest)
  <2> SUFFICES ASSUME NEW i \in DOMAIN new PROVE new[i] \in ToSet(new \o rest)
      BY DEF ToSet
  <2> QED
      BY <1>4, <1>5 DEF ToSet
<1> QED
    BY <1>1, <1>2, <1>3, <1>6

LEMMA ListsTypedInit == ListsInit => ListsTyped
<1> SUFFICES ASSUME ListsInit PROVE ListsTyped
    OBVIOUS
<1> USE ListsAssumption
<1>1. ctl \in [Ctls -> CtlRecords] /\ \A p \in Ctls : RightStep(ctl[p])
      BY IdleTyped DEF ListsInit
<1>2. PICK first \in FirstLists :
        /\ link = [f \in ListNames |-> IF first[f] = <<>> THEN NoInode ELSE FirstInode[f]]
        /\ disk = [i \in Inodes |->
             IF \E f \in ListNames : link[f] = i
             THEN [Nothing EXCEPT !.lines = first[CHOOSE f \in ListNames : link[f] = i]]
             ELSE Nothing]
      BY DEF ListsInit
<1>3. FirstInode \in [ListNames -> Inodes]
      BY FirstInodes
<1>4. link \in [ListNames -> Inodes \cup {NoInode}]
      BY <1>2, <1>3
<1>5. disk \in [Inodes -> [lines : Seq(Names), time : 0..MaxTime]]
  <2>1. Nothing \in [lines : Seq(Names), time : 0..MaxTime]
        BY DEF Nothing
  <2>2. ASSUME NEW i \in Inodes, \E f \in ListNames : link[f] = i
        PROVE  [Nothing EXCEPT !.lines = first[CHOOSE f \in ListNames : link[f] = i]]
                 \in [lines : Seq(Names), time : 0..MaxTime]
    <3> DEFINE g == CHOOSE f \in ListNames : link[f] = i
    <3>1. g \in ListNames
          BY <2>2
    <3> HIDE DEF g
    <3>2. first[g] \in Seq(Names)
          BY <3>1
    <3> QED
        BY <2>1, <3>2 DEF g
  <2> QED
      BY <1>2, <2>1, <2>2
<1>6. temp \in [ListNames -> Inodes \cup {NoInode}]
      BY DEF ListsInit
<1>7. conf \in Confs /\ abandoned \in BOOLEAN
      BY DEF ListsInit
<1>8. commands \in 0..MaxCommands /\ now \in 0..MaxTime
  <2>1. commands = 0 /\ now = 0 /\ MaxCommands \in Nat /\ MaxTime \in Nat
        BY DEF ListsInit
  <2> QED
      BY <2>1
<1> QED
    BY <1>1, <1>4, <1>5, <1>6, <1>7, <1>8 DEF ListsTyped, ListsTypeOK

\* An inode that nothing names is as new, the others are as they were.
LEMMA ReclaimedTyped ==
  ListsTypeOK /\ Reclaimed
    => disk' \in [Inodes -> [lines : Seq(Names), time : 0..MaxTime]]
<1> SUFFICES ASSUME ListsTypeOK, Reclaimed
             PROVE  disk' \in [Inodes -> [lines : Seq(Names), time : 0..MaxTime]]
    OBVIOUS
<1>1. Nothing \in [lines : Seq(Names), time : 0..MaxTime]
      BY ListsAssumption DEF Nothing
<1>2. \A i \in Inodes : disk[i] \in [lines : Seq(Names), time : 0..MaxTime]
      BY DEF ListsTypeOK
<1> HIDE DEF Nothing
<1> QED
    BY <1>1, <1>2 DEF Reclaimed

LEMMA LinesTyped ==
  ASSUME ListsTypeOK, NEW f \in ListNames
  PROVE  LinesOf(f) \in Seq(Names)
  BY DEF ListsTypeOK, LinesOf

LEMMA KeptTyped ==
  ASSUME ListsTypeOK, NEW p \in Ctls
  PROVE  /\ Kept(p) \in Seq(Names)
         /\ ToSet(Kept(p)) = ToSet(ctl[p].copy) \ {ctl[p].what}
<1>1. ctl[p].copy \in Seq(Names)
      BY DEF ListsTypeOK, CtlRecords
<1> QED
    BY <1>1, KeptLines DEF Kept

\* What a step leaves of one command, and of the others.
LEMMA CtlTyped ==
  ASSUME ListsTyped, NEW p \in Ctls, NEW r \in CtlRecords, RightStep(r), NEW met,
         \/ ctl' = [ctl EXCEPT ![p] = r]
         \/ ctl' = [q \in Ctls |-> IF q = p THEN r
                                   ELSE IF q \in met THEN [ctl[q] EXCEPT !.shared = TRUE]
                                   ELSE ctl[q]]
  PROVE  ctl' \in [Ctls -> CtlRecords] /\ \A q \in Ctls : RightStep(ctl'[q])
<1>1. ctl \in [Ctls -> CtlRecords] /\ \A q \in Ctls : RightStep(ctl[q])
      BY DEF ListsTyped, ListsTypeOK
<1>2. \A q \in Ctls : /\ [ctl[q] EXCEPT !.shared = TRUE] \in CtlRecords
                      /\ RightStep([ctl[q] EXCEPT !.shared = TRUE])
      BY <1>1 DEF CtlRecords, RightStep
<1> QED
    BY <1>1, <1>2

LEMMA BeginTyped ==
  ASSUME ListsTyped, NEW p \in Ctls, NEW c \in Commands,
         Add(p, c) \/ Reset(p, c) \/ Configure(p, c)
  PROVE  ListsTyped'
<1>1. c \in CommandRecords
      BY ListsAssumption
<1>2. Begin(p, c) /\ UNCHANGED <<disk, link, temp, now, abandoned>>
      BY DEF Add, Reset, Configure, Begin
<1>3. commands' \in 0..MaxCommands
      BY <1>2, ListsAssumption DEF Begin, ListsTyped, ListsTypeOK
<1>4. c.op \in {"promote", "demote", "reset", "configure"}
      BY <1>1 DEF CommandRecords
<1>5. PICK step \in {"signal", "append", "open"}, what \in Names \cup {NoPath},
           file \in ListNames :
        /\ ctl' = [ctl EXCEPT ![p] = Command(c.op, step, what, file)]
        /\ step = "append" => what \in Names
        /\ step = "open" => c.op = "reset"
  <2>1. CASE Add(p, c)
    <3> DEFINE entry == resolve_app_name(c.what)
               list  == IF c.op = "demote" THEN "blacklist" ELSE "apps.list"
    <3>1. c.what \in Names
          BY <1>1, <2>1 DEF CommandRecords, Add
    <3>2. entry \in Names
          BY <3>1, AppNameIsName
    <3>3. list \in ListNames
          BY DEF ListNames
    <3> QED
        BY <2>1, <3>2, <3>3 DEF Add
  <2>2. CASE Reset(p, c)
    <3>1. c.what \in Names
          BY <1>1, <2>2 DEF CommandRecords, Reset
    <3> QED
        BY <2>2, <3>1 DEF Reset, ListNames
  <2>3. CASE Configure(p, c)
        BY <2>3 DEF Configure, ListNames
  <2> QED
      BY <2>1, <2>2, <2>3
<1>6. ctl' \in [Ctls -> CtlRecords] /\ \A q \in Ctls : RightStep(ctl'[q])
      BY <1>4, <1>5, CommandTyped, CtlTyped
<1>7. conf' \in Confs
  <2>1. CASE Configure(p, c)
        BY <1>1, <2>1 DEF Configure, CommandRecords
  <2>2. CASE Add(p, c) \/ Reset(p, c)
        BY <2>2 DEF Add, Reset, ListsTyped, ListsTypeOK
  <2> QED
      BY <2>1, <2>2
<1> QED
    BY <1>2, <1>3, <1>6, <1>7 DEF ListsTyped, ListsTypeOK

LEMMA AfterListTyped ==
  ASSUME ListsTypeOK, NEW p \in Ctls
  PROVE  /\ AfterList(p) \in CtlRecords /\ AfterList(p).step \in {"open", "signal"}
         /\ AfterList(p).op = ctl[p].op /\ AfterList(p).out = NoInode
<1>1. PICK r \in CtlRecords : r = ctl[p]
      BY DEF ListsTypeOK
<1>2. CASE r.file = "apps.list"
  <2>1. AfterList(p) = [step |-> "open", op |-> r.op, what |-> r.what, file |-> "blacklist",
                        copy |-> <<>>, out |-> NoInode, shared |-> FALSE]
        BY <1>1, <1>2 DEF AfterList, CtlRecords
  <2> QED
      BY <1>1, <2>1 DEF CtlRecords, ListNames
<1>3. CASE r.file # "apps.list"
  <2>1. AfterList(p) = [step |-> "signal", op |-> r.op, what |-> r.what, file |-> r.file,
                        copy |-> <<>>, out |-> NoInode, shared |-> FALSE]
        BY <1>1, <1>3 DEF AfterList, CtlRecords
  <2> QED
      BY <1>1, <2>1 DEF CtlRecords
<1> QED
    BY <1>2, <1>3

LEMMA ListsTypedStep ==
  ListsTyped /\ (ListsNext \/ \E p \in Ctls : Signalled(p)) => ListsTyped'
<1> SUFFICES ASSUME ListsTyped, ListsNext \/ \E p \in Ctls : Signalled(p)
             PROVE  ListsTyped'
    OBVIOUS
<1> USE DEF ListsTyped
<1>1. ASSUME NEW p \in Ctls, ctl' = [ctl EXCEPT ![p] = Idle]
      PROVE  ctl' \in [Ctls -> CtlRecords] /\ \A q \in Ctls : RightStep(ctl'[q])
      BY <1>1, IdleTyped, CtlTyped
<1>2. ASSUME NEW p \in Ctls, ctl[p].step \in {"open", "rename"}
      PROVE  AfterList(p) \in CtlRecords /\ RightStep(AfterList(p))
      BY <1>2, AfterListTyped DEF RightStep
<1>3. ASSUME NEW p \in Ctls, NEW from, NEW to, Step(p, from, to),
             <<from, to>> \in {<<"append", "signal">>, <<"write", "rename">>}
      PROVE  ctl' \in [Ctls -> CtlRecords] /\ \A q \in Ctls : RightStep(ctl'[q])
  <2>1. [ctl[p] EXCEPT !.step = to] \in CtlRecords
        /\ RightStep([ctl[p] EXCEPT !.step = to])
        BY <1>3 DEF ListsTypeOK, CtlRecords, RightStep, Step
  <2>2. ctl' = [ctl EXCEPT ![p] = [ctl[p] EXCEPT !.step = to]]
        BY <1>3 DEF Step
  <2> QED
      BY <2>1, <2>2, CtlTyped
<1>4. ASSUME NEW i \in Inodes, NEW lines \in Seq(Names), NEW time \in 0..MaxTime,
             disk' = [disk EXCEPT ![i] = [lines |-> lines, time |-> time]]
      PROVE  disk' \in [Inodes -> [lines : Seq(Names), time : 0..MaxTime]]
      BY <1>4 DEF ListsTypeOK
<1>6. ASSUME NEW p \in Ctls, NEW c \in Commands,
             Add(p, c) \/ Reset(p, c) \/ Configure(p, c)
      PROVE  ListsTyped'
      BY <1>6, BeginTyped
<1>7. ASSUME NEW p \in Ctls, AppendEntry(p)
      PROVE  ListsTyped'
  <2> DEFINE f == ctl[p].file
             i == IF link[f] = NoInode THEN Fresh ELSE link[f]
             lines == Append(LinesOf(f), ctl[p].what)
  <2>1. f \in ListNames /\ ctl[p].what \in Names /\ now \in 0..MaxTime
        BY <1>7 DEF AppendEntry, Step, ListsTypeOK, CtlRecords, RightStep
  <2>2. i \in Inodes
        BY <2>1, FreshInode DEF ListsTypeOK
  <2>3. lines \in Seq(Names)
        BY <2>1, LinesTyped
  <2>4. /\ Step(p, "append", "signal")
        /\ disk' = [disk EXCEPT ![i] = [lines |-> lines, time |-> now]]
        /\ link' = [link EXCEPT ![f] = i]
        /\ UNCHANGED <<temp, conf, commands, now, abandoned>>
        BY <1>7 DEF AppendEntry
  <2> HIDE DEF f, i, lines
  <2>5. disk' \in [Inodes -> [lines : Seq(Names), time : 0..MaxTime]]
        BY <1>4, <2>1, <2>2, <2>3, <2>4
  <2>6. link' \in [ListNames -> Inodes \cup {NoInode}]
        BY <2>2, <2>4 DEF ListsTypeOK
  <2> QED
    <3>1. ctl' \in [Ctls -> CtlRecords] /\ \A q \in Ctls : RightStep(ctl'[q])
          BY <1>3, <1>7 DEF AppendEntry
    <3> QED
        BY <2>4, <2>5, <2>6, <3>1 DEF ListsTypeOK
<1>8. ASSUME NEW p \in Ctls, AppendFails(p)
      PROVE  ListsTyped'
      BY <1>1, <1>8 DEF AppendFails, ListsTypeOK
<1>9. ASSUME NEW p \in Ctls, NoList(p)
      PROVE  ListsTyped'
  <2>1. AfterList(p) \in CtlRecords /\ RightStep(AfterList(p))
        BY <1>2, <1>9 DEF NoList
  <2>2. ctl' = [ctl EXCEPT ![p] = AfterList(p)]
        BY <1>9 DEF NoList
  <2>3. ctl' \in [Ctls -> CtlRecords] /\ \A q \in Ctls : RightStep(ctl'[q])
        BY <2>1, <2>2, CtlTyped
  <2> QED
      BY <1>9, <2>3 DEF NoList, ListsTypeOK
<1>10. ASSUME NEW p \in Ctls, OpenTemp(p)
       PROVE  ListsTyped'
  <2> DEFINE f == ctl[p].file
             i == IF temp[f] = NoInode THEN Fresh ELSE temp[f]
             met == {q \in Ctls : ctl[q].out = i}
             r == [ctl[p] EXCEPT !.step = "write", !.copy = LinesOf(f),
                                 !.out = i, !.shared = met # {}]
  <2>1. f \in ListNames /\ now \in 0..MaxTime
        BY DEF ListsTypeOK, CtlRecords
  <2>2. i \in Inodes
        BY <2>1, FreshInode DEF ListsTypeOK
  <2>3. /\ ctl' = [q \in Ctls |-> IF q = p THEN r
                                  ELSE IF q \in met THEN [ctl[q] EXCEPT !.shared = TRUE]
                                  ELSE ctl[q]]
        /\ disk' = [disk EXCEPT ![i] = [lines |-> <<>>, time |-> now]]
        /\ temp' = [temp EXCEPT ![f] = i]
        /\ UNCHANGED <<link, conf, commands, now, abandoned>>
        BY <1>10 DEF OpenTemp
  <2>4. r \in CtlRecords /\ RightStep(r)
    <3>1. LinesOf(f) \in Seq(Names) /\ (met # {}) \in BOOLEAN
          BY <2>1, LinesTyped
    <3>2. ctl[p] \in CtlRecords /\ ctl[p].step = "open" /\ RightStep(ctl[p])
          BY <1>10 DEF ListsTypeOK, OpenTemp
    <3> HIDE DEF f, i, met
    <3> QED
        BY <2>2, <3>1, <3>2, ListsAssumption DEF CtlRecords, RightStep, r
  <2> HIDE DEF f, i, met, r
  <2>5. disk' \in [Inodes -> [lines : Seq(Names), time : 0..MaxTime]]
    <3>1. <<>> \in Seq(Names)
          OBVIOUS
    <3> QED
        BY <1>4, <2>1, <2>2, <2>3, <3>1
  <2>6. temp' \in [ListNames -> Inodes \cup {NoInode}]
        BY <2>2, <2>3 DEF ListsTypeOK
  <2>7. ctl' \in [Ctls -> CtlRecords] /\ \A q \in Ctls : RightStep(ctl'[q])
        BY <2>3, <2>4, CtlTyped
  <2> QED
      BY <2>3, <2>5, <2>6, <2>7 DEF ListsTypeOK
<1>11. ASSUME NEW p \in Ctls, CloseTemp(p)
       PROVE  ListsTyped'
  <2> DEFINE i == ctl[p].out
             lines == Written(disk[i].lines, Kept(p))
             time == IF Kept(p) = <<>> THEN disk[i].time ELSE now
  <2>0. i \in Inodes
        BY <1>11 DEF CloseTemp, Step, RightStep, ListsTypeOK, CtlRecords
  <2>1. /\ Step(p, "write", "rename")
        /\ disk' = [disk EXCEPT ![i] = [lines |-> lines, time |-> time]]
        /\ UNCHANGED <<link, temp, conf, commands, now, abandoned>>
        BY <1>11 DEF CloseTemp
  <2>2. lines \in Seq(Names)
    <3>1. disk[i].lines \in Seq(Names)
          BY <2>0 DEF ListsTypeOK
    <3> QED
        BY <3>1, KeptTyped, WrittenLines
  <2>3. time \in 0..MaxTime
        BY <2>0 DEF ListsTypeOK
  <2> HIDE DEF lines, time
  <2>4. disk' \in [Inodes -> [lines : Seq(Names), time : 0..MaxTime]]
        BY <1>4, <2>0, <2>1, <2>2, <2>3
  <2> QED
      BY <1>3, <2>1, <2>4 DEF ListsTypeOK
<1>12. ASSUME NEW p \in Ctls, Replace(p)
       PROVE  ListsTyped'
  <2> DEFINE f == ctl[p].file
             met == {q \in Ctls : ctl[q].out = temp[f] /\ temp[f] # NoInode}
  <2>1. /\ ctl[p].step = "rename"
        /\ ctl' = [q \in Ctls |-> IF q = p THEN AfterList(p)
                                  ELSE IF q \in met THEN [ctl[q] EXCEPT !.shared = TRUE]
                                  ELSE ctl[q]]
        /\ temp' = [temp EXCEPT ![f] = NoInode]
        /\ link' = link \/ link' = [link EXCEPT ![f] = temp[f]]
        /\ UNCHANGED <<conf, commands, now, abandoned>>
        BY <1>12 DEF Replace
  <2>2. f \in ListNames
        BY DEF ListsTypeOK, CtlRecords
  <2>3. /\ temp' \in [ListNames -> Inodes \cup {NoInode}]
        /\ link' \in [ListNames -> Inodes \cup {NoInode}]
        BY <2>1, <2>2 DEF ListsTypeOK
  <2> HIDE DEF f, met
  <2>4. ctl' \in [Ctls -> CtlRecords] /\ \A q \in Ctls : RightStep(ctl'[q])
    <3>1. PICK r \in CtlRecords : r = AfterList(p) /\ RightStep(r)
          BY <1>2, <2>1
    <3>2. ctl' = [q \in Ctls |-> IF q = p THEN r
                                 ELSE IF q \in met THEN [ctl[q] EXCEPT !.shared = TRUE]
                                 ELSE ctl[q]]
          BY <2>1, <3>1, Zenon
    <3> QED
        BY <3>1, <3>2, CtlTyped
  <2>5. disk' \in [Inodes -> [lines : Seq(Names), time : 0..MaxTime]]
        BY <1>12, ReclaimedTyped DEF Replace
  <2> QED
      BY <2>1, <2>3, <2>4, <2>5 DEF ListsTypeOK
<1>13. ASSUME NEW p \in Ctls, KillCtl(p)
       PROVE  ListsTyped'
  <2>1. disk' \in [Inodes -> [lines : Seq(Names), time : 0..MaxTime]]
        BY <1>13, ReclaimedTyped DEF KillCtl
  <2>2. abandoned' \in BOOLEAN
        BY <1>13, Zenon DEF KillCtl
  <2> QED
      BY <1>1, <1>13, <2>1, <2>2 DEF KillCtl, ListsTypeOK
<1>14. ASSUME Elapse
       PROVE  ListsTyped'
  <2>1. now' \in 0..MaxTime
        BY <1>14, ListsAssumption DEF Elapse, ListsTypeOK
  <2> QED
      BY <1>14, <2>1 DEF Elapse, ListsTypeOK
<1>15. ASSUME NEW p \in Ctls, Signalled(p)
       PROVE  ListsTyped'
       BY <1>1, <1>15 DEF Signalled, ListsTypeOK
<1> QED
    BY <1>6, <1>7, <1>8, <1>9, <1>10, <1>11, <1>12, <1>13, <1>14, <1>15 DEF ListsNext

-----------------------------------------------------------------------------
(* The daemon's copies and tables have theirs.                             *)

LEMMA IsPoolTable ==
  ASSUME NEW K \in SUBSET Paths, NEW t \in [K -> Classes]
  PROVE  t \in PoolTables /\ DOMAIN t = K
  BY DEF PoolTables

LEMMA PoolTableIs ==
  ASSUME NEW t \in PoolTables
  PROVE  t \in [DOMAIN t -> Classes] /\ DOMAIN t \subseteq Paths
  BY DEF PoolTables

LEMMA IsFamilyTable ==
  ASSUME NEW K \in SUBSET (FamilyIds \cup {Junk}), NEW t \in [K -> SUBSET Paths]
  PROVE  t \in FamilyTables /\ DOMAIN t = K
  BY DEF FamilyTables

LEMMA FamilyTableIs ==
  ASSUME NEW t \in FamilyTables
  PROVE  t \in [DOMAIN t -> SUBSET Paths] /\ DOMAIN t \subseteq FamilyIds \cup {Junk}
  BY DEF FamilyTables

LEMMA EmptyTables ==
  /\ NoClasses \in PoolTables /\ DOMAIN NoClasses = {}
  /\ NoFamilies \in FamilyTables /\ DOMAIN NoFamilies = {}
<1>1. <<>> \in [{} -> Classes] /\ <<>> \in [{} -> SUBSET Paths]
      OBVIOUS
<1> QED
    BY <1>1, IsPoolTable, IsFamilyTable DEF NoClasses, NoFamilies

LEMMA SyncedTable ==
  ASSUME NEW classes \in PoolTables, manual \subseteq Paths
  PROVE  Synced(classes) \in PoolTables /\ DOMAIN Synced(classes) = DOMAIN classes \cup manual
<1> DEFINE K == DOMAIN classes \cup manual
<1>1. classes \in [DOMAIN classes -> Classes] /\ DOMAIN classes \subseteq Paths
      BY PoolTableIs
<1>2. Synced(classes) \in [K -> Classes]
      BY <1>1 DEF Synced, Classes
<1>3. K \in SUBSET Paths
      BY <1>1
<1> HIDE DEF K
<1>4. Synced(classes) \in PoolTables /\ DOMAIN Synced(classes) = K
      BY <1>2, <1>3, IsPoolTable
<1> QED
    BY <1>4 DEF K

LEMMA ConfiguredTable ==
  ASSUME NEW section \in FamilyTables
  PROVE  /\ Configured(section) \in FamilyTables
         /\ DOMAIN Configured(section) \subseteq DOMAIN section
         /\ \A id \in DOMAIN Configured(section) : Configured(section)[id] = section[id]
<1> DEFINE K == {id \in DOMAIN section : section[id] # {}}
<1>1. section \in [DOMAIN section -> SUBSET Paths] /\ DOMAIN section \subseteq FamilyIds \cup {Junk}
      BY FamilyTableIs
<1>2. Configured(section) = [id \in K |-> section[id]]
      BY DEF Configured
<1>3. Configured(section) \in [K -> SUBSET Paths] /\ K \in SUBSET (FamilyIds \cup {Junk})
      BY <1>1, <1>2
<1> HIDE DEF K
<1>4. Configured(section) \in FamilyTables
      BY <1>3, IsFamilyTable
<1> QED
    BY <1>2, <1>4 DEF K

LEMMA OverlaidTable ==
  ASSUME NEW table \in FamilyTables, NEW over \in FamilyTables
  PROVE  /\ Overlaid(table, over) \in FamilyTables
         /\ DOMAIN Overlaid(table, over) = DOMAIN table \cup DOMAIN over
<1> DEFINE K == DOMAIN table \cup DOMAIN over
<1>1. /\ table \in [DOMAIN table -> SUBSET Paths] /\ DOMAIN table \subseteq FamilyIds \cup {Junk}
      /\ over \in [DOMAIN over -> SUBSET Paths] /\ DOMAIN over \subseteq FamilyIds \cup {Junk}
      BY FamilyTableIs
<1>2. Overlaid(table, over) \in [K -> SUBSET Paths] /\ K \in SUBSET (FamilyIds \cup {Junk})
      BY <1>1 DEF Overlaid
<1> HIDE DEF K
<1>3. Overlaid(table, over) \in FamilyTables /\ DOMAIN Overlaid(table, over) = K
      BY <1>2, IsFamilyTable
<1> QED
    BY <1>3 DEF K

\* What is written of the families is a table, and every entry that is not junk is
\* that of a family.
LEMMA WrittenTable ==
  ASSUME FamiliesTypeOK, NEW table \in FamiliesWritten
  PROVE  /\ table \in FamilyTables
         /\ \A id \in DOMAIN table \ {Junk} : id \in DOMAIN families /\ table[id] = families[id]
<1>1. /\ families \in [DOMAIN families -> SUBSET Paths]
      /\ DOMAIN families \subseteq FamilyIds \cup {Junk} /\ freed \subseteq DOMAIN families
      BY FamilyTableIs DEF FamiliesTypeOK
<1>2. CASE table = families
      BY <1>2 DEF FamiliesTypeOK
<1>3. ASSUME NEW kept \in SUBSET DOMAIN families, table = [id \in kept |-> families[id]]
      PROVE  /\ table \in FamilyTables
             /\ \A id \in DOMAIN table \ {Junk} : id \in DOMAIN families /\ table[id] = families[id]
  <2>1. table \in [kept -> SUBSET Paths] /\ kept \in SUBSET (FamilyIds \cup {Junk})
        BY <1>1, <1>3
  <2>2. table \in FamilyTables
        BY <2>1, IsFamilyTable
  <2> QED
      BY <1>3, <2>2
<1>4. ASSUME NEW was \in freed,
             table = [id \in (DOMAIN families \ {was}) \cup {Junk} |->
                        IF id = Junk THEN families[was] ELSE families[id]]
      PROVE  /\ table \in FamilyTables
             /\ \A id \in DOMAIN table \ {Junk} : id \in DOMAIN families /\ table[id] = families[id]
  <2> DEFINE K == (DOMAIN families \ {was}) \cup {Junk}
  <2>1. table \in [K -> SUBSET Paths] /\ K \in SUBSET (FamilyIds \cup {Junk})
        BY <1>1, <1>4
  <2>2. table \in FamilyTables
    <3> HIDE DEF K
    <3> QED
        BY <2>1, IsFamilyTable
  <2> QED
      BY <1>4, <2>2
<1> QED
    BY <1>2, <1>3, <1>4 DEF FamiliesWritten

\* A daemon that starts has served no reload and discovered nothing.
Phases ==
  /\ starting => stage \in {"stat", "read", "signals"}
  /\ stage = "signals" => starting
  /\ starting \/ stage \in {"down", "load"} => ~reloaded /\ fresh = {}

Typed == ListsTyped /\ FamiliesTypeOK /\ DaemonTypeOK /\ Phases

LEMMA TypedImplies == Typed => TypeOK
  BY DEF Typed, TypeOK, ListsTyped

LEMMA ForgottenTyped ==
  Forgotten /\ saved' \in StateFiles => FamiliesTypeOK' /\ DaemonTypeOK' /\ Phases'
<1> SUFFICES ASSUME Forgotten, saved' \in StateFiles
             PROVE  FamiliesTypeOK' /\ DaemonTypeOK' /\ Phases'
    OBVIOUS
<1>1. /\ stage' = "down" /\ starting' = FALSE /\ hup' = FALSE
      /\ manual' = {} /\ black' = {} /\ noted' = NoTime
      /\ pool' = NoClasses /\ launched' = {} /\ dirty' = FALSE
      /\ reloaded' = FALSE /\ fresh' = {} /\ touched' = {}
      /\ families' = NoFamilies /\ freed' = {}
      BY DEF Forgotten
<1>2. FamiliesTypeOK'
      BY <1>1, EmptyTables DEF FamiliesTypeOK
<1>3. pool' \in PoolTables
      BY <1>1, EmptyTables
<1>4. DaemonTypeOK'
      BY <1>1, <1>3 DEF DaemonTypeOK
<1>5. Phases'
      BY <1>1 DEF Phases
<1> QED
    BY <1>2, <1>4, <1>5

LEMMA TypedInit == Init => Typed
<1> SUFFICES ASSUME Init PROVE Typed
    OBVIOUS
<1>1. ListsTyped
      BY ListsTypedInit DEF Init
<1>2. FamiliesTypeOK
      BY EmptyTables DEF Init, FamiliesInit, FamiliesTypeOK
<1>3. pool \in PoolTables /\ saved \in StateFiles
      BY EmptyTables, ReloadAssumption DEF Init
<1>4. DaemonTypeOK /\ Phases
      BY <1>3 DEF Init, DaemonTypeOK, Phases
<1> QED
    BY <1>1, <1>2, <1>4 DEF Typed

\* Saving, with tables that have their types.
LEMMA SaveTyped ==
  ASSUME Typed, NEW isDirty, NEW classes \in PoolTables, NEW launches \in SUBSET DOMAIN classes,
         SaveIf(isDirty, classes, launches)
  PROVE  saved' \in StateFiles
<1>1. saved \in StateFiles
      BY DEF Typed, DaemonTypeOK
<1>2. CASE ~isDirty
      BY <1>1, <1>2 DEF SaveIf
<1>3. CASE isDirty
  <2>1. PICK table \in FamiliesWritten :
          saved' = [pool |-> classes, launched |-> launches, families |-> table]
        BY <1>3 DEF SaveIf
  <2>2. table \in FamilyTables
        BY WrittenTable DEF Typed
  <2>3. launches \subseteq Paths
        BY PoolTableIs
  <2> QED
      BY <2>1, <2>2, <2>3 DEF StateFiles
<1> QED
    BY <1>2, <1>3

LEMMA SyncTyped ==
  ASSUME Typed, Sync
  PROVE  FamiliesTypeOK' /\ DaemonTypeOK' /\ Phases'
<1>1. pool \in PoolTables /\ manual \subseteq Paths /\ launched \subseteq Known
      BY DEF Typed, DaemonTypeOK
<1>2. Synced(pool) \in PoolTables /\ DOMAIN Synced(pool) = Known \cup manual
      BY <1>1, SyncedTable DEF Known
<1>3. /\ pool' = Synced(pool) /\ stage = "sync" /\ stage' = "idle" /\ dirty' = FALSE
      /\ fresh' = {}
      /\ UNCHANGED <<listVars, familyVars, starting, hup, manual, black, noted, launched, reloaded>>
      BY DEF Sync
<1>4. saved' \in StateFiles
      BY <1>1, <1>2, SaveTyped DEF Sync
<1>5. FamiliesTypeOK'
      BY <1>3 DEF familyVars, Typed, FamiliesTypeOK
<1>6. DaemonTypeOK'
      BY <1>1, <1>2, <1>3, <1>4 DEF DaemonTypeOK, Typed, Known
<1>7. Phases'
      BY <1>3 DEF Phases, Typed
<1> QED
    BY <1>5, <1>6, <1>7

LEMMA LoadTyped ==
  ASSUME Typed, Load
  PROVE  FamiliesTypeOK' /\ DaemonTypeOK' /\ Phases'
<1> PICK seeded \in Seeds :
      LET known   == DOMAIN saved.pool \cup seeded
          classes == Synced(Reclassified(known))
      IN  /\ stage = "load" /\ stage' = "idle"
          /\ pool' = classes /\ launched' = saved.launched \cup seeded
          /\ ReadFamilies(saved.families)
          /\ saved' = [saved EXCEPT !.pool = classes, !.launched = launched']
          /\ UNCHANGED <<listVars, starting, hup, manual, black, noted, dirty, reloaded, fresh>>
    BY DEF Load
<1> DEFINE known == DOMAIN saved.pool \cup seeded
           classes == Synced(Reclassified(known))
<1>1. /\ manual \subseteq Paths /\ saved \in StateFiles /\ fresh = {} /\ ~reloaded
      BY DEF Typed, DaemonTypeOK, Phases
<1>2. seeded \subseteq Paths
      BY ReloadAssumption DEF Seeds
<1>3. /\ saved.pool \in PoolTables /\ saved.families \in FamilyTables
      /\ saved.launched \subseteq DOMAIN saved.pool
      BY <1>1 DEF StateFiles
<1>4. known \subseteq Paths
      BY <1>2, <1>3, PoolTableIs
<1>5. Reclassified(known) \in PoolTables /\ DOMAIN Reclassified(known) = known
  <2>1. Reclassified(known) \in [known -> Classes]
        BY ClassOfPath DEF Reclassified
  <2> HIDE DEF known
  <2> QED
      BY <1>4, <2>1, IsPoolTable
<1>6. classes \in PoolTables /\ DOMAIN classes = known \cup manual
  <2> HIDE DEF known
  <2> QED
      BY <1>1, <1>5, SyncedTable
<1>7. launched' \subseteq DOMAIN classes /\ launched' \subseteq Paths
      BY <1>3, <1>4, <1>6
<1>8. saved' \in StateFiles
  <2>1. saved' = [pool |-> classes, launched |-> launched', families |-> saved.families]
        BY <1>1 DEF StateFiles
  <2> HIDE DEF classes
  <2> QED
      BY <1>3, <1>6, <1>7, <2>1 DEF StateFiles
<1>9. FamiliesTypeOK'
      BY <1>3 DEF ReadFamilies, FamiliesTypeOK
<1>10. pool' = classes /\ stage = "load" /\ stage' = "idle"
       /\ UNCHANGED <<starting, hup, manual, black, noted, dirty, reloaded, fresh>>
       OBVIOUS
<1> HIDE DEF classes
<1>11. DaemonTypeOK'
       BY <1>1, <1>6, <1>7, <1>8, <1>10 DEF DaemonTypeOK, Typed, Known
<1>12. Phases'
       BY <1>10 DEF Phases, Typed
<1> QED
    BY <1>9, <1>11, <1>12

LEMMA WorksTyped ==
  ASSUME Typed, Works
  PROVE  FamiliesTypeOK' /\ DaemonTypeOK' /\ Phases'
<1> USE DEF Typed
<1>1. CASE Start
  <2>1. FamiliesTypeOK'
        BY <1>1 DEF Start, familyVars, FamiliesTypeOK
  <2>2. manual' \subseteq Paths
        BY <1>1, ManualListedPaths DEF Start
  <2>3. DaemonTypeOK' /\ Phases'
        BY <1>1, <2>2 DEF Start, DaemonTypeOK, Phases, Known
  <2> QED
      BY <2>1, <2>3
<1>2. CASE ReloadConfig
  <2>1. conf.families \in FamilyTables
        BY ReloadAssumption DEF ListsTyped, ListsTypeOK, ConfRecords
  <2>2. FamiliesTypeOK'
    <3>1. CASE UNCHANGED familyVars
          BY <3>1 DEF familyVars, FamiliesTypeOK
    <3>2. CASE LoadFamilies(conf.families)
      <4>1. /\ Configured(conf.families) \in FamilyTables /\ families \in FamilyTables
            /\ freed \subseteq DOMAIN families
            BY <2>1, ConfiguredTable DEF FamiliesTypeOK
      <4>2. /\ Overlaid(families, Configured(conf.families)) \in FamilyTables
            /\ DOMAIN families \subseteq DOMAIN Overlaid(families, Configured(conf.families))
            BY <4>1, OverlaidTable
      <4> QED
          BY <3>2, <4>1, <4>2 DEF LoadFamilies, FamiliesTypeOK
    <3> QED
        BY <1>2, <3>1, <3>2 DEF ReloadConfig
  <2>3. manual' \subseteq Paths
        BY <1>2, ManualListedPaths DEF ReloadConfig, DaemonTypeOK
  <2>4. DaemonTypeOK'
        BY <1>2, <2>3 DEF ReloadConfig, DaemonTypeOK, Known
  <2>5. Phases'
        BY <1>2 DEF ReloadConfig, Phases
  <2> QED
      BY <2>2, <2>4, <2>5
<1>3. CASE Stat
  <2>1. FamiliesTypeOK'
        BY <1>3 DEF Stat, familyVars, FamiliesTypeOK
  <2>2. link["blacklist"] # NoInode => disk[link["blacklist"]].time \in 0..MaxTime
        BY DEF ListsTyped, ListsTypeOK, ListNames
  <2>3. /\ noted' \in 0..MaxTime \cup {NoTime} /\ black' \subseteq PlainNames
        /\ stage' \in {"sync", "signals", "read"} /\ (stage' = "signals" => starting)
        /\ (starting => stage' # "sync")
        BY <1>3, <2>2 DEF Stat, AfterBlacklist, DaemonTypeOK
  <2>4. UNCHANGED <<starting, hup, manual, pool, launched, dirty, saved, reloaded, fresh, touched>>
        BY <1>3 DEF Stat
  <2>5. DaemonTypeOK' /\ Phases'
        BY <2>3, <2>4 DEF DaemonTypeOK, Phases, Known
  <2> QED
      BY <2>1, <2>5
<1>4. CASE Read
  <2>1. FamiliesTypeOK'
        BY <1>4 DEF Read, familyVars, FamiliesTypeOK
  <2>2. black' \subseteq PlainNames
        BY <1>4 DEF Read, BlackListed
  <2>3. DaemonTypeOK' /\ Phases'
        BY <1>4, <2>2 DEF Read, AfterBlacklist, DaemonTypeOK, Phases, Known
  <2> QED
      BY <2>1, <2>3
<1>5. CASE Handle
  <2>1. FamiliesTypeOK'
        BY <1>5 DEF Handle, familyVars, FamiliesTypeOK
  <2>2. DaemonTypeOK' /\ Phases'
        BY <1>5 DEF Handle, memory, DaemonTypeOK, Phases, Known
  <2> QED
      BY <2>1, <2>2
<1> QED
    BY <1>1, <1>2, <1>3, <1>4, <1>5, SyncTyped, LoadTyped DEF Works

LEMMA HappensTyped ==
  ASSUME Typed, Happens
  PROVE  FamiliesTypeOK' /\ DaemonTypeOK' /\ Phases'
<1> USE DEF Typed
<1>1. ASSUME NEW seen \in SUBSET Runnable, Scan(seen)
      PROVE  FamiliesTypeOK' /\ DaemonTypeOK' /\ Phases'
      BY <1>1 DEF Scan, familyVars, FamiliesTypeOK, DaemonTypeOK, Phases, Known
<1>2. ASSUME NEW e \in Runnable, Discover(e)
      PROVE  FamiliesTypeOK' /\ DaemonTypeOK' /\ Phases'
  <2>1. PICK class \in Classes :
          pool' = [k \in Known \cup {e} |-> IF k = e THEN class ELSE pool[k]]
        BY <1>2 DEF Discover
  <2>2. pool \in [Known -> Classes] /\ Known \cup {e} \in SUBSET Paths
        BY PoolTableIs, ReloadAssumption DEF DaemonTypeOK, Known
  <2>3. pool' \in [Known \cup {e} -> Classes]
        BY <2>1, <2>2
  <2>4. pool' \in PoolTables /\ Known' = Known \cup {e}
    <3>1. pool' \in PoolTables /\ DOMAIN pool' = Known \cup {e}
          BY <2>2, <2>3, IsPoolTable
    <3> QED
        BY <3>1 DEF Known
  <2>5. /\ stage = "idle" /\ fresh' = fresh \cup {e} /\ touched' = touched \cup {e}
        /\ UNCHANGED <<listVars, familyVars, stage, starting, hup, manual, black, noted,
                       launched, dirty, saved, reloaded>>
        BY <1>2 DEF Discover
  <2>6. FamiliesTypeOK'
        BY <2>5 DEF familyVars, FamiliesTypeOK
  <2>7. DaemonTypeOK'
        BY <2>4, <2>5 DEF DaemonTypeOK
  <2>8. Phases'
        BY <2>5 DEF Phases
  <2> QED
      BY <2>6, <2>7, <2>8
<1>3. CASE Autosave
  <2>1. PICK gone \in SUBSET Known :
          /\ pool' = [e \in Known \ gone |-> pool[e]]
          /\ launched' = launched \ gone
          /\ SaveIf(dirty, [e \in Known \ gone |-> pool[e]], launched')
          /\ fresh' = fresh \ gone /\ touched' = touched \ gone
        BY <1>3 DEF Autosave
  <2> DEFINE classes == [e \in Known \ gone |-> pool[e]]
  <2>2. pool \in [Known -> Classes] /\ Known \ gone \in SUBSET Paths
        BY PoolTableIs DEF DaemonTypeOK, Known
  <2>3. classes \in PoolTables /\ DOMAIN classes = Known \ gone
    <3>1. classes \in [Known \ gone -> Classes]
          BY <2>2
    <3> QED
        BY <2>2, <3>1, IsPoolTable
  <2>4. launched' \subseteq DOMAIN classes
        BY <2>1, <2>3 DEF DaemonTypeOK
  <2>5. pool' = classes
        BY <2>1
  <2> HIDE DEF classes
  <2>6. saved' \in StateFiles
        BY <2>1, <2>3, <2>4, SaveTyped DEF classes
  <2>7. /\ stage = "idle" /\ dirty' = FALSE
        /\ UNCHANGED <<listVars, familyVars, stage, starting, hup, manual, black, noted, reloaded>>
        BY <1>3 DEF Autosave
  <2>8. FamiliesTypeOK'
        BY <2>7 DEF familyVars, FamiliesTypeOK
  <2>9. DaemonTypeOK'
        BY <2>1, <2>3, <2>4, <2>5, <2>6, <2>7 DEF DaemonTypeOK, Known
  <2>10. Phases'
         BY <2>7 DEF Phases
  <2> QED
      BY <2>8, <2>9, <2>10
<1>4. CASE Dump
  <2>1. FamiliesTypeOK'
        BY <1>4 DEF Dump, FreeNames, Counted, FamiliesTypeOK
  <2>2. DaemonTypeOK' /\ Phases'
        BY <1>4 DEF Dump, daemonVars, memory, DaemonTypeOK, Phases, Known
  <2> QED
      BY <2>1, <2>2
<1>5. CASE Abort \/ Kill
      BY <1>5, ForgottenTyped DEF Abort, Kill, DaemonTypeOK
<1>6. CASE Stop
  <2>1. saved' \in StateFiles
        BY <1>6, SaveTyped DEF Stop, DaemonTypeOK, Known
  <2> QED
      BY <1>6, <2>1, ForgottenTyped DEF Stop
<1> QED
    BY <1>1, <1>2, <1>3, <1>4, <1>5, <1>6 DEF Happens

LEMMA SignalTyped ==
  ASSUME Typed, NEW p \in Ctls, Signal(p)
  PROVE  FamiliesTypeOK' /\ DaemonTypeOK' /\ Phases'
<1>1. CASE starting
      BY <1>1, ForgottenTyped DEF Signal, Typed, DaemonTypeOK
<1>2. CASE ~starting
  <2>1. /\ hup' = (stage # "down")
        /\ UNCHANGED <<familyVars, stage, starting, memory, saved>>
        BY <1>2 DEF Signal
  <2>2. FamiliesTypeOK'
        BY <2>1 DEF familyVars, FamiliesTypeOK, Typed
  <2>3. DaemonTypeOK'
    <3>1. hup' \in BOOLEAN
          BY <2>1, Zenon
    <3> QED
        BY <2>1, <3>1 DEF memory, DaemonTypeOK, Typed, Known
  <2>4. Phases'
        BY <2>1 DEF memory, Phases, Typed
  <2> QED
      BY <2>2, <2>3, <2>4
<1> QED
    BY <1>1, <1>2

LEMMA TypedStep == Typed /\ [Next]_vars => Typed'
<1> SUFFICES ASSUME Typed, [Next]_vars PROVE Typed'
    OBVIOUS
<1>1. ASSUME UNCHANGED listVars PROVE ListsTyped'
      BY <1>1 DEF listVars, Typed, ListsTyped, ListsTypeOK
<1>2. CASE ListsNext /\ UNCHANGED <<familyVars, daemonVars, events>>
  <2>1. ListsTyped'
        BY <1>2, ListsTypedStep DEF Typed
  <2> QED
      BY <1>2, <2>1
         DEF Typed, familyVars, daemonVars, memory, FamiliesTypeOK, DaemonTypeOK, Phases, Known
<1>3. ASSUME NEW p \in Ctls, Signal(p) PROVE Typed'
  <2>1. ListsTyped'
        BY <1>3, ListsTypedStep DEF Typed, Signal
  <2> QED
      BY <1>3, <2>1, SignalTyped DEF Typed
<1>4. CASE Works
  <2>1. UNCHANGED listVars
        BY <1>4 DEF Works, Start, ReloadConfig, Stat, Read, Handle, Sync, Load
  <2> QED
      BY <1>1, <1>4, <2>1, WorksTyped DEF Typed
<1>5. CASE Happens
  <2>1. UNCHANGED listVars
        BY <1>5 DEF Happens, Scan, Discover, Autosave, Dump, Abort, Stop, Kill
  <2> QED
      BY <1>1, <1>5, <2>1, HappensTyped DEF Typed
<1>6. CASE UNCHANGED vars
      BY <1>1, <1>6
         DEF vars, Typed, familyVars, daemonVars, memory, FamiliesTypeOK, DaemonTypeOK, Phases, Known
<1> QED
    BY <1>2, <1>3, <1>4, <1>5, <1>6 DEF Next

-----------------------------------------------------------------------------
(* What is in force.  Between two readings the copies may be older than the
   files only if a signal is due: one is noted, a command is on its way to send
   one, or the command that should have sent it was killed.                   *)

Pending == abandoned \/ \E p \in Ctls : ctl[p].step \notin {"idle", "append"}

Current ==
  /\ conf.valid => manual = ManualListed
  /\ stage \notin {"stat", "read"} =>
       \/ black = BlackListed
       \/ link["blacklist"] # NoInode /\ disk[link["blacklist"]].time = noted
  /\ conf.valid /\ reloaded =>
       \A id \in DOMAIN Configured(conf.families) :
         id \in DOMAIN families /\ families[id] = conf.families[id]

InForce == stage # "down" => hup \/ Pending \/ Current

SameFiles ==
  /\ conf' = conf /\ link' = link
  /\ \A f \in ListNames : link[f] # NoInode => disk'[link[f]] = disk[link[f]]

LEMMA InForceImplies == Typed /\ InForce => FilesInForce
<1> SUFFICES ASSUME Typed, InForce PROVE FilesInForce
    OBVIOUS
<1>1. TypeOK
      BY TypedImplies
<1>2. Served => Current /\ stage = "idle"
      BY DEF Served, InForce, Pending
<1> QED
    BY <1>1, <1>2 DEF FilesInForce, Current

LEMMA ReclaimedKeeps ==
  ASSUME ListsTypeOK, Reclaimed, NEW f \in ListNames, link'[f] # NoInode,
         link' \in [ListNames -> Inodes \cup {NoInode}]
  PROVE  disk'[link'[f]] = disk[link'[f]]
<1>1. link'[f] \in Inodes /\ link'[f] \in Used'
      BY DEF Used
<1> QED
    BY <1>1 DEF Reclaimed

\* An edit that no signal follows is none.
LEMMA EditsArePending ==
  ASSUME ListsTyped, ListsNext, ~Pending'
  PROVE  ~Pending /\ SameFiles
<1> USE DEF ListsTyped
<1>1. ctl \in [Ctls -> CtlRecords]
      BY DEF ListsTypeOK
<1>2. ASSUME NEW p \in Ctls, ctl[p].step \in {"idle", "append"}, abandoned' = abandoned,
             \A q \in Ctls \ {p} : ctl'[q].step = ctl[q].step
      PROVE  ~Pending
      BY <1>2 DEF Pending
<1>3. ASSUME UNCHANGED <<disk, link, conf>> PROVE SameFiles
      BY <1>3 DEF SameFiles
<1>4. ASSUME NEW p \in Ctls, ctl'[p].step \notin {"idle", "append"} PROVE FALSE
      BY <1>4 DEF Pending
<1>5. ASSUME NEW p \in Ctls, NEW c \in Commands, Add(p, c) \/ Reset(p, c) \/ Configure(p, c)
      PROVE  ~Pending /\ SameFiles
  <2>1. ctl[p].step = "idle" /\ UNCHANGED <<disk, link, abandoned>>
        BY <1>5 DEF Add, Reset, Configure, Begin
  <2>2. PICK step, what, file : ctl' = [ctl EXCEPT ![p] = Command(c.op, step, what, file)]
                                /\ (step = "append" => Add(p, c))
        BY <1>5 DEF Add, Reset, Configure
  <2>3. ctl'[p].step = step
        BY <1>1, <2>2 DEF Command
  <2>4. Add(p, c)
    <3>1. CASE Reset(p, c)
      <4>1. ctl'[p].step = "open"
            BY <1>1, <3>1 DEF Reset, Command
      <4> QED
          BY <1>4, <4>1
    <3>2. CASE Configure(p, c)
      <4>1. ctl'[p].step = "signal"
            BY <1>1, <3>2 DEF Configure, Command
      <4> QED
          BY <1>4, <4>1
    <3> QED
        BY <1>5, <3>1, <3>2
  <2>5. UNCHANGED conf /\ \A q \in Ctls \ {p} : ctl'[q].step = ctl[q].step
        BY <1>1, <2>2, <2>4 DEF Add
  <2> QED
      BY <1>2, <1>3, <2>1, <2>5
<1>6. ASSUME NEW p \in Ctls, AppendEntry(p) \/ CloseTemp(p)
      PROVE  FALSE
  <2>1. ctl'[p].step \in {"signal", "rename"}
        BY <1>1, <1>6 DEF AppendEntry, CloseTemp, Step, CtlRecords
  <2> QED
      BY <1>4, <2>1
<1>7. ASSUME NEW p \in Ctls, NoList(p) \/ Replace(p)
      PROVE  FALSE
  <2>1. ctl'[p] = AfterList(p)
        BY <1>1, <1>7 DEF NoList, Replace
  <2> QED
      BY <1>4, <2>1, AfterListTyped
<1>8. ASSUME NEW p \in Ctls, OpenTemp(p)
      PROVE  FALSE
  <2>1. ctl'[p].step = "write"
        BY <1>1, <1>8 DEF OpenTemp, CtlRecords
  <2> QED
      BY <1>4, <2>1
<1>9. ASSUME NEW p \in Ctls, AppendFails(p)
      PROVE  ~Pending /\ SameFiles
      BY <1>1, <1>2, <1>3, <1>9 DEF AppendFails
<1>10. ASSUME NEW p \in Ctls, KillCtl(p)
       PROVE  ~Pending /\ SameFiles
  <2>1. /\ ctl[p].step # "idle" /\ ctl' = [ctl EXCEPT ![p] = Idle]
        /\ abandoned' = (abandoned \/ ctl[p].step # "append")
        /\ UNCHANGED <<link, conf>> /\ Reclaimed
        BY <1>10 DEF KillCtl
  <2>2. ctl[p].step = "append" /\ ~abandoned
        BY <2>1 DEF Pending
  <2>3. ~Pending
        BY <1>1, <2>1, <2>2 DEF Pending
  <2>4. \A f \in ListNames : link[f] # NoInode => disk'[link[f]] = disk[link[f]]
        BY <2>1, ReclaimedKeeps DEF ListsTypeOK
  <2> QED
      BY <2>1, <2>3, <2>4 DEF SameFiles
<1>11. CASE Elapse
       BY <1>3, <1>11 DEF Elapse, Pending
<1> QED
    BY <1>5, <1>6, <1>7, <1>8, <1>9, <1>10, <1>11 DEF ListsNext

LEMMA SameListed ==
  ASSUME SameFiles
  PROVE  ManualListed' = ManualListed /\ BlackListed' = BlackListed
<1>1. \A f \in ListNames : LinesOf(f)' = LinesOf(f)
      BY DEF SameFiles, LinesOf
<1>2. EntriesOf("apps.list")' = EntriesOf("apps.list") /\ EntriesOf("blacklist")' = EntriesOf("blacklist")
      BY <1>1 DEF EntriesOf, ListNames
<1> QED
    BY <1>2 DEF ManualListed, BlackListed, SameFiles

LEMMA InForceStep == Typed /\ InForce /\ [Next]_vars => InForce'
<1> SUFFICES ASSUME Typed, InForce, [Next]_vars, stage' # "down", ~hup', ~Pending'
             PROVE  Current'
    BY DEF InForce
\* While the files stay and the copies too, what was in force is.
<1>1. ASSUME ~Pending, SameFiles, ~hup, stage # "down",
             UNCHANGED <<manual, black, noted, reloaded, families>>,
             stage \in {"stat", "read"} => stage' \in {"stat", "read"}
      PROVE  Current'
  <2>1. Current
        BY <1>1 DEF InForce
  <2>2. ManualListed' = ManualListed /\ BlackListed' = BlackListed
        BY <1>1, SameListed
  <2>3. link["blacklist"] # NoInode => disk'[link["blacklist"]] = disk[link["blacklist"]]
        BY <1>1 DEF SameFiles, ListNames
  <2> QED
      BY <1>1, <2>1, <2>2, <2>3 DEF Current, SameFiles
<1>2. ASSUME UNCHANGED listVars
      PROVE  SameFiles /\ ~Pending /\ ManualListed' = ManualListed /\ BlackListed' = BlackListed
  <2>1. SameFiles /\ ~Pending
        BY <1>2 DEF listVars, SameFiles, Pending
  <2> QED
      BY <2>1, SameListed
<1>3. CASE ListsNext /\ UNCHANGED <<familyVars, daemonVars, events>>
  <2>1. ~Pending /\ SameFiles
        BY <1>3, EditsArePending DEF Typed
  <2> QED
      BY <1>1, <1>3, <2>1 DEF familyVars, daemonVars, memory
<1>4. ASSUME NEW p \in Ctls, Signal(p) PROVE FALSE
      BY <1>4 DEF Signal, Forgotten
<1>5. CASE Works
  <2>1. CASE Start
    <3>1. UNCHANGED listVars
          BY <2>1 DEF Start
    <3>2. manual' = ManualListed' /\ stage' = "stat" /\ ~reloaded'
          BY <1>2, <2>1, <3>1 DEF Start, Typed, Phases
    <3> QED
        BY <3>2 DEF Current
  <2>2. CASE ReloadConfig
    <3>1. UNCHANGED listVars /\ stage' = "stat"
          BY <2>2 DEF ReloadConfig
    <3>2. ASSUME conf.valid
          PROVE  /\ manual' = ManualListed'
                 /\ \A id \in DOMAIN Configured(conf.families) :
                      id \in DOMAIN families' /\ families'[id] = conf.families[id]
      <4>1. manual' = ManualListed' /\ families' = Overlaid(families, Configured(conf.families))
            BY <1>2, <2>2, <3>1, <3>2 DEF ReloadConfig, LoadFamilies
      <4>2. \A id \in DOMAIN Configured(conf.families) :
              Configured(conf.families)[id] = conf.families[id]
            BY DEF Configured
      <4> QED
          BY <4>1, <4>2 DEF Overlaid
    <3>3. conf' = conf
          BY <3>1 DEF listVars
    <3> QED
        BY <3>1, <3>2, <3>3 DEF Current
  <2>3. CASE Stat
    <3>1. UNCHANGED <<listVars, familyVars, hup, manual, reloaded>> /\ stage = "stat"
          BY <2>3 DEF Stat
    <3>2. Current
          BY <1>2, <3>1 DEF InForce
    <3>3. stage' # "read" =>
            \/ black' = BlackListed
            \/ link["blacklist"] # NoInode /\ disk[link["blacklist"]].time = noted'
      <4>1. CASE link["blacklist"] = NoInode
        <5>1. EntriesOf("blacklist") = {}
              BY <4>1 DEF EntriesOf, LinesOf, ToSet
        <5> QED
            BY <2>3, <4>1, <5>1 DEF Stat, BlackListed
      <4>2. CASE link["blacklist"] # NoInode
            BY <2>3, <4>2 DEF Stat
      <4> QED
          BY <4>1, <4>2
    <3> QED
        BY <1>2, <3>1, <3>2, <3>3 DEF Current, listVars, familyVars
  <2>4. CASE Read
    <3>1. UNCHANGED <<listVars, familyVars, hup, manual, reloaded>> /\ stage = "read"
          /\ black' = BlackListed
          BY <2>4 DEF Read
    <3>2. Current
          BY <1>2, <3>1 DEF InForce
    <3> QED
        BY <1>2, <3>1, <3>2 DEF Current, listVars, familyVars
  <2>5. CASE Handle
        BY <1>1, <1>2, <2>5 DEF Handle, memory, familyVars
  <2>6. CASE Sync
        BY <1>1, <1>2, <2>6 DEF Sync, familyVars
  <2>7. CASE Load
    <3>1. /\ stage = "load" /\ ~reloaded /\ stage' = "idle"
          /\ UNCHANGED <<listVars, hup, manual, black, noted, reloaded>>
          BY <2>7 DEF Load, Typed, Phases
    <3>2. Current
          BY <1>2, <3>1 DEF InForce
    <3> QED
        BY <1>2, <3>1, <3>2 DEF Current, listVars
  <2> QED
      BY <1>5, <2>1, <2>2, <2>3, <2>4, <2>5, <2>6, <2>7 DEF Works
<1>6. CASE Happens
  <2>1. CASE Abort \/ Stop \/ Kill
        BY <2>1 DEF Abort, Stop, Kill, Forgotten
  <2>2. ASSUME NEW seen \in SUBSET Runnable, Scan(seen)
        PROVE  Current'
        BY <1>1, <1>2, <2>2 DEF Scan, familyVars
  <2>3. ASSUME NEW e \in Runnable, Discover(e)
        PROVE  Current'
        BY <1>1, <1>2, <2>3 DEF Discover, familyVars
  <2>4. CASE Autosave
        BY <1>1, <1>2, <2>4 DEF Autosave, familyVars
  <2>5. CASE Dump
        BY <1>1, <1>2, <2>5 DEF Dump, FreeNames, daemonVars, memory
  <2> QED
      BY <1>6, <2>1, <2>2, <2>3, <2>4, <2>5 DEF Happens
<1>7. CASE UNCHANGED vars
      BY <1>1, <1>2, <1>7 DEF vars, familyVars, daemonVars, memory
<1> QED
    BY <1>3, <1>4, <1>5, <1>6, <1>7 DEF Next

\* However commands, reloads and starts interleave, and wherever a command or the
\* daemon is killed: once every signal is served, the daemon has what the files say.
THEOREM CopiesFollow == Spec => []FilesInForce
<1>1. Init => Typed /\ InForce
      BY TypedInit DEF Init, InForce
<1>2. Typed /\ InForce /\ [Next]_vars => (Typed /\ InForce)'
      BY TypedStep, InForceStep
<1> QED
    BY <1>1, <1>2, InForceImplies, PTL DEF Spec

-----------------------------------------------------------------------------
(* The rows of the summary.                                                *)

\* Every family the daemon has, or has saved, is one of some preheat.conf.
OfConfs == FromConfs(families) /\ FromConfs(saved.families)

LEMMA RowsOnce ==
  Typed /\ OfConfs => SummaryCountsOnce
<1> SUFFICES ASSUME Typed, OfConfs, NEW e \in launched
             PROVE  LET rows == {row \in Rows(launched, Priority) : e \in row.exes}
                    IN  /\ e \in Priority => rows # {}
                        /\ Cardinality(rows) > 1 =>
                             Cardinality(FamiliesNaming(e)) > 1 \/ Junk \in DOMAIN families
    BY DEF SummaryCountsOnce
<1> DEFINE rows == {row \in Rows(launched, Priority) : e \in row.exes}
           Row(id) == [name |-> id, exes |-> families[id] \cap launched]
           Mine == [name |-> e, exes |-> {e}]
           ids == {id \in Counted(launched) : e \in families[id]}
<1>1. \A row \in rows : (row = Mine /\ ids = {}) \/ \E id \in ids : row = Row(id)
  <2> SUFFICES ASSUME NEW row \in rows
               PROVE  (row = Mine /\ ids = {}) \/ \E id \in ids : row = Row(id)
      OBVIOUS
  <2> e \in row.exes /\ row \in Rows(launched, Priority)
      OBVIOUS
  <2>1. CASE \E id \in Counted(launched) : row = Row(id)
    <3>1. PICK id \in Counted(launched) : row = Row(id)
          BY <2>1
    <3>2. row.exes = families[id] \cap launched
          BY <3>1
    <3>3. id \in ids
          BY <3>2
    <3> HIDE DEF ids, rows
    <3> QED
        BY <3>1, <3>3
  <2>2. CASE \E x \in (launched \cap Priority) \ Processed(launched) :
               row = [name |-> x, exes |-> {x}]
    <3>1. PICK x \in (launched \cap Priority) \ Processed(launched) :
            row = [name |-> x, exes |-> {x}]
          BY <2>2
    <3>2. row.exes = {x}
          BY <3>1
    <3>3. x = e
          BY <3>2
    <3>4. ids = {}
          BY <3>1, <3>3 DEF Processed
    <3> HIDE DEF rows
    <3> QED
        BY <3>1, <3>3, <3>4
  <2> QED
      BY <2>1, <2>2 DEF Rows
<1>2. e \in Priority => rows # {}
  <2> SUFFICES ASSUME e \in Priority PROVE \E row \in Rows(launched, Priority) : e \in row.exes
      OBVIOUS
  <2>1. CASE e \in Processed(launched)
    <3>1. PICK id \in Counted(launched) : e \in families[id]
          BY <2>1 DEF Processed
    <3>2. Row(id) \in Rows(launched, Priority) /\ e \in Row(id).exes
          BY <3>1 DEF Rows
    <3> QED
        BY <3>2
  <2>2. CASE e \notin Processed(launched)
    <3>1. Mine \in Rows(launched, Priority) /\ e \in Mine.exes
          BY <2>2 DEF Rows
    <3> QED
        BY <3>1
  <2> QED
      BY <2>1, <2>2
<1>3. ASSUME Cardinality(rows) > 1 PROVE \E id1, id2 \in ids : id1 # id2
  <2> SUFFICES ASSUME \A id1, id2 \in ids : id1 = id2 PROVE FALSE
      OBVIOUS
  <2>1. \A row1, row2 \in rows : row1 = row2
        BY <1>1
  <2>2. CASE rows = {}
    <3>1. Cardinality(rows) = 0
          BY <2>2, FS_EmptySet
    <3> QED
        BY <1>3, <3>1
  <2>3. CASE rows # {}
    <3> HIDE DEF rows
    <3>1. PICK row \in rows : TRUE
          BY <2>3
    <3>2. rows = {row}
          BY <2>1, <3>1
    <3>3. Cardinality(rows) = 1
          BY <3>2, FS_Singleton
    <3> QED
        BY <1>3, <3>3
  <2> QED
      BY <2>2, <2>3
<1>4. ASSUME Cardinality(rows) > 1, Junk \notin DOMAIN families
      PROVE  Cardinality(FamiliesNaming(e)) > 1
  <2>1. PICK id1, id2 \in ids : id1 # id2
        BY <1>3, <1>4
  <2>2. ids \subseteq FamiliesNaming(e)
    <3> SUFFICES ASSUME NEW id \in ids PROVE id \in FamiliesNaming(e)
        OBVIOUS
    <3>1. id \in DOMAIN families \ {Junk} /\ e \in families[id]
          BY <1>4 DEF Counted
    <3>2. id \in FamilyIds
          BY <3>1, FamilyTableIs DEF Typed, FamiliesTypeOK
    <3> QED
        BY <3>1, <3>2 DEF OfConfs, FromConfs, FamiliesNaming
  <2> HIDE DEF ids
  <2>3. IsFiniteSet(FamiliesNaming(e))
    <3>1. FamiliesNaming(e) \subseteq FamilyIds
          BY DEF FamiliesNaming
    <3> QED
        BY <3>1, FS_Subset, FamiliesAssumption
  <2>4. Cardinality(FamiliesNaming(e)) \in Nat
        BY <2>3, FS_CardinalityType
  <2>5. Cardinality(FamiliesNaming(e)) # 0 /\ Cardinality(FamiliesNaming(e)) # 1
        BY <2>1, <2>2, <2>3, FS_EmptySet, FS_Singleton
  <2> QED
      BY <2>4, <2>5
<1> HIDE DEF rows
<1> QED
    BY <1>2, <1>4 DEF rows

LEMMA SavedOfConfs ==
  ASSUME Typed, OfConfs, NEW isDirty, NEW classes, NEW launches,
         SaveIf(isDirty, classes, launches)
  PROVE  FromConfs(saved'.families)
<1>1. CASE ~isDirty
      BY <1>1 DEF SaveIf, OfConfs
<1>2. CASE isDirty
  <2>1. PICK table \in FamiliesWritten :
          saved' = [pool |-> classes, launched |-> launches, families |-> table]
        BY <1>2 DEF SaveIf
  <2>2. \A id \in DOMAIN table \ {Junk} : id \in DOMAIN families /\ table[id] = families[id]
        BY WrittenTable DEF Typed
  <2>3. FromConfs(table)
        BY <2>2 DEF OfConfs, FromConfs
  <2> QED
      BY <2>1, <2>3
<1> QED
    BY <1>1, <1>2

LEMMA OfConfsStep == Typed /\ OfConfs /\ [Next]_vars => OfConfs'
<1> SUFFICES ASSUME Typed, OfConfs, [Next]_vars PROVE OfConfs'
    OBVIOUS
<1> USE DEF OfConfs
<1>1. ASSUME UNCHANGED <<families, saved>> PROVE OfConfs'
      BY <1>1
<1>2. ASSUME Forgotten, FromConfs(saved'.families) PROVE OfConfs'
  <2>1. DOMAIN families' = {}
        BY <1>2, EmptyTables DEF Forgotten
  <2> QED
      BY <1>2, <2>1 DEF FromConfs
<1>3. CASE Works
  <2>1. CASE ReloadConfig
    <3>1. CASE UNCHANGED familyVars
          BY <2>1, <3>1, <1>1 DEF ReloadConfig, familyVars
    <3>2. CASE LoadFamilies(conf.families)
      <4>1. conf \in Confs
            BY DEF Typed, ListsTyped, ListsTypeOK
      <4>2. FromConfs(Overlaid(families, Configured(conf.families)))
            BY <4>1 DEF Overlaid, Configured, FromConfs
      <4> QED
          BY <2>1, <3>2, <4>2 DEF LoadFamilies, ReloadConfig
    <3> QED
        BY <2>1, <3>1, <3>2 DEF ReloadConfig
  <2>2. CASE Sync
        BY <2>2, SavedOfConfs DEF Sync, familyVars
  <2>3. CASE Load
    <3>1. families' = saved.families /\ saved'.families = saved.families
      <4>1. saved \in StateFiles
            BY DEF Typed, DaemonTypeOK
      <4> QED
          BY <2>3, <4>1 DEF Load, ReadFamilies, StateFiles
    <3> QED
        BY <3>1
  <2>4. CASE Start \/ Stat \/ Read \/ Handle
        BY <1>1, <2>4 DEF Start, Stat, Read, Handle, familyVars, memory
  <2> QED
      BY <1>3, <2>1, <2>2, <2>3, <2>4 DEF Works
<1>4. CASE Happens
  <2>1. ASSUME NEW seen \in SUBSET Runnable, Scan(seen) PROVE OfConfs'
        BY <1>1, <2>1 DEF Scan, familyVars
  <2>2. ASSUME NEW e \in Runnable, Discover(e) PROVE OfConfs'
        BY <1>1, <2>2 DEF Discover, familyVars
  <2>3. CASE Autosave
        BY <2>3, SavedOfConfs DEF Autosave, familyVars
  <2>4. CASE Dump
        BY <1>1, <2>4 DEF Dump, FreeNames, daemonVars
  <2>5. CASE Abort \/ Kill
        BY <1>2, <2>5 DEF Abort, Kill
  <2>6. CASE Stop
        BY <1>2, <2>6, SavedOfConfs DEF Stop
  <2> QED
      BY <1>4, <2>1, <2>2, <2>3, <2>4, <2>5, <2>6 DEF Happens
<1>5. ASSUME NEW p \in Ctls, Signal(p) PROVE OfConfs'
      BY <1>1, <1>2, <1>5 DEF Signal, familyVars
<1>6. CASE UNCHANGED <<familyVars, daemonVars>>
      BY <1>1, <1>6 DEF familyVars, daemonVars
<1> QED
    BY <1>3, <1>4, <1>5, <1>6 DEF Next, vars

\* Whatever edits, reloads, restarts and earlier summaries have made of the
\* families, the summary leaves out no launched executable of the priority pool and
\* counts none twice, apart from the two causes that SummaryCountsOnce names.
THEOREM CountedOnce == Spec => []SummaryCountsOnce
<1>1. Init => OfConfs
  <2> SUFFICES ASSUME Init PROVE OfConfs
      OBVIOUS
  <2>1. DOMAIN families = {}
        BY EmptyTables DEF Init, FamiliesInit
  <2> QED
      BY <2>1, ReloadAssumption DEF Init, OfConfs, FromConfs
<1>2. Init => Typed /\ OfConfs
      BY <1>1, TypedInit
<1>3. Typed /\ OfConfs /\ [Next]_vars => (Typed /\ OfConfs)'
      BY TypedStep, OfConfsStep
<1> QED
    BY <1>2, <1>3, RowsOnce, PTL DEF Spec

-----------------------------------------------------------------------------
(* What edits may do to each other.  A file is a list's own, and a reset that
   nobody disturbed has its temporary file for itself: it holds what the reset
   has written so far.                                                        *)

Holds(r) == disk[r.out].lines = IF r.step = "write" THEN <<>> ELSE Without(r.copy, r.what)

OwnFiles ==
  /\ \A f \in ListNames : temp[f] # NoInode =>
       \A g \in ListNames : link[g] # temp[f] /\ (g # f => temp[g] # temp[f])
  /\ \A f, g \in ListNames : f # g /\ link[f] # NoInode => link[g] # link[f]
  /\ \A p \in Ctls : ctl[p].out # NoInode =>
       \A g \in ListNames \ {ctl[p].file} : link[g] # ctl[p].out /\ temp[g] # ctl[p].out

Undisturbed ==
  \A p \in Ctls : ctl[p].out # NoInode /\ ~ctl[p].shared =>
    /\ temp[ctl[p].file] = ctl[p].out
    /\ \A q \in Ctls \ {p} : ctl[q].out # ctl[p].out
    /\ Holds(ctl[p])

LEMMA OwnFilesInit == ListsInit => OwnFiles /\ Undisturbed
<1> SUFFICES ASSUME ListsInit PROVE OwnFiles /\ Undisturbed
    OBVIOUS
<1>1. \A p \in Ctls : ctl[p].out = NoInode
      BY DEF ListsInit, Idle, Command
<1>2. \A f \in ListNames : temp[f] = NoInode
      BY DEF ListsInit
<1>3. \A f, g \in ListNames : f # g /\ link[f] # NoInode => link[g] # link[f]
  <2>1. PICK first \in FirstLists :
          link = [f \in ListNames |-> IF first[f] = <<>> THEN NoInode ELSE FirstInode[f]]
        BY DEF ListsInit
  <2>2. \A f, g \in ListNames : f # g => FirstInode[f] # FirstInode[g]
        BY FirstInodes DEF ListNames
  <2>3. \A f \in ListNames : link[f] \in {NoInode, FirstInode[f]}
        BY <2>1
  <2>4. \A f \in ListNames : FirstInode[f] # NoInode
        BY FirstInodes, ListsAssumption
  <2> QED
      BY <2>2, <2>3, <2>4
<1> QED
    BY <1>1, <1>2, <1>3 DEF OwnFiles, Undisturbed

\* A step that leaves the names alone, and a command without a temporary file.
LEMMA QuietStep ==
  ASSUME ListsTyped, OwnFiles, Undisturbed, NEW p \in Ctls, NEW r, r.out = NoInode,
         ctl' = [ctl EXCEPT ![p] = r], UNCHANGED <<link, temp>>,
         disk' = disk \/ Reclaimed
  PROVE  /\ OwnFiles' /\ Undisturbed'
         /\ \A f \in ListNames : LinesOf(f)' = LinesOf(f)
<1>1. /\ ctl \in [Ctls -> CtlRecords]
      /\ link \in [ListNames -> Inodes \cup {NoInode}]
      BY DEF ListsTyped, ListsTypeOK
<1>2. \A q \in Ctls : ctl'[q].out # NoInode => q # p /\ ctl'[q] = ctl[q]
      BY <1>1
<1>3. \A i \in Inodes : i \in Used' => disk'[i] = disk[i]
      BY DEF Reclaimed
<1>4. OwnFiles'
      BY <1>2 DEF OwnFiles
<1>5. \A q \in Ctls : ctl'[q].out # NoInode => Holds(ctl[q])' = Holds(ctl[q])
  <2> SUFFICES ASSUME NEW q \in Ctls, ctl'[q].out # NoInode
               PROVE  Holds(ctl[q])' = Holds(ctl[q])
      OBVIOUS
  <2>1. ctl'[q] = ctl[q] /\ ctl[q].out \in Inodes /\ ctl'[q].out \in Used'
        BY <1>1, <1>2 DEF Used, CtlRecords
  <2>2. disk'[ctl[q].out] = disk[ctl[q].out]
        BY <1>3, <2>1
  <2> QED
      BY <2>1, <2>2 DEF Holds
<1>6. Undisturbed'
  <2> SUFFICES ASSUME NEW q \in Ctls, ctl'[q].out # NoInode, ~ctl'[q].shared
               PROVE  /\ temp'[ctl'[q].file] = ctl'[q].out
                      /\ \A other \in Ctls \ {q} : ctl'[other].out # ctl'[q].out
                      /\ Holds(ctl[q])'
      BY DEF Undisturbed
  <2>1. /\ temp[ctl[q].file] = ctl[q].out /\ Holds(ctl[q])
        /\ \A other \in Ctls \ {q} : ctl[other].out # ctl[q].out
        BY <1>2 DEF Undisturbed
  <2>2. \A other \in Ctls \ {q} : ctl'[other].out # ctl'[q].out
        BY <1>2, <2>1
  <2> QED
      BY <1>2, <1>5, <2>1, <2>2
<1>7. \A f \in ListNames : LinesOf(f)' = LinesOf(f)
  <2> SUFFICES ASSUME NEW f \in ListNames, link[f] # NoInode
               PROVE  disk'[link[f]] = disk[link[f]]
      BY DEF LinesOf
  <2>1. link[f] \in Inodes /\ link[f] \in Used'
        BY <1>1 DEF Used
  <2> QED
      BY <1>3, <2>1
<1> QED
    BY <1>4, <1>6, <1>7

LEMMA AppendOwn ==
  ASSUME ListsTyped, OwnFiles, Undisturbed, NEW p \in Ctls, AppendEntry(p)
  PROVE  /\ OwnFiles' /\ Undisturbed'
         /\ \A f \in ListNames : EntriesOf(f) \subseteq EntriesOf(f)'
<1> DEFINE f == ctl[p].file
           i == IF link[f] = NoInode THEN Fresh ELSE link[f]
<1>1. /\ ctl \in [Ctls -> CtlRecords] /\ disk \in [Inodes -> [lines : Seq(Names), time : 0..MaxTime]]
      /\ link \in [ListNames -> Inodes \cup {NoInode}]
      /\ temp \in [ListNames -> Inodes \cup {NoInode}]
      BY DEF ListsTyped, ListsTypeOK
<1>2. f \in ListNames /\ ctl[p].step = "append" /\ ctl[p].out = NoInode /\ ctl[p].what \in Names
      BY <1>1 DEF AppendEntry, Step, ListsTyped, RightStep, CtlRecords
<1>3. /\ ctl' = [ctl EXCEPT ![p].step = "signal"]
      /\ disk' = [disk EXCEPT ![i] = [lines |-> Append(LinesOf(f), ctl[p].what), time |-> now]]
      /\ link' = [link EXCEPT ![f] = i]
      /\ temp' = temp
      BY DEF AppendEntry, Step
<1>4. /\ i \in Inodes
      /\ \A g \in ListNames : temp[g] # i /\ (g # f => link[g] # i)
      /\ \A q \in Ctls : ctl[q].out = i => link[f] = i
  <2>1. Fresh \in Inodes /\ Fresh \notin Used
        BY FreshInode DEF ListsTyped
  <2>2. CASE link[f] = NoInode
        BY <2>1, <2>2, ListsAssumption DEF Used
  <2>3. CASE link[f] # NoInode
        BY <1>1, <1>2, <2>3 DEF OwnFiles
  <2> QED
      BY <2>2, <2>3
<1> HIDE DEF f, i
<1>5. \A q \in Ctls : /\ ctl'[q].out = ctl[q].out /\ ctl'[q].file = ctl[q].file
                      /\ ctl'[q].shared = ctl[q].shared
                      /\ ctl[q].out # NoInode => ctl'[q] = ctl[q]
      BY <1>1, <1>2, <1>3 DEF CtlRecords
<1>6. \A g \in ListNames : link'[g] = IF g = f THEN i ELSE link[g]
      BY <1>1, <1>3
<1>7. OwnFiles'
  <2>1. \A h \in ListNames : temp'[h] # NoInode =>
          \A g \in ListNames : link'[g] # temp'[h] /\ (g # h => temp'[g] # temp'[h])
        BY <1>3, <1>4, <1>6 DEF OwnFiles
  <2>2. \A h, g \in ListNames : h # g /\ link'[h] # NoInode => link'[g] # link'[h]
        BY <1>4, <1>6 DEF OwnFiles
  <2>3. \A q \in Ctls : ctl'[q].out # NoInode =>
          \A g \in ListNames \ {ctl'[q].file} : link'[g] # ctl'[q].out /\ temp'[g] # ctl'[q].out
    <3> SUFFICES ASSUME NEW q \in Ctls, ctl[q].out # NoInode,
                        NEW g \in ListNames \ {ctl[q].file}
                 PROVE  link'[g] # ctl[q].out /\ temp'[g] # ctl[q].out
        BY <1>5
    <3>1. link[g] # ctl[q].out /\ temp[g] # ctl[q].out
          BY DEF OwnFiles
    <3> QED
        BY <1>3, <1>4, <1>6, <3>1
  <2> QED
      BY <2>1, <2>2, <2>3 DEF OwnFiles
<1>8. Undisturbed'
  <2> SUFFICES ASSUME NEW q \in Ctls, ctl'[q].out # NoInode, ~ctl'[q].shared
               PROVE  /\ temp'[ctl'[q].file] = ctl'[q].out
                      /\ \A other \in Ctls \ {q} : ctl'[other].out # ctl'[q].out
                      /\ Holds(ctl[q])'
      BY DEF Undisturbed
  <2>1. /\ temp[ctl[q].file] = ctl[q].out /\ Holds(ctl[q])
        /\ \A other \in Ctls \ {q} : ctl[other].out # ctl[q].out
        BY <1>5 DEF Undisturbed
  <2>2. ctl'[q] = ctl[q]
        BY <1>5
  <2>3. disk'[ctl[q].out] = disk[ctl[q].out]
    <3>1. ctl[q].out # i
          BY <1>1, <1>4, <2>1 DEF CtlRecords
    <3> QED
        BY <1>3, <3>1
  <2>4. Holds(ctl[q])'
        BY <2>1, <2>2, <2>3 DEF Holds
  <2> QED
      BY <1>3, <1>5, <2>1, <2>4
<1>9. \A g \in ListNames : EntriesOf(g) \subseteq EntriesOf(g)'
  <2>1. PICK list \in ListNames : list = f
        BY <1>2
  <2>2. LinesOf(list) \in Seq(Names)
        BY LinesTyped DEF ListsTyped
  <2>3. LinesOf(list)' = Append(LinesOf(list), ctl[p].what)
    <3>1. link'[list] = i /\ i # NoInode
          BY <1>4, <1>6, <2>1, ListsAssumption
    <3>2. disk'[i].lines = Append(LinesOf(list), ctl[p].what)
          BY <1>1, <1>3, <1>4, <2>1
    <3> QED
        BY <3>1, <3>2 DEF LinesOf
  <2>4. EntriesOf(list) \subseteq EntriesOf(list)'
        BY <1>2, <2>2, <2>3, AppendedLine DEF EntriesOf
  <2>5. ASSUME NEW g \in ListNames \ {list} PROVE LinesOf(g)' = LinesOf(g)
    <3>1. link'[g] = link[g] /\ link[g] # i
          BY <1>4, <1>6, <2>1
    <3>2. \A inode \in Inodes \ {i} : disk'[inode] = disk[inode]
          BY <1>1, <1>3
    <3> QED
        BY <1>1, <3>1, <3>2 DEF LinesOf
  <2>6. ASSUME NEW g \in ListNames PROVE EntriesOf(g) \subseteq EntriesOf(g)'
    <3>1. CASE g = list
          BY <2>4, <3>1
    <3>2. CASE g # list
          BY <2>5, <3>2 DEF EntriesOf
    <3> QED
        BY <3>1, <3>2
  <2> QED
      BY <2>6
<1> QED
    BY <1>7, <1>8, <1>9

LEMMA OpenOwn ==
  ASSUME ListsTyped, OwnFiles, Undisturbed, NEW p \in Ctls, OpenTemp(p)
  PROVE  /\ OwnFiles' /\ Undisturbed'
         /\ \A f \in ListNames : LinesOf(f)' = LinesOf(f)
<1> DEFINE f == ctl[p].file
           i == IF temp[f] = NoInode THEN Fresh ELSE temp[f]
           met == {q \in Ctls : ctl[q].out = i}
<1>1. /\ ctl \in [Ctls -> CtlRecords] /\ disk \in [Inodes -> [lines : Seq(Names), time : 0..MaxTime]]
      /\ link \in [ListNames -> Inodes \cup {NoInode}]
      /\ temp \in [ListNames -> Inodes \cup {NoInode}]
      BY DEF ListsTyped, ListsTypeOK
<1>2. f \in ListNames /\ ctl[p].step = "open" /\ ctl[p].out = NoInode
      BY <1>1 DEF OpenTemp, ListsTyped, RightStep, CtlRecords
<1>3. /\ ctl' = [q \in Ctls |->
           IF q = p THEN [ctl[p] EXCEPT !.step = "write", !.copy = LinesOf(f),
                                        !.out = i, !.shared = met # {}]
           ELSE IF q \in met THEN [ctl[q] EXCEPT !.shared = TRUE]
           ELSE ctl[q]]
      /\ disk' = [disk EXCEPT ![i] = [lines |-> <<>>, time |-> now]]
      /\ temp' = [temp EXCEPT ![f] = i]
      /\ link' = link
      BY DEF OpenTemp
<1>4. /\ i \in Inodes
      /\ \A g \in ListNames : link[g] # i /\ (g # f => temp[g] # i)
      /\ \A q \in Ctls : ctl[q].out = i => temp[f] = i
  <2>1. Fresh \in Inodes /\ Fresh \notin Used
        BY FreshInode DEF ListsTyped
  <2>2. CASE temp[f] = NoInode
        BY <2>1, <2>2, ListsAssumption DEF Used
  <2>3. CASE temp[f] # NoInode
        BY <1>1, <1>2, <2>3 DEF OwnFiles
  <2> QED
      BY <2>2, <2>3
<1>5. /\ ctl'[p].out = i /\ ctl'[p].file = f /\ ctl'[p].step = "write"
      /\ ctl'[p].shared = (met # {})
  <2>1. f = ctl[p].file /\ ctl[p] \in CtlRecords
        BY <1>1
  <2> DEFINE c == ctl[p]
             lines == LinesOf(f)
             some == met # {}
  <2>2. ctl'[p] = [c EXCEPT !.step = "write", !.copy = lines, !.out = i, !.shared = some]
        BY <1>3
  <2> HIDE DEF f, i, met, c, lines, some
  <2>3. c \in CtlRecords /\ c.file = f
        BY <2>1 DEF c
  <2>4. /\ ctl'[p].out = i /\ ctl'[p].file = f /\ ctl'[p].step = "write"
        /\ ctl'[p].shared = some
        BY <2>2, <2>3 DEF CtlRecords
  <2> QED
      BY <2>4 DEF some
<1>6. \A q \in Ctls \ {p} : /\ ctl'[q].out = ctl[q].out /\ ctl'[q].file = ctl[q].file
                            /\ ctl[q].out = i => ctl'[q].shared = TRUE
                            /\ ctl[q].out # i => ctl'[q] = ctl[q]
      BY <1>1, <1>3 DEF CtlRecords
<1> HIDE DEF f, i
<1>7. \A g \in ListNames : temp'[g] = IF g = f THEN i ELSE temp[g]
      BY <1>1, <1>3
<1>8. OwnFiles'
  <2>1. \A h \in ListNames : temp'[h] # NoInode =>
          \A g \in ListNames : link'[g] # temp'[h] /\ (g # h => temp'[g] # temp'[h])
    <3> SUFFICES ASSUME NEW h \in ListNames, temp'[h] # NoInode, NEW g \in ListNames
                 PROVE  link'[g] # temp'[h] /\ (g # h => temp'[g] # temp'[h])
        OBVIOUS
    <3>1. CASE h = f
          BY <1>3, <1>4, <1>7, <3>1
    <3>2. CASE h # f
      <4>1. link[g] # temp[h] /\ (g # h => temp[g] # temp[h])
            BY <1>7, <3>2 DEF OwnFiles
      <4> QED
          BY <1>3, <1>4, <1>7, <3>2, <4>1
    <3> QED
        BY <3>1, <3>2
  <2>2. \A h, g \in ListNames : h # g /\ link'[h] # NoInode => link'[g] # link'[h]
        BY <1>3 DEF OwnFiles
  <2>3. ASSUME NEW q \in Ctls, ctl'[q].out # NoInode, NEW g \in ListNames \ {ctl'[q].file}
        PROVE  link'[g] # ctl'[q].out /\ temp'[g] # ctl'[q].out
    <3>1. CASE q = p
      <4>1. ctl'[q].out = i /\ g \in ListNames /\ g # f
            BY <1>5, <2>3, <3>1
      <4>2. link'[g] # i /\ temp'[g] # i
            BY <1>3, <1>4, <1>7, <4>1
      <4> QED
          BY <4>1, <4>2
    <3>2. CASE q # p
      <4>1. ctl[q].out # NoInode /\ g \in ListNames \ {ctl[q].file} /\ ctl'[q].out = ctl[q].out
            BY <1>6, <2>3, <3>2
      <4>2. link[g] # ctl[q].out /\ temp[g] # ctl[q].out
            BY <4>1 DEF OwnFiles
      <4> QED
          BY <1>3, <1>4, <1>7, <4>1, <4>2
    <3> QED
        BY <3>1, <3>2
  <2> QED
      BY <2>1, <2>2, <2>3 DEF OwnFiles
<1>9. Undisturbed'
  <2> SUFFICES ASSUME NEW q \in Ctls, ctl'[q].out # NoInode, ~ctl'[q].shared
               PROVE  /\ temp'[ctl'[q].file] = ctl'[q].out
                      /\ \A other \in Ctls \ {q} : ctl'[other].out # ctl'[q].out
                      /\ Holds(ctl[q])'
      BY DEF Undisturbed
  <2>1. CASE q = p
    <3>1. temp'[ctl'[q].file] = ctl'[q].out
          BY <1>2, <1>5, <1>7, <2>1
    <3>2. met = {}
          BY <1>5, <2>1
    <3>3. \A other \in Ctls \ {q} : ctl'[other].out # ctl'[q].out
          BY <1>5, <1>6, <2>1, <3>2
    <3>4. disk'[i].lines = <<>>
          BY <1>1, <1>3, <1>4
    <3> QED
        BY <1>5, <2>1, <3>1, <3>3, <3>4 DEF Holds
  <2>2. CASE q # p
    <3>1. ctl'[q] = ctl[q] /\ ctl[q].out # i
          BY <1>6, <2>2
    <3>2. /\ temp[ctl[q].file] = ctl[q].out /\ Holds(ctl[q])
          /\ \A other \in Ctls \ {q} : ctl[other].out # ctl[q].out
          BY <3>1 DEF Undisturbed
    <3>3. disk'[ctl[q].out] = disk[ctl[q].out]
      <4>1. ctl[q].out \in Inodes
            BY <1>1, <3>1 DEF CtlRecords
      <4> QED
          BY <1>1, <1>3, <3>1, <4>1
    <3>4. Holds(ctl[q])'
          BY <3>1, <3>2, <3>3 DEF Holds
    <3>5. ctl[q].file # f
      <4> SUFFICES ASSUME ctl[q].file = f PROVE FALSE
          OBVIOUS
      <4>1. temp[f] # NoInode /\ temp[f] # i
            BY <3>1, <3>2
      <4> QED
          BY <4>1 DEF i
    <3>6. temp'[ctl'[q].file] = ctl'[q].out
      <4>1. ctl[q].file \in ListNames
            BY <1>1 DEF CtlRecords
      <4> QED
          BY <1>7, <3>1, <3>2, <3>5, <4>1
    <3>7. \A other \in Ctls \ {q} : ctl'[other].out # ctl'[q].out
          BY <1>5, <1>6, <3>1, <3>2
    <3> QED
        BY <3>4, <3>6, <3>7
  <2> QED
      BY <2>1, <2>2
<1>10. \A g \in ListNames : LinesOf(g)' = LinesOf(g)
  <2>1. \A j \in Inodes \ {i} : disk'[j] = disk[j]
        BY <1>1, <1>3
  <2> QED
      BY <1>1, <1>3, <1>4, <2>1 DEF LinesOf
<1> QED
    BY <1>8, <1>9, <1>10

LEMMA CloseOwn ==
  ASSUME ListsTyped, OwnFiles, Undisturbed, NEW p \in Ctls, CloseTemp(p)
  PROVE  /\ OwnFiles' /\ Undisturbed'
         /\ OnlyResetsRemove
<1> DEFINE i == ctl[p].out
           old == disk[i].lines
<1>1. /\ ctl \in [Ctls -> CtlRecords] /\ disk \in [Inodes -> [lines : Seq(Names), time : 0..MaxTime]]
      /\ link \in [ListNames -> Inodes \cup {NoInode}]
      BY DEF ListsTyped, ListsTypeOK
<1>2. ctl[p].step = "write" /\ ctl[p].op = "reset" /\ i \in Inodes /\ i # NoInode
      BY <1>1 DEF CloseTemp, Step, ListsTyped, RightStep, CtlRecords
<1>3. PICK time : disk' = [disk EXCEPT ![i] = [lines |-> Written(old, Kept(p)), time |-> time]]
      BY DEF CloseTemp
<1>4. ctl' = [ctl EXCEPT ![p].step = "rename"] /\ UNCHANGED <<link, temp>>
      BY DEF CloseTemp, Step
<1>5. /\ old \in Seq(Names) /\ Kept(p) \in Seq(Names)
      /\ ToSet(Kept(p)) = ToSet(ctl[p].copy) \ {ctl[p].what}
      BY <1>1, <1>2, KeptTyped DEF ListsTyped
<1>6. /\ ToSet(Kept(p)) \subseteq ToSet(Written(old, Kept(p)))
      /\ old = <<>> => Written(old, Kept(p)) = Kept(p)
      BY <1>5, WrittenLines
<1>7. disk'[i].lines = Written(old, Kept(p)) /\ \A j \in Inodes \ {i} : disk'[j] = disk[j]
      BY <1>1, <1>2, <1>3
<1> HIDE DEF i, old
<1>8. /\ \A q \in Ctls : /\ ctl'[q].out = ctl[q].out /\ ctl'[q].file = ctl[q].file
                         /\ ctl'[q].shared = ctl[q].shared
      /\ \A q \in Ctls \ {p} : ctl'[q] = ctl[q]
      /\ ctl'[p].step = "rename" /\ ctl'[p].copy = ctl[p].copy /\ ctl'[p].what = ctl[p].what
      BY <1>1, <1>4 DEF CtlRecords
<1>9. OwnFiles'
      BY <1>4, <1>8 DEF OwnFiles
<1>10. Undisturbed'
  <2> SUFFICES ASSUME NEW q \in Ctls, ctl'[q].out # NoInode, ~ctl'[q].shared
               PROVE  /\ temp'[ctl'[q].file] = ctl'[q].out
                      /\ \A other \in Ctls \ {q} : ctl'[other].out # ctl'[q].out
                      /\ Holds(ctl[q])'
      BY DEF Undisturbed
  <2>1. /\ temp[ctl[q].file] = ctl[q].out /\ Holds(ctl[q])
        /\ \A other \in Ctls \ {q} : ctl[other].out # ctl[q].out
        BY <1>8 DEF Undisturbed
  <2>2. CASE q = p
    <3>1. old = <<>>
          BY <1>2, <2>1, <2>2 DEF Holds, old, i
    <3>2. disk'[ctl'[q].out].lines = Without(ctl'[q].copy, ctl'[q].what)
          BY <1>6, <1>7, <1>8, <2>2, <3>1 DEF Kept, i
    <3>3. Holds(ctl[q])'
          BY <1>8, <2>2, <3>2 DEF Holds
    <3> QED
        BY <1>4, <1>8, <2>1, <3>3
  <2>3. CASE q # p
    <3>1. ctl[q].out \in Inodes /\ ctl[q].out # i
          BY <1>1, <1>8, <2>1, <2>3 DEF CtlRecords, i
    <3>2. Holds(ctl[q])'
          BY <1>7, <1>8, <2>1, <2>3, <3>1 DEF Holds
    <3> QED
        BY <1>4, <1>8, <2>1, <3>2
  <2> QED
      BY <2>2, <2>3
<1>11. OnlyResetsRemove
  <2> SUFFICES ASSUME NEW g \in ListNames, NEW entry \in EntriesOf(g) \ EntriesOf(g)'
               PROVE  /\ ctl[p].op = "reset" /\ ctl[p].file = g
                      /\ ctl[p].what = entry \/ entry \notin ToSet(ctl[p].copy)
      BY DEF OnlyResetsRemove
  <2>1. link[g] = i
    <3> SUFFICES ASSUME link[g] # i PROVE FALSE
        OBVIOUS
    <3>1. LinesOf(g)' = LinesOf(g)
          BY <1>1, <1>4, <1>7 DEF LinesOf
    <3> QED
        BY <3>1 DEF EntriesOf
  <2>2. ctl[p].file = g
        BY <1>2, <2>1 DEF OwnFiles, i
  <2>3. entry \notin ToSet(Kept(p))
    <3>1. LinesOf(g)' = Written(old, Kept(p))
          BY <1>2, <1>4, <1>7, <2>1 DEF LinesOf
    <3> QED
        BY <1>6, <3>1 DEF EntriesOf
  <2> QED
      BY <1>2, <1>5, <2>2, <2>3
<1> QED
    BY <1>9, <1>10, <1>11

LEMMA ReplaceOwn ==
  ASSUME ListsTyped, OwnFiles, Undisturbed, NEW p \in Ctls, Replace(p)
  PROVE  /\ OwnFiles' /\ Undisturbed'
         /\ OnlyResetsRemove
         /\ ~ctl[p].shared /\ ctl[p].what \in ToSet(ctl[p].copy)
              => \A f \in ListNames : ctl[p].file = f => ctl[p].what \notin EntriesOf(f)'
<1>1. /\ ctl \in [Ctls -> CtlRecords] /\ disk \in [Inodes -> [lines : Seq(Names), time : 0..MaxTime]]
      /\ link \in [ListNames -> Inodes \cup {NoInode}]
      /\ temp \in [ListNames -> Inodes \cup {NoInode}]
      BY DEF ListsTyped, ListsTypeOK
<1>2. PICK f \in ListNames : f = ctl[p].file
      BY <1>1 DEF CtlRecords
<1>3. /\ ctl[p].step = "rename" /\ ctl[p].op = "reset"
      /\ ctl[p].out \in Inodes /\ ctl[p].out # NoInode
      BY <1>1 DEF Replace, ListsTyped, RightStep, CtlRecords
<1> DEFINE met == {q \in Ctls : ctl[q].out = temp[f] /\ temp[f] # NoInode}
<1>4. /\ ctl' = [q \in Ctls |-> IF q = p THEN AfterList(p)
                                ELSE IF q \in met THEN [ctl[q] EXCEPT !.shared = TRUE]
                                ELSE ctl[q]]
      /\ temp' = [temp EXCEPT ![f] = NoInode]
      /\ link' = IF Kept(p) = ctl[p].copy \/ temp[f] = NoInode THEN link
                 ELSE [link EXCEPT ![f] = temp[f]]
      /\ Reclaimed
      BY <1>2 DEF Replace
<1>5. ctl'[p].out = NoInode
      BY <1>4, AfterListTyped DEF ListsTyped
<1>6. \A q \in Ctls \ {p} : /\ ctl'[q].out = ctl[q].out /\ ctl'[q].file = ctl[q].file
                            /\ q \in met => ctl'[q].shared = TRUE
                            /\ q \notin met => ctl'[q] = ctl[q]
      BY <1>1, <1>4 DEF CtlRecords
<1>7. /\ \A g \in ListNames : temp'[g] = IF g = f THEN NoInode ELSE temp[g]
      /\ \A g \in ListNames \ {f} : link'[g] = link[g]
      /\ link'[f] = link[f] \/ (link'[f] = temp[f] /\ temp[f] # NoInode)
      BY <1>1, <1>4
<1>8. link' \in [ListNames -> Inodes \cup {NoInode}]
      BY <1>1, <1>4
<1>9. \A g \in ListNames : link'[g] # NoInode => disk'[link'[g]] = disk[link'[g]]
      BY <1>4, <1>8, ReclaimedKeeps DEF ListsTyped
<1> HIDE DEF met
<1>10. OwnFiles'
  <2>1. ASSUME NEW h \in ListNames, temp'[h] # NoInode, NEW g \in ListNames
        PROVE  link'[g] # temp'[h] /\ (g # h => temp'[g] # temp'[h])
    <3>1. h # f /\ temp'[h] = temp[h] /\ temp[h] # NoInode
          BY <1>7, <2>1
    <3>2. link[g] # temp[h] /\ (g # h => temp[g] # temp[h]) /\ temp[f] # temp[h]
          BY <3>1 DEF OwnFiles
    <3> QED
        BY <1>7, <3>1, <3>2
  <2>2. ASSUME NEW h \in ListNames, NEW g \in ListNames, h # g, link'[h] # NoInode
        PROVE  link'[g] # link'[h]
    <3>1. link[h] # NoInode => link[g] # link[h]
          BY <2>2 DEF OwnFiles
    <3>2. temp[f] # NoInode => link[g] # temp[f] /\ link[h] # temp[f]
          BY DEF OwnFiles
    <3> QED
        BY <1>7, <2>2, <3>1, <3>2
  <2>3. ASSUME NEW q \in Ctls, ctl'[q].out # NoInode, NEW g \in ListNames \ {ctl'[q].file}
        PROVE  link'[g] # ctl'[q].out /\ temp'[g] # ctl'[q].out
    <3>1. /\ q # p /\ ctl'[q].out = ctl[q].out /\ ctl'[q].file = ctl[q].file
          BY <1>5, <1>6, <2>3
    <3>2. link[g] # ctl[q].out /\ temp[g] # ctl[q].out
          BY <2>3, <3>1 DEF OwnFiles
    <3> QED
        BY <1>7, <2>3, <3>1, <3>2
  <2> QED
      BY <2>1, <2>2, <2>3 DEF OwnFiles
<1>11. Undisturbed'
  <2> SUFFICES ASSUME NEW q \in Ctls, ctl'[q].out # NoInode, ~ctl'[q].shared
               PROVE  /\ temp'[ctl'[q].file] = ctl'[q].out
                      /\ \A other \in Ctls \ {q} : ctl'[other].out # ctl'[q].out
                      /\ Holds(ctl[q])'
      BY DEF Undisturbed
  <2>1. q # p /\ q \notin met /\ ctl'[q] = ctl[q]
        BY <1>5, <1>6
  <2>2. /\ temp[ctl[q].file] = ctl[q].out /\ Holds(ctl[q])
        /\ \A other \in Ctls \ {q} : ctl[other].out # ctl[q].out
        BY <2>1 DEF Undisturbed
  <2>3. ctl[q].file # f
        BY <2>1, <2>2 DEF met
  <2>4. temp'[ctl'[q].file] = ctl'[q].out
    <3>1. ctl[q].file \in ListNames
          BY <1>1 DEF CtlRecords
    <3> QED
        BY <1>7, <2>1, <2>2, <2>3, <3>1
  <2>5. \A other \in Ctls \ {q} : ctl'[other].out # ctl'[q].out
        BY <1>5, <1>6, <2>1, <2>2
  <2>6. disk'[ctl[q].out] = disk[ctl[q].out]
    <3>1. ctl[q].out \in Inodes /\ ctl[q].out \in Used'
          BY <1>1, <2>1 DEF Used, CtlRecords
    <3> QED
        BY <1>4, <3>1 DEF Reclaimed
  <2>7. Holds(ctl[q])'
        BY <2>1, <2>2, <2>6 DEF Holds
  <2> QED
      BY <2>4, <2>5, <2>7
\* Undisturbed, it leaves the list with the lines it has kept.
<1>12. ASSUME ~ctl[p].shared, ctl[p].what \in ToSet(ctl[p].copy) \/ link' # link
       PROVE  EntriesOf(f)' = ToSet(ctl[p].copy) \ {ctl[p].what}
  <2>1. temp[f] = ctl[p].out /\ disk[ctl[p].out].lines = Kept(p)
        BY <1>2, <1>3, <1>12 DEF Undisturbed, Holds, Kept
  <2>2. ToSet(Kept(p)) = ToSet(ctl[p].copy) \ {ctl[p].what}
        BY KeptTyped DEF ListsTyped
  <2>3. link'[f] = ctl[p].out
    <3>1. Kept(p) # ctl[p].copy
      <4>1. CASE link' # link
            BY <1>4, <4>1
      <4>2. CASE ctl[p].what \in ToSet(ctl[p].copy)
            BY <2>2, <4>2
      <4> QED
          BY <1>12, <4>1, <4>2
    <3> QED
        BY <1>1, <1>3, <1>4, <2>1, <3>1
  <2>4. LinesOf(f)' = Kept(p)
        BY <1>3, <1>9, <2>1, <2>3 DEF LinesOf
  <2> QED
      BY <2>2, <2>4 DEF EntriesOf
<1>13. OnlyResetsRemove
  <2> SUFFICES ASSUME NEW g \in ListNames, NEW entry \in EntriesOf(g) \ EntriesOf(g)'
               PROVE  /\ ctl[p].op = "reset" /\ ctl[p].file = g
                      /\ \/ ctl[p].what = entry
                         \/ entry \notin ToSet(ctl[p].copy)
                         \/ ctl[p].shared
      BY DEF OnlyResetsRemove
  <2>1. link'[g] # link[g]
    <3> SUFFICES ASSUME link'[g] = link[g] PROVE FALSE
        OBVIOUS
    <3>1. LinesOf(g)' = LinesOf(g)
          BY <1>9 DEF LinesOf
    <3> QED
        BY <3>1 DEF EntriesOf
  <2>2. g = f
        BY <1>7, <2>1
  <2>3. CASE ~ctl[p].shared
    <3>1. EntriesOf(g)' = ToSet(ctl[p].copy) \ {ctl[p].what}
          BY <1>12, <2>1, <2>2, <2>3
    <3> QED
        BY <1>2, <1>3, <2>2, <3>1
  <2> QED
      BY <1>2, <1>3, <2>2, <2>3
<1>14. ASSUME ~ctl[p].shared, ctl[p].what \in ToSet(ctl[p].copy)
       PROVE  ctl[p].what \notin EntriesOf(f)'
       BY <1>12, <1>14
<1> QED
    BY <1>2, <1>10, <1>11, <1>13, <1>14

EditsAreRight == OnlyResetsRemove /\ ResetsRemoveAll

LEMMA NothingLeavesRight ==
  ASSUME \A f \in ListNames : EntriesOf(f) \subseteq EntriesOf(f)'
  PROVE  OnlyResetsRemove
  BY DEF OnlyResetsRemove

\* Only the step that renames goes on from there to the next list.
LEMMA NoneGoesOn ==
  ASSUME ListsTypeOK, NEW p \in Ctls,
         \A q \in Ctls \ {p} : ctl'[q].step = ctl[q].step,
         ctl[p].step # "rename" \/ ctl'[p] = Idle
  PROVE  ResetsRemoveAll
<1> SUFFICES ASSUME NEW q \in Ctls, ctl[q].step = "rename", ctl'[q] = AfterList(q)
             PROVE  FALSE
    BY DEF ResetsRemoveAll
<1>1. ctl'[q].step \in {"open", "signal"}
      BY AfterListTyped
<1>2. q = p
      BY <1>1
<1> QED
    BY <1>1, <1>2 DEF Idle, Command

LEMMA UnchangedEdits ==
  ASSUME OwnFiles, Undisturbed, ListsTypeOK, UNCHANGED <<disk, link, temp, ctl>>
  PROVE  OwnFiles' /\ Undisturbed' /\ EditsAreRight
<1>1. OwnFiles' /\ Undisturbed'
      BY DEF OwnFiles, Undisturbed, Holds
<1>2. \A f \in ListNames : EntriesOf(f)' = EntriesOf(f)
      BY DEF EntriesOf, LinesOf
<1>3. \A p \in Ctls : ctl[p].step = "rename" => ctl'[p] # AfterList(p)
      BY AfterListTyped
<1> QED
    BY <1>1, <1>2, <1>3 DEF EditsAreRight, OnlyResetsRemove, ResetsRemoveAll

LEMMA ListsEdits ==
  ASSUME ListsTyped, OwnFiles, Undisturbed, ListsNext \/ \E p \in Ctls : Signalled(p)
  PROVE  OwnFiles' /\ Undisturbed' /\ EditsAreRight
<1>1. ctl \in [Ctls -> CtlRecords] /\ ListsTypeOK
      BY DEF ListsTyped, ListsTypeOK
<1>2. ASSUME NEW p \in Ctls, NEW r, r.out = NoInode, ctl' = [ctl EXCEPT ![p] = r],
             UNCHANGED <<link, temp>>, disk' = disk \/ Reclaimed,
             ctl[p].step # "rename" \/ ctl'[p] = Idle
      PROVE  OwnFiles' /\ Undisturbed' /\ EditsAreRight
  <2>1. /\ OwnFiles' /\ Undisturbed'
        /\ \A f \in ListNames : LinesOf(f)' = LinesOf(f)
        BY <1>2, QuietStep
  <2>2. OnlyResetsRemove
        BY <2>1, NothingLeavesRight DEF EntriesOf
  <2>3. \A q \in Ctls \ {p} : ctl'[q].step = ctl[q].step
        BY <1>1, <1>2
  <2>4. ResetsRemoveAll
        BY <1>1, <1>2, <2>3, NoneGoesOn
  <2> QED
      BY <2>1, <2>2, <2>4 DEF EditsAreRight
<1>3. Idle.out = NoInode
      BY DEF Idle, Command
<1>4. ASSUME NEW p \in Ctls, NEW c \in Commands, Add(p, c) \/ Reset(p, c) \/ Configure(p, c)
      PROVE  OwnFiles' /\ Undisturbed' /\ EditsAreRight
  <2>1. ctl[p].step = "idle" /\ UNCHANGED <<disk, link, temp>>
        BY <1>4 DEF Add, Reset, Configure, Begin
  <2>2. \E op, step, what, file : ctl' = [ctl EXCEPT ![p] = Command(op, step, what, file)]
        BY <1>4 DEF Add, Reset, Configure
  <2>3. PICK r : r.out = NoInode /\ ctl' = [ctl EXCEPT ![p] = r]
        BY <2>2 DEF Command
  <2> QED
      BY <1>2, <2>1, <2>3
<1>5. ASSUME NEW p \in Ctls, AppendEntry(p)
      PROVE  OwnFiles' /\ Undisturbed' /\ EditsAreRight
  <2>1. ctl[p].step = "append" /\ \A q \in Ctls \ {p} : ctl'[q].step = ctl[q].step
        BY <1>1, <1>5 DEF AppendEntry, Step
  <2> QED
      BY <1>1, <1>5, <2>1, AppendOwn, NothingLeavesRight, NoneGoesOn DEF EditsAreRight
<1>6. ASSUME NEW p \in Ctls, AppendFails(p)
      PROVE  OwnFiles' /\ Undisturbed' /\ EditsAreRight
      BY <1>2, <1>3, <1>6 DEF AppendFails
<1>7. ASSUME NEW p \in Ctls, NoList(p)
      PROVE  OwnFiles' /\ Undisturbed' /\ EditsAreRight
  <2>1. AfterList(p).out = NoInode
        BY <1>1, AfterListTyped
  <2> QED
      BY <1>2, <1>7, <2>1 DEF NoList
<1>8. ASSUME NEW p \in Ctls, OpenTemp(p)
      PROVE  OwnFiles' /\ Undisturbed' /\ EditsAreRight
  <2>1. ctl[p].step = "open" /\ \A q \in Ctls \ {p} : ctl'[q].step = ctl[q].step
        BY <1>1, <1>8 DEF OpenTemp, CtlRecords
  <2>2. OwnFiles' /\ Undisturbed' /\ \A f \in ListNames : LinesOf(f)' = LinesOf(f)
        BY <1>8, OpenOwn
  <2>3. OnlyResetsRemove
        BY <2>2, NothingLeavesRight DEF EntriesOf
  <2> QED
      BY <1>1, <2>1, <2>2, <2>3, NoneGoesOn DEF EditsAreRight
<1>9. ASSUME NEW p \in Ctls, CloseTemp(p)
      PROVE  OwnFiles' /\ Undisturbed' /\ EditsAreRight
  <2>1. ctl[p].step = "write" /\ \A q \in Ctls \ {p} : ctl'[q].step = ctl[q].step
        BY <1>1, <1>9 DEF CloseTemp, Step
  <2> QED
      BY <1>1, <1>9, <2>1, CloseOwn, NoneGoesOn DEF EditsAreRight
<1>10. ASSUME NEW p \in Ctls, Replace(p)
       PROVE  OwnFiles' /\ Undisturbed' /\ EditsAreRight
  <2>1. \A q \in Ctls \ {p} : ctl'[q].step = ctl[q].step
        BY <1>1, <1>10 DEF Replace, CtlRecords
  <2>2. ResetsRemoveAll
    <3> SUFFICES ASSUME NEW q \in Ctls, NEW f \in ListNames,
                        ctl[q].step = "rename", ctl[q].file = f, ctl'[q] = AfterList(q),
                        ~ctl[q].shared, ctl[q].what \in ToSet(ctl[q].copy),
                        NEW entry \in EntriesOf(f)', entry = ctl[q].what
                 PROVE  FALSE
        BY DEF ResetsRemoveAll
    <3>1. AfterList(q).step \in {"open", "signal"}
          BY <1>1, AfterListTyped
    <3>2. q = p
          BY <2>1, <3>1
    <3> QED
        BY <1>10, <3>2, ReplaceOwn
  <2> QED
      BY <1>10, <2>2, ReplaceOwn DEF EditsAreRight
<1>11. ASSUME NEW p \in Ctls, KillCtl(p) \/ Signalled(p)
       PROVE  OwnFiles' /\ Undisturbed' /\ EditsAreRight
  <2>1. ctl' = [ctl EXCEPT ![p] = Idle] /\ UNCHANGED <<link, temp>> /\ (disk' = disk \/ Reclaimed)
        BY <1>11 DEF KillCtl, Signalled
  <2>2. ctl'[p] = Idle
        BY <1>1, <2>1
  <2> QED
      BY <1>2, <1>3, <2>1, <2>2
<1>12. CASE Elapse
  <2>1. UNCHANGED <<disk, link, temp, ctl>>
        BY <1>12 DEF Elapse
  <2> QED
      BY <1>1, <2>1, UnchangedEdits
<1> QED
    BY <1>4, <1>5, <1>6, <1>7, <1>8, <1>9, <1>10, <1>11, <1>12 DEF ListsNext

LEMMA EditsStep ==
  Typed /\ OwnFiles /\ Undisturbed /\ [Next]_vars => OwnFiles' /\ Undisturbed' /\ EditsAreRight
<1> SUFFICES ASSUME Typed, OwnFiles, Undisturbed, [Next]_vars
             PROVE  OwnFiles' /\ Undisturbed' /\ EditsAreRight
    OBVIOUS
<1>1. CASE UNCHANGED listVars
      BY <1>1, UnchangedEdits DEF listVars, Typed, ListsTyped
<1>2. CASE ListsNext \/ \E p \in Ctls : Signalled(p)
      BY <1>2, ListsEdits DEF Typed
<1>3. CASE Works
      BY <1>1, <1>3 DEF Works, Start, ReloadConfig, Stat, Read, Handle, Sync, Load
<1>4. CASE Happens
      BY <1>1, <1>4 DEF Happens, Scan, Discover, Autosave, Dump, Abort, Stop, Kill
<1>5. CASE UNCHANGED vars
      BY <1>1, <1>5 DEF vars
<1> QED
    BY <1>2, <1>3, <1>4, <1>5 DEF Next, Signal

\* Whatever commands edit the lists at once, and wherever they are killed: a line
\* leaves a list only by a reset that was asked to remove it, that had not read it,
\* or whose temporary file was not its own; and a reset whose file was its own has
\* removed its line when it goes on.
THEOREM EditsStay == Spec => EditsKept
<1>1. Init => Typed /\ OwnFiles /\ Undisturbed
      BY TypedInit, OwnFilesInit DEF Init
<1>2. Typed /\ OwnFiles /\ Undisturbed /\ [Next]_vars
        => /\ (Typed /\ OwnFiles /\ Undisturbed)'
           /\ [EditsAreRight]_vars
      BY TypedStep, EditsStep
<1> QED
    BY <1>1, <1>2, PTL DEF Spec, EditsKept, EditsAreRight

-----------------------------------------------------------------------------
(* PoolsFollow speaks of a daemon that is idle.  What it says of executables on
   no list holds between the steps of a start and of a reload, too.            *)

ByRules == \A e \in Known : e \notin touched => pool[e] = Unlisted(e)

ByLists ==
  \A e \in Known \ fresh :
    pool[e] = IF Blacklisted(e) THEN "observation"
              ELSE IF e \in manual THEN "priority"
              ELSE pool[e]

ClassInv == ByRules /\ (stage = "idle" => ByLists)

LEMMA ClassInvImplies == ClassInv => PoolsFollow
  BY DEF ClassInv, ByRules, ByLists, PoolsFollow

LEMMA NothingKnown == Known = {} => ByRules /\ ByLists
  BY DEF ByRules, ByLists

LEMMA ForgottenKnowsNothing == Forgotten => ClassInv'
<1> SUFFICES ASSUME Forgotten PROVE Known' = {}
    BY DEF ClassInv, ByRules, ByLists
<1> QED
    BY DEF Forgotten, NoClasses, Known

LEMMA ClassInvInit == Init => ClassInv
<1> SUFFICES ASSUME Init PROVE Known = {}
    BY NothingKnown DEF ClassInv
<1> QED
    BY DEF Init, NoClasses, Known

\* Synced gives every executable on a list the class of the list that wins, and
\* leaves the others alone.
LEMMA SyncedFollows ==
  ASSUME NEW classes, NEW e \in DOMAIN Synced(classes)
  PROVE  /\ Synced(classes)[e] = IF Blacklisted(e) THEN "observation"
                                 ELSE IF e \in manual THEN "priority"
                                 ELSE Synced(classes)[e]
         /\ e \notin manual /\ ~Blacklisted(e) =>
              e \in DOMAIN classes /\ Synced(classes)[e] = classes[e]
  BY DEF Synced

LEMMA ClassInvStep == ClassInv /\ [Next]_vars => ClassInv'
<1> SUFFICES ASSUME ClassInv, [Next]_vars PROVE ClassInv'
    OBVIOUS
<1>1. ASSUME UNCHANGED <<stage, manual, black, pool, fresh, touched>>
      PROVE  ClassInv'
      BY <1>1 DEF ClassInv, ByRules, ByLists, Blacklisted, Known
\* On the way from idle to idle only what the rules say has to hold.
<1>2. ASSUME UNCHANGED <<pool, touched>>, stage' # "idle"
      PROVE  ClassInv'
      BY <1>2 DEF ClassInv, ByRules, Known
<1>3. CASE Sync
  <2>1. /\ stage' = "idle" /\ pool' = Synced(pool) /\ UNCHANGED <<manual, black>>
        /\ touched' = touched \cup Listed(Known)
        BY <1>3 DEF Sync
  <2>2. ByLists'
        BY <2>1, SyncedFollows DEF ByLists, Known, Blacklisted
  <2>3. ByRules'
    <3> SUFFICES ASSUME NEW e \in Known', e \notin touched'
                 PROVE  pool'[e] = Unlisted(e)
        BY DEF ByRules
    <3>1. e \notin manual
          BY <2>1 DEF Listed
    <3>2. ~Blacklisted(e)
          BY <2>1, <3>1 DEF Listed, Known, Synced
    <3>3. e \in Known /\ pool'[e] = pool[e]
          BY <2>1, <3>1, <3>2, SyncedFollows DEF Known
    <3> QED
        BY <2>1, <3>3 DEF ClassInv, ByRules
  <2> QED
      BY <2>2, <2>3 DEF ClassInv
<1>4. CASE Load
  <2> PICK seeded \in Seeds :
        LET known == DOMAIN saved.pool \cup seeded
        IN  /\ stage' = "idle" /\ pool' = Synced(Reclassified(known))
            /\ touched' = Listed(known) /\ UNCHANGED <<manual, black, fresh>>
      BY <1>4 DEF Load
  <2> DEFINE known == DOMAIN saved.pool \cup seeded
  <2>1. ByLists'
        BY SyncedFollows DEF ByLists, Known, Blacklisted
  <2>2. ByRules'
    <3> SUFFICES ASSUME NEW e \in Known', e \notin touched'
                 PROVE  pool'[e] = Unlisted(e)
        BY DEF ByRules
    <3>1. e \notin manual
          BY DEF Listed
    <3>2. e \in known
          BY <3>1 DEF Known, Synced, Reclassified
    <3>3. ~Blacklisted(e) /\ ~is_manual_app(e, manual)
          BY <3>2 DEF Listed
    <3>4. pool'[e] = Reclassified(known)[e]
          BY <3>1, <3>3, SyncedFollows DEF Known
    <3> QED
        BY <3>2, <3>3, <3>4 DEF Reclassified, ClassOf
  <2> QED
      BY <2>1, <2>2 DEF ClassInv
<1>5. ASSUME NEW e \in Runnable, Discover(e)
      PROVE  ClassInv'
  <2>1. PICK class \in Classes :
          pool' = [k \in Known \cup {e} |-> IF k = e THEN class ELSE pool[k]]
        BY <1>5 DEF Discover
  <2>2. /\ stage = "idle" /\ fresh' = fresh \cup {e} /\ touched' = touched \cup {e}
        /\ UNCHANGED <<manual, black>>
        BY <1>5 DEF Discover
  <2>3. Known' \ touched' \subseteq Known \ touched /\ Known' \ fresh' \subseteq Known \ fresh
        BY <2>1, <2>2 DEF Known
  <2>4. \A k \in Known' \ {e} : pool'[k] = pool[k]
        BY <2>1 DEF Known
  <2> QED
      BY <2>2, <2>3, <2>4 DEF ClassInv, ByRules, ByLists, Blacklisted
<1>6. CASE Autosave
  <2>1. PICK gone \in SUBSET Known :
          /\ pool' = [e \in Known \ gone |-> pool[e]]
          /\ fresh' = fresh \ gone /\ touched' = touched \ gone
        BY <1>6 DEF Autosave
  <2>2. stage = "idle" /\ UNCHANGED <<manual, black>>
        BY <1>6 DEF Autosave
  <2>3. Known' = Known \ gone
        BY <2>1 DEF Known
  <2>4. \A e \in Known' : pool'[e] = pool[e]
        BY <2>1 DEF Known
  <2> QED
      BY <2>1, <2>2, <2>3, <2>4 DEF ClassInv, ByRules, ByLists, Blacklisted
<1>7. CASE Works
  <2>1. CASE Start
        BY <1>2, <2>1 DEF Start
  <2>2. CASE ReloadConfig
        BY <1>2, <2>2 DEF ReloadConfig
  <2>3. CASE Stat
        BY <1>2, <2>3 DEF Stat, AfterBlacklist
  <2>4. CASE Read
        BY <1>2, <2>4 DEF Read, AfterBlacklist
  <2>5. CASE Handle
        BY <1>2, <2>5 DEF Handle, memory
  <2> QED
      BY <1>3, <1>4, <1>7, <2>1, <2>2, <2>3, <2>4, <2>5 DEF Works
<1>8. CASE Happens
  <2>1. ASSUME NEW seen \in SUBSET Runnable, Scan(seen)
        PROVE  ClassInv'
        BY <1>1, <2>1 DEF Scan
  <2>2. CASE Dump
        BY <1>1, <2>2 DEF Dump, daemonVars, memory
  <2>3. CASE Abort \/ Stop \/ Kill
        BY <2>3, ForgottenKnowsNothing DEF Abort, Stop, Kill
  <2> QED
      BY <1>5, <1>6, <1>8, <2>1, <2>2, <2>3 DEF Happens
<1>9. ASSUME NEW p \in Ctls, Signal(p)
      PROVE  ClassInv'
  <2>1. CASE starting
        BY <1>9, <2>1, ForgottenKnowsNothing DEF Signal
  <2>2. CASE ~starting
        BY <1>1, <1>9, <2>2 DEF Signal, memory
  <2> QED
      BY <2>1, <2>2
<1>10. CASE UNCHANGED daemonVars
      BY <1>1, <1>10 DEF daemonVars, memory
<1> QED
    BY <1>7, <1>8, <1>9, <1>10 DEF Next, vars

\* Whatever is edited, reloaded, discovered, evicted, saved and started again: a
\* blacklisted executable is observed, one that is only on the manual list has
\* priority, and one that was on no list has the class of the rules.
THEOREM ClassesFollow == Spec => []PoolsFollow
  BY ClassInvInit, ClassInvStep, ClassInvImplies, PTL DEF Spec
=============================================================================
