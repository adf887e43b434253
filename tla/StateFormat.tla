---------------------------- MODULE StateFormat ----------------------------
(***************************************************************************)
(* The lines of the state file: how the tables are written and read back   *)
(* (src/src/state/state_io.c).  A line is a tag and what it is about; the  *)
(* numbers that lines refer to one another by are the objects themselves.  *)
(* Tables are records of the executables, the registered maps, the exemaps *)
(* <<e, m>>, the chains <<a, b>> and the applications preloaded of late.   *)
(***************************************************************************)
EXTENDS Integers, Sequences, SequencesExt, FiniteSetsExt

CONSTANTS
  Exes,       \* executables
  Maps        \* mapped regions

ASSUME FormatAssumption == IsFiniteSet(Exes) /\ IsFiniteSet(Maps)

Tables ==
  [exes : SUBSET Exes, maps : SUBSET Maps, exemaps : SUBSET (Exes \X Maps),
   chains : SUBSET (Exes \X Exes), preloaded : SUBSET Exes]

NoTables == [exes |-> {}, maps |-> {}, exemaps |-> {}, chains |-> {}, preloaded |-> {}]

\* Tables whose lines refer only to lines written before them.
WellFormed(t) ==
  /\ t.maps = {x[2] : x \in t.exemaps}
  /\ \A x \in t.exemaps : x[1] \in t.exes
  /\ \A c \in t.chains : c[1] \in t.exes /\ c[2] \in t.exes

Line(tag, x) == [tag |-> tag, of |-> x]
Bare(tag) == Line(tag, <<>>)

Lines ==
  [tag : {"MAP"}, of : Maps] \cup [tag : {"EXE", "PRELOAD"}, of : Exes]
    \cup [tag : {"EXEMAP"}, of : Exes \X Maps] \cup [tag : {"MARKOV"}, of : Exes \X Exes]
    \cup {Bare("PRELOAD"), Bare("PRELOAD_TIMES"), Bare("CRC32")}

Section(tag, S) == LET q == SetToSeq(S) IN [i \in DOMAIN q |-> Line(tag, q[i])]

\* kp_stats_save_preload_times: nothing when no application was preloaded.
Times(S) ==
  IF S = {} THEN <<>> ELSE <<Bare("PRELOAD_TIMES")>> \o Section("PRELOAD", S)

\* kp_state_write_to_channel.
WriteExemapsFirst(t) ==
  <<Bare("PRELOAD")>> \o Section("EXEMAP", t.exemaps) \o Section("MAP", t.maps)
    \o Section("EXE", t.exes) \o Section("MARKOV", t.chains)
    \o Times(t.preloaded) \o <<Bare("CRC32")>>
Write(t) ==
  <<Bare("PRELOAD")>> \o Section("MAP", t.maps) \o Section("EXE", t.exes)
    \o Section("EXEMAP", t.exemaps) \o Section("MARKOV", t.chains)
    \o Times(t.preloaded) \o <<Bare("CRC32")>>

\* What the first n lines say of one kind.
Told(lines, n, tag) == {lines[i].of : i \in {j \in 1..n : lines[j].tag = tag}}

\* The line is an error, after lines that are not.  The header's tag is the tag
\* of the preload times too, and the branch of the header comes first.
Wrong(lines, i) ==
  LET l == lines[i]
      told(tag) == Told(lines, i - 1, tag)
  IN \/ l.tag = "PRELOAD" /\ i # 1
     \/ l.tag \in {"MAP", "EXE"} /\ l.of \in told(l.tag)
     \/ l.tag = "EXEMAP" /\ ~(l.of[1] \in told("EXE") /\ l.of[2] \in told("MAP"))
     \/ l.tag = "MARKOV" /\ ~(l.of[1] \in told("EXE") /\ l.of[2] \in told("EXE"))

\* A file that does not begin with a header is ignored.
Ignored(lines) == lines # <<>> /\ lines[1].tag # "PRELOAD"

IsCorrupt(lines) == ~Ignored(lines) /\ \E i \in DOMAIN lines : Wrong(lines, i)

\* Reading goes on to the end or to the first error, and keeps what it has read.
\* The checksum is not compared with anything.  Maps no exemap refers to are
\* dropped with the index of the file.
Read(lines) ==
  LET good == IF Ignored(lines) THEN 0
              ELSE Max({n \in 0..Len(lines) : \A i \in 1..n : ~Wrong(lines, i)})
  IN [exes      |-> Told(lines, good, "EXE"),
      maps      |-> {x[2] : x \in Told(lines, good, "EXEMAP")},
      exemaps   |-> Told(lines, good, "EXEMAP"),
      chains    |-> Told(lines, good, "MARKOV"),
      preloaded |-> {}]
=============================================================================
