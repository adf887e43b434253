---------------------------- MODULE MCDaemonTick ----------------------------
(***************************************************************************)
(* Instances of DaemonTick for TLC: an application known by its name only, *)
(* from seeding or from the manual list, and one that was seen running.    *)
(***************************************************************************)
EXTENDS DaemonTick

CONSTANTS seeded, seen, seededFile, seenFile, lib

AppSize     == [m \in Maps |-> IF m = seenFile THEN 123 ELSE 203]
AppFile     == [e \in Exes |-> IF e = seeded THEN seededFile ELSE seenFile]
AppLibs     == [e \in Exes |-> [m \in Maps |-> IF m # lib THEN 0 ELSE IF e = seen THEN 1 ELSE 2]]
AppLearned  == [e \in Exes |-> [m \in Maps |-> IF e = seen /\ m = seenFile THEN 1 ELSE 0]]
AppUsage    == [e \in Exes |-> IF e = seen THEN 20 ELSE 10]
SomeManual  == {{}, {seeded}}
OneBid      == {-2}

\* Less than nothing, which counts as nothing, and all of the cached memory, 100
\* kilobytes: just too little for two maps of 51 kilobytes, the last of them not full.
SomePercents == {[memtotal |-> -10, memfree |-> 50, memcached |-> 120]}
SomeMemories == {[total |-> 520, free |-> 1, cached |-> 100]}
=============================================================================
