---------------------------- MODULE MCReadahead ----------------------------
(***************************************************************************)
(* Instances of Readahead for TLC.                                         *)
(***************************************************************************)
EXTENDS Readahead

Region(p, o, l) == [path |-> p, off |-> o, len |-> l]

TwoPaths  == {"lib", "app"}
ByName    == [p \in TwoPaths |-> IF p = "app" THEN 1 ELSE 2]

\* Of a library, pieces that overlap, are adjacent or apart; one of a program.
Text == Region("lib", 0, 2)
Plt  == Region("lib", 1, 2)
Data == Region("lib", 2, 2)
More == Region("lib", 3, 2)
Bss  == Region("lib", 6, 1)
Main == Region("app", 2, 1)

\* The whole file, as load_maps_for_exe maps it.
Whole == Region("lib", 0, 4)

Selections ==
  SUBSET {Text, Plt, Data, More, Main}
    \cup {{Text, Bss, Main}, {More, Bss}}
    \cup {{Whole, Text}, {Whole, Data}, {Whole, Text, More}}

\* One inode per file, but Bss was mapped after the library was replaced.
Inodes == [r \in Regions |-> IF r = Bss THEN 1 ELSE IF r.path = "lib" THEN 3 ELSE 2]

AllStrategies == {"none", "path", "block"}
SomeLimits    == {0, 1, 2}
=============================================================================
