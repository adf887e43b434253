----------------------------- MODULE MCExeModel -----------------------------
(***************************************************************************)
(* Instances of ExeModel for TLC.                                          *)
(***************************************************************************)
EXTENDS ExeModel, TLC

CONSTANTS a, b

TwoExes   == {a, b}

NoLists    == {{}}
ListsOfA   == {{}, {a}}
ListsOfB   == {{}, {b}}
CycleTwo   == {2}
CycleThree == {3}
Symmetry   == Permutations(Exes)
AtStart    == {4}
PastOrDue  == {1, 7}
InOrOut    == {3, 9}
OneOfFour  == {1}
OnlyTrue   == {TRUE}
Either     == BOOLEAN
=============================================================================
