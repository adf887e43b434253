---------------------------- MODULE MCStateFile ----------------------------
(***************************************************************************)
(* Instances of StateFile for TLC.                                         *)
(***************************************************************************)
EXTENDS StateFile

CONSTANTS a, s, lib, text

Learnt == [exes |-> {a, s}, maps |-> {lib, text}, exemaps |-> {<<a, lib>>, <<s, lib>>, <<s, text>>},
           chains |-> {<<a, s>>}, preloaded |-> {}]
OneLess == [exes |-> {s}, maps |-> {lib}, exemaps |-> {<<s, lib>>}, chains |-> {}, preloaded |-> {}]
AfterPreload == [Learnt EXCEPT !.preloaded = {a}]

NoPreloads   == {Learnt, OneLess}
WithPreloads == {Learnt, AfterPreload}
FirstStored  == {OneLess}
Seeds == {s}

AllSucceed == [step \in Steps |-> {TRUE}]
SomeFail   == [step \in Steps |-> IF step = "sync" THEN {TRUE} ELSE BOOLEAN]
=============================================================================
