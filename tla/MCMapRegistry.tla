--------------------------- MODULE MCMapRegistry ---------------------------
(***************************************************************************)
(* Instances of MapRegistry for TLC.                                       *)
(***************************************************************************)
EXTENDS MapRegistry, TLC

CONSTANTS a, b, lib, text

TwoExes    == {a, b}
TwoRegions == {lib, text}

\* a lists its own file once, and the library twice; b the library once.  /proc may
\* show either to both.
SharedFiles == a :> (lib :> 2 @@ text :> 1) @@ b :> (lib :> 1 @@ text :> 0)
=============================================================================
