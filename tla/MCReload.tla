------------------------------ MODULE MCReload ------------------------------
(***************************************************************************)
(* The instance of Reload for TLC: x is a program with a desktop file, y   *)
(* one in /opt that its wrapper w in /usr/bin starts.  The names are their *)
(* base names; only nx and nw are found in /usr/bin.                       *)
(***************************************************************************)
EXTENDS Reload

CONSTANTS x, y, w, nx, ny, nw, fam

MCPaths      == {x, y, w}
MCPlainNames == {nx, ny, nw}
MCLocated    == nx :> x @@ ny :> NoPath @@ nw :> w

MCFile(path, kind, execs, segments, base) ==
  [target |-> path, trusted |-> TRUE, kind |-> kind, execs |-> execs,
   shebang |-> NoPath, segments |-> segments, base |-> base]

MCFileAt ==
  x :> MCFile(x, "elf", <<>>, <<"usr", "bin", "nx">>, nx) @@
  y :> MCFile(y, "elf", <<>>, <<"opt", "y", "ny">>, ny) @@
  w :> MCFile(w, "script", <<y>>, <<"usr", "bin", "nw">>, nw)

MCDesktopFiles == {[hidden |-> FALSE, exec |-> x, snap |-> NoPath]}
MCPatterns     == {{}}
MCUserDirs     == {[dir |-> <<"opt">>, slash |-> TRUE]}

MCConf(table) == [valid |-> TRUE, listed |-> TRUE, families |-> table]
MCConfs == {MCConf(fam :> {x}), MCConf(fam :> {x, y}),
            [MCConf(NoFamilies) EXCEPT !.valid = FALSE]}

MCCommands ==
  [op : {"promote"}, what : {nx}] \cup [op : {"demote"}, what : {ny}] \cup
  [op : {"reset"}, what : {w, ny}] \cup [op : {"configure"}, what : MCConfs]

MCFirstLists ==
  {("apps.list" :> <<w>> @@ "blacklist" :> <<ny>>),
   ("apps.list" :> <<>> @@ "blacklist" :> <<>>)}

MCState(classes, table) ==
  [pool |-> classes, launched |-> DOMAIN classes, families |-> table]
MCFirstStates ==
  {MCState(NoClasses, NoFamilies), MCState(x :> "priority", fam :> {x})}

MCRunnable == {x, y}
Symmetry   == Permutations(Ctls)
=============================================================================
