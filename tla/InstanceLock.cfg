\* Daemons that are stopped or killed.  No daemon starts any more once as many
\* files as the bound allows were created.
SPECIFICATION LockSpec
CONSTANTS
  Procs = {p1, p2, p3}
  Launcher = Launcher
  Children = Children
  Nobody = Nobody
  Files = 3
INVARIANTS
  LockExact
  OneDaemon
  NamedDaemon
CHECK_DEADLOCK FALSE
