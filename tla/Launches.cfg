\* An application with a .desktop file and a tool, two PIDs, a window of three
\* seconds and ticks that come late now and then.
SPECIFICATION Spec
CONSTANTS
  app = app
  tool = tool
  Never = Never
  Exes = {app, tool}
  NameOf <- Itself
  p = p
  q = q
  Pids = {p, q}
  Desktop = {app}
  Delays = {1, 2}
  Window = 3
  MaxTime = 5
SYMMETRY Interchangeable
INVARIANTS
  SecondsBalance
PROPERTIES
  
  HitsCameFirst
  RestartsCounted
CHECK_DEADLOCK FALSE
