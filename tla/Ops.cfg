SPECIFICATION OpsSpec
CONSTANTS
  TaskIds = {j1, j2}
  Callers = {c1}
  LocalMembers = {m1, m2}
  Tables = 2
  MaxClock = 5
  Interval = 2
  Humans = {u1, u2}
  Requests = {r1, r2}
  MaxAdminOps = 4
  Patterns = {"p1", "p2", "p3"}
  Servers = {"s1", "s2"}
  Matching <- MCMatching
  Admins = {a1, a2}
  Compilable <- MCCompilable
  MaxEdits = 3
  OneShots = {o}
  Watchers = {t}
  Interruptibles = {s}
  Reloaders = {c}
  MaxFaults = 2
  MaxSignals = 2
INVARIANTS
  
  AdminsRemain
  
  ExitSound
PROPERTIES
  TasksSettle
  ShutdownCompletes
CHECK_DEADLOCK FALSE
