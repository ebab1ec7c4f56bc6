\* A crash tick against one panel request; forks may come late.
SPECIFICATION FairSpec
CONSTANTS
    p1 = p1  p2 = p2  k1 = k1  k2 = k2  r1 = r1  h1 = h1  u1 = u1
    x1 = x1  x2 = x2  none = none  nobody = nobody
    Panels = {p1}
    CrashTicks = {k1}
    RestartTicks = {}
    Handlers = {}
    Users = {}
    Procs = {x1, x2}
    NoProc = none
    NoThread = nobody
    LateSpawn = TRUE
PROPERTY CrashRecovered
PROPERTY EveryCallReturns
PROPERTY OrphansStopped
