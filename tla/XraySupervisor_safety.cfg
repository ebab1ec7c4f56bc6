\* One goroutine of each kind, one client, two slots for processes; the fork
\* happens before Start returns. Nothing is counted, so runs of any length
\* are covered.
SPECIFICATION Spec
CONSTANTS
    p1 = p1  p2 = p2  k1 = k1  k2 = k2  r1 = r1  h1 = h1  u1 = u1
    x1 = x1  x2 = x2  none = none  nobody = nobody
    Panels = {p1}
    CrashTicks = {k1}
    RestartTicks = {r1}
    Handlers = {h1}
    Users = {u1}
    Procs = {x1, x2}
    NoProc = none
    NoThread = nobody
    LateSpawn = FALSE
INVARIANT TypeOK
INVARIANT StopHolds
PROPERTY OneXray
