\* A restart of Xray while a client runs out.
SPECIFICATION Spec
CONSTANTS
    a = a  b = b  h1 = h1  h2 = h2  tick = tick  boot = boot
    nobody = nobody  none = none
    E = {a, b}
    NoClient = none
    Renewing = {}
    Handlers = {h1}
    Ticker = tick
    Restarter = boot
    Nobody = nobody
    Ops = {"expire", "restart"}
    ApiMayFail = FALSE
    RestartsOverlap = FALSE
INVARIANT NoGhost
CHECK_DEADLOCK FALSE
