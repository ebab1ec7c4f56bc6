\* The panel may die at any step; requests come before the one that starts
\* next has started Xray, and restarts between requests.
SPECIFICATION Spec
CONSTANTS
    a = a  b = b  h1 = h1  h2 = h2  tick = tick  boot = boot
    nobody = nobody  none = none
    E = {a, b}
    NoClient = none
    Renewing = {}
    Handlers = {h1}
    Ticker = tick
    Restarter = boot
    Nobody = nobody
    Ops = {"add", "del", "delinb", "edit", "reset", "resetall", "addinb", "updinb", "tick", "restart", "crash"}
    ApiMayFail = FALSE
    RestartsOverlap = FALSE
INVARIANT Paired
INVARIANT NoLockout
