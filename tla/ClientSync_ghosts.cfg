\* One handler and the traffic job, no restart and an API that works.
SPECIFICATION Spec
CONSTANTS
    a = a  b = b  h1 = h1  h2 = h2  tick = tick  boot = boot
    nobody = nobody  none = none
    E = {a, b}
    NoClient = none
    Renewing = {}
    Handlers = {h1}
    Ticker = tick
    Restarter = boot
    Nobody = nobody
    Ops = {"add", "del", "edit", "reset", "delinb", "depleted", "tick", "expire"}
    ApiMayFail = FALSE
    RestartsOverlap = FALSE
INVARIANT NoGhost
