\* Two handlers.
SPECIFICATION Spec
CONSTANTS
    a = a  b = b  h1 = h1  h2 = h2  tick = tick  boot = boot
    nobody = nobody  none = none
    E = {a, b}
    NoClient = none
    Renewing = {}
    Handlers = {h1, h2}
    Ticker = tick
    Restarter = boot
    Nobody = nobody
    Ops = {"add"}
    ApiMayFail = FALSE
    RestartsOverlap = FALSE
PROPERTY OwnClientsOnly
CHECK_DEADLOCK FALSE
