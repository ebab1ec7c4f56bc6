\* One handler and the traffic job beside restarts, so that a call may find no
\* API port; the inbound runs out at any moment.
SPECIFICATION Spec
CONSTANTS
    a = a  b = b  h1 = h1  h2 = h2  tick = tick  boot = boot
    nobody = nobody  none = none
    E = {a, b}
    NoClient = none
    Renewing = {}
    Handlers = {h1}
    Ticker = tick
    Restarter = boot
    Nobody = nobody
    Ops = {"add", "del", "edit", "delinb", "tick", "over"}
    ApiMayFail = FALSE
    RestartsOverlap = TRUE
SYMMETRY Alike
INVARIANT TypeOK
INVARIANT Paired
PROPERTY OwnClientsOnly
