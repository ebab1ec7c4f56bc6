\* Clients are switched off and added and the limit comes and goes; any API call may fail,
\* and the panel dies of a ban of a Shadowsocks client.
SPECIFICATION Spec
CONSTANTS
    a = a  b = b  i1 = i1  i2 = i2  nobody = nobody
    E = {a, b}
    Shadowsocks = {b}
    IP = {i1, i2}
    Limit = 1
    Nobody = nobody
    Ops = {"off", "add", "toggle"}
    ApiMayFail = TRUE
INVARIANT BanHolds
