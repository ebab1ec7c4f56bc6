\* Xray is restarted while a client is banned.
SPECIFICATION Spec
CONSTANTS
    a = a  b = b  i1 = i1  i2 = i2  nobody = nobody
    E = {a, b}
    Shadowsocks = {}
    IP = {i1, i2}
    Limit = 1
    Nobody = nobody
    Ops = {"restart"}
    ApiMayFail = FALSE
INVARIANT BanHolds
