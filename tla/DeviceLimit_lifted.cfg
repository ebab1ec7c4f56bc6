\* Restarts, edits and deletions beside the job, and an API that works.
SPECIFICATION FairSpec
CONSTANTS
    a = a  b = b  i1 = i1  i2 = i2  nobody = nobody
    E = {a, b}
    Shadowsocks = {}
    IP = {i1, i2}
    Limit = 1
    Nobody = nobody
    Ops = {"restart", "edit", "delete"}
    ApiMayFail = FALSE
INVARIANT TypeOK
INVARIANT Served
PROPERTY BanLifted
