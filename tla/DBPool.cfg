SPECIFICATION FairSpec
CONSTANTS
    NULL = NULL
    a = a
    b = b
    d = d
    e = e
    x = x
    y = y
    Clients = {a, b, d, e}
    Conns = {x, y}
    MaxConn = 2
INVARIANTS
    ConnectionsSound
    NoLostNotification
PROPERTY ReleaseEndsWaits
