CONSTANTS
    Radio = {r1, r2, r3}
    NoRadio = NoRadio
    Destination = {d1, d2, d3, all}
    BroadcastNode = all
    NoNode = NoNode
    Address = {a1}
    NoAddress = NoAddress
    MaxInterfaces = 2
    MaxRoutes = 2
    MaxNotices = 3
SPECIFICATION Spec
INVARIANT StopsAreTold
CHECK_DEADLOCK FALSE
