CONSTANTS
    Radio = {r1, r2, r3}
    NoRadio = NoRadio
    MaxInterfaces = 2
    QueueLimit = 1
    MaxPackets = 2
SPECIFICATION Spec
INVARIANTS TypeOK WorkerOwnsInbound NothingDangles ObserversFollow
PROPERTY Serviced
