CONSTANTS
    n1 = n1
    n2 = n2
    n3 = n3
    n4 = n4
    m1 = m1
    m2 = m2
    m3 = m3
    m4 = m4
    m5 = m5
    Frame <- MCFrame
    NoNode = NoNode
    NoData = NoData
    Garbled = Garbled
    BroadcastNode = BroadcastNode
    WireHeaderBytes = 1
    MaxMessageBytes = 8
    MaxByte = 7
    Node <- DiamondNode
    Interfaces <- DiamondInterfaces
    Routes <- DiamondRoutes
    Sender <- DiamondSender
    Dest <- DiamondDest
    Bytes <- DiamondBytes
    Msg = {m1, m2}
    MaxReassemblies = 2
    MaxRecent = 1
    TouchModulus = 2
    MaxTouch = 2
    MaxCompletions = 3
    DefaultHopLimit = 2
    IdModulus = 3
SPECIFICATION LossySpec
INVARIANTS NetTypeOK IntactEndToEnd OnlyDuplicatesAreDropped HopsArePaid
