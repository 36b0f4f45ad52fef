CONSTANTS
    n1 = n1
    n2 = n2
    n3 = n3
    n4 = n4
    m1 = m1
    m2 = m2
    m3 = m3
    m4 = m4
    m5 = m5
    Frame <- MCFrame
    NoNode = NoNode
    NoData = NoData
    Garbled = Garbled
    BroadcastNode = BroadcastNode
    WireHeaderBytes = 1
    MaxMessageBytes = 8
    MaxByte = 7
    Node <- LineNode
    Interfaces <- LineInterfaces
    Routes <- LineRoutes
    Sender <- LineSender
    Dest <- LineDest
    Bytes <- LineBytes
    Msg = {m1, m2, m3, m4, m5}
    MaxReassemblies = 3
    MaxRecent = 1
    TouchModulus = 2
    MaxTouch = 2
    MaxCompletions = 5
    DefaultHopLimit = 2
    IdModulus = 4
SPECIFICATION CleanSpec
INVARIANT Delivered
PROPERTY TrafficDiesOut
CHECK_DEADLOCK FALSE
