CONSTANTS
    a = a
    b = b
    c = c
    d = d
    big = big
    n1 = n1
    n2 = n2
    n3 = n3
    all = all
    Node <- MCNode
    Frame <- MCFrame
    Source = {tr}
    LocalNode = n1
    BroadcastNode = all
    Transport = tr
    NoFrame = NoFrame
    NoNode = NoNode
    NoData = NoData
    WireHeaderBytes = 1
    MaxMessageBytes = 8
    MaxByte = 7
    MaxReassemblies = 2
    MaxRecent = 1
    TouchModulus = 100
    MaxTouch = 7
    MaxCompletions = 3
SPECIFICATION SerialSpec
INVARIANTS DeliveryTypeOK PassedOnWhole EventsTellPassed OnlyThrowsLeak
PROPERTY StepsOfReassembly
