CONSTANTS
    a = a
    b = b
    c = c
    d = d
    big = big
    n1 = n1
    n2 = n2
    Node <- MCNode
    Frame <- MCFrame
    NoNode = NoNode
    NoData = NoData
    WireHeaderBytes = 1
    MaxMessageBytes = 8
    MaxByte = 7
    MaxReassemblies = 2
    MaxRecent = 2
    TouchModulus = 5
    MaxTouch = 5
    MaxCompletions = 4
SPECIFICATION EvictionSpec
INVARIANTS TypeOK TablesAgree SlotAccounts NoRepeatInWindow MessagesAreWhole KeptUnderPressure
