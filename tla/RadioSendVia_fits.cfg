CONSTANTS
    WireHeaderBytes = 15
    MaxMessageBytes = 4096
    MaxByte = 255
    Mtu = {0, 15, 16, 17, 32, 250, 269, 270, 271, 1500}
    Size = {0, 1, 2, 17, 254, 255, 256, 510, 511, 512, 3841, 3842, 4080, 4081, 4096, 4097}
SPECIFICATION Spec
INVARIANT AcceptedFitsReceiver
CHECK_DEADLOCK FALSE
