SPECIFICATION FairSpec
CONSTANTS
    BiosMask = {3, 5, 7, 9, 10, 11, 15}
    Devices = {0, 4, 8, 14}
    Uart = TRUE
    Keys = {"LSHIFT", "KPSLASH", "a"}
    Repeat = TRUE
    MaxRaise = 1
    MaxEvents = 3
    MaxWire = 1
INVARIANTS
    AckedExactly
    OnlyBiosLinesPanic
    KeysInOrder
PROPERTIES
    EveryIrqServed
