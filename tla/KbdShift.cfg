SPECIFICATION Spec
CONSTANTS
    BiosMask = {3, 4, 5, 7, 9, 10, 11, 15}
    Devices = {0}
    Uart = TRUE
    Keys = {"LSHIFT", "a"}
    Repeat = TRUE
    MaxRaise = 0
    MaxEvents = 3
    MaxWire = 2
INVARIANTS
    ShiftTracksKey
