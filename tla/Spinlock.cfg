SPECIFICATION FairSpec
CONSTANTS
    Locks = {ptable, cons}
    NoLock = NoLock
    MaxDepth = 3
    MaxCalls = 3
INVARIANTS NeverStuck InterruptsOff FlagRestored
PROPERTIES InterruptsComeBack ImplementsMutex
