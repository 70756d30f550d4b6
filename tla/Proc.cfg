SPECIFICATION FairSpec
CONSTANTS
    NPROC = 3
    MaxInit = 4
    PidMax = 7
    Status = {0, 1}
    Bad = Bad
INVARIANTS
    OnlyExpectedPanics OneCurrentProcess LockHandover TfIsCurrent
PROPERTIES
    ImplementsLifecycle EveryProcessRuns SyscallCompletes
