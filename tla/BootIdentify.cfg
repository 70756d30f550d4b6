CONSTANTS
    ExtPage = 256
    Top = 1048576
    KernBase = 524288
    DevSpace = 1040384
    DevPages = 3840
    MAX_CPUS = 16
    MAX_IOAPIC = 4
    UartPolls = 2
    Announcement = 3
    IDE_WAIT_CYCLES = 3
    FSSIZE = 1000
    Machines <- MCMachines

SPECIFICATION Spec

INVARIANT FoundIsPata

CHECK_DEADLOCK FALSE
