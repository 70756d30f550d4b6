SPECIFICATION Spec
CONSTANTS
    N = 8
    KernPage = 32
    PhysPages = 13
    HeapStart = 2
    Acpi = 14
    AcpiPages = 1
    Dev = 60
    DevPages = 2
    Early <- MCEarly
    Late <- MCLate
    PGSIZE = 4
    InitSizes = {3, 4}
INVARIANT InitcodeLoaded
