SPECIFICATION Spec
CONSTANTS
    KERNBASE = 1073741824
    KEnd = 1077927836
    PhysEnd = 4203008
    AddrMax = 2147483647
    Sentinel = Sentinel
    Data = Data
    Foreign = Foreign
INVARIANTS
    FreeListExact Conservation NeverPanics
PROPERTIES
    DataStays ImplementsPool
