SPECIFICATION Spec
CONSTANTS
    Radix = 4
    sz = 20
    Block = 8
    SpaceSize = 256
    Stacks <- MCStacks
    Images <- MCImages
INVARIANTS
    OnlyProcessMemory ArgumentsSound AcceptsExactly
