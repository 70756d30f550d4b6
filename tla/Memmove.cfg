SPECIFICATION Spec
CONSTANTS
    Space = 4
    Bytes = {0, 1, 200}
    MaxCount = 3
INVARIANTS
    MemmoveAsPromised
