SPECIFICATION FairSpec
CONSTANTS
    MAX_ROWS = 2
    MAX_COLS = 3
    LastCol = 2
    W = 8
    Messages <- MCMessages
    Key <- MCKey
    Str <- MCStr
    MaxCalls = 3
    Space = 5
    Bytes = {0, 1, 200}
    MaxCount = 3
INVARIANTS
    MessagesWhole
    ScreenShowsOutput
PROPERTIES
    PanicReported
