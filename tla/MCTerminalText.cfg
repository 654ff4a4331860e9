SPECIFICATION TSpec
CONSTANTS
    MaxRead = 7
    MaxChunk = 3
    MaxLines = 1
    MaxColumns = 2
INVARIANTS GateExact OutputWhole
CHECK_DEADLOCK FALSE
