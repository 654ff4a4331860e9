SPECIFICATION PSpec
CONSTANTS MaxRuns = 2
INVARIANTS OverIsOver
CHECK_DEADLOCK FALSE
