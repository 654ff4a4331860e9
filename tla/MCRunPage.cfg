SPECIFICATION PSpec
CONSTANTS MaxRuns = 2
INVARIANTS PageSettles
CHECK_DEADLOCK FALSE
