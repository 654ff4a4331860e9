SPECIFICATION RLiveSpec
CONSTANTS MaxRuns = 2
INVARIANTS OneRun ForcedForCause NoOrphan
PROPERTIES CancelEnds
CHECK_DEADLOCK FALSE
