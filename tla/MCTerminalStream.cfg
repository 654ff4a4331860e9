SPECIFICATION SLiveSpec
CONSTANTS
    Pages = {p1}
    MaxUnacked = 1
    MaxSeq = 3
    MaxConnects = 3
INVARIANTS NoGap CaughtUp
PROPERTIES ReadGoesOn Reaches
CHECK_DEADLOCK FALSE
