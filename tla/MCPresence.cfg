SPECIFICATION PresenceLiveSpec
CONSTANTS
    Sockets = {s1, s2}
    Tasks = {k1, k2}
    NoTask = NoTask
    MaxQueued = 2
    MaxFrames = 3
INVARIANTS  CheckedInTime
PROPERTIES ReturnKeeps AbsentReleased
CHECK_DEADLOCK FALSE
