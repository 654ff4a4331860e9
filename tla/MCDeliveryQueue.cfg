SPECIFICATION DLiveSpec
CONSTANTS
    Workers = {w1, w2}
    Notice = Notice
    Sizes = {1, 2}
    TermBytes = 2
    TermItems = 2
    MaxBatches = 1
    MaxNotices = 2
INVARIANTS BytesExact NoLostWakeup
PROPERTIES  Drained OfferReturns
CHECK_DEADLOCK FALSE
