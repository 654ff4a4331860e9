SPECIFICATION StoreSpec
CONSTANTS
    Devices = {d1, d2, d3}
    Configs = {c1}
    Absent = Absent
    Missing = Missing
    Corrupt = Corrupt
    Unavailable = Unavailable
    MaxDevices = 2
SYMMETRY Symmetry
INVARIANTS AlwaysACopy CacheIsPrimary
PROPERTIES ImplementsDurableList
