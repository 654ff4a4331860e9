SPECIFICATION BSpec
CONSTANTS
    Loop = Loop
    NoOwner = NoOwner
    Devices = {d1}
    Owners = {o1, o2}
    SignOuts = {}
    MaxGen = 2
    MaxBacklog = 1
SYMMETRY Symmetry
INVARIANTS NoGhost
PROPERTIES ShownWhileConnected
