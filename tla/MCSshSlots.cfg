SPECIFICATION Spec
CONSTANTS
    Loop = Loop
    NoOwner = NoOwner
    Devices = {d1}
    Owners = {o1, o2}
    SignOuts = {out1}
    MaxGen = 2
INVARIANTS OneLiveSession ClientReleased SlotInv
PROPERTIES NeverStolen AnswerHarmless
SYMMETRY Symmetry
