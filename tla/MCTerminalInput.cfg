SPECIFICATION ISpec
CONSTANTS
    Sockets = {s1, s2}
    NoSocket = NoSocket
    MaxPending = 1
    MaxSize = 2
    MaxClaims = 2
    MaxTyped = 2
SYMMETRY Symmetry
INVARIANTS OnlyControllers InOrder ControlKnown SizeSettles PasswordKept InterruptNext
CHECK_DEADLOCK FALSE
