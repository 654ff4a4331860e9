SPECIFICATION SessionsSpec
CONSTANTS
    Tokens = {t1, t2}
    Requests = {r1, r2}
    NoToken = NoToken
    Nobody = Nobody
    MaxGen = 2
    FreeTries = 1
SYMMETRY Symmetry
INVARIANTS StaysSignedIn SignedOutStays ResetEndsSessions DelayHolds
