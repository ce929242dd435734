CONSTANTS
    t1 = t1
    t2 = t2
    t3 = t3
    r1 = r1
    r2 = r2
    NoToken = NoToken
    NoChange = NoChange
    NoFamily = 0
    Families <- TwoFamilies
    Tokens <- ThreeTokens
    Requests <- TwoRequests
    Faults = {"db", "redis", "expiry"}

SPECIFICATION Spec

SYMMETRY RequestSymmetry

INVARIANTS
    SessionInvariant
    DeniedIsClosed
    NoFalseReuse

CHECK_DEADLOCK FALSE
