CONSTANTS
    f1 = f1
    a1 = a1
    a2 = a2
    r1 = r1
    r2 = r2
    NoFile = NoFile
    NoAsset = NoAsset
    Files <- OneFile
    Assets <- TwoAssets
    Requests <- OneRequest
    Faults = {"crash"}
SPECIFICATION Spec
INVARIANT
    MissingMeansExpired
CHECK_DEADLOCK FALSE
