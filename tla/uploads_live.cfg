CONSTANTS
    f1 = f1
    a1 = a1
    a2 = a2
    r1 = r1
    r2 = r2
    NoFile = NoFile
    NoAsset = NoAsset
    Files <- OneFile
    Assets <- OneAsset
    Requests <- TwoRequests
    Faults = {"storage", "db", "expiry"}
SPECIFICATION FairSpec
CHECK_DEADLOCK FALSE
PROPERTIES
    FollowsLifecycle
    AbandonedIsCleaned
