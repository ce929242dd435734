CONSTANTS
    m1 = m1
    w1 = w1
    w2 = w2
    r1 = r1
    r2 = r2
    NoMedia = NoMedia
    NoWorker = NoWorker
    Media <- OneMedia
    Workers <- TwoWorkers
    Relays <- TwoRelays
    Watched <- OneMedia
    MaxEvents = 1
    MaxRows = 4
    BatchSize = 2
    MaxAttempts = 2
    MaxStalls = 1
    Faults = {"lock", "db"}
SPECIFICATION Spec
INVARIANTS
    BatchesAreExclusive
    AnnouncedReadyIsReady
PROPERTY
    FollowsLifecycle
CHECK_DEADLOCK FALSE
