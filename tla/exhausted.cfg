CONSTANTS
    m1 = m1
    w1 = w1
    w2 = w2
    r1 = r1
    r2 = r2
    NoMedia = NoMedia
    NoWorker = NoWorker
    Media <- OneMedia
    Workers <- OneWorker
    Relays <- OneRelay
    Watched <- NoMedias
    MaxEvents = 1
    MaxRows = 4
    BatchSize = 1
    MaxAttempts = 3
    MaxStalls = 1
    Faults = {"db"}
SPECIFICATION Spec
INVARIANT
    ExhaustedIsFailed
CHECK_DEADLOCK FALSE
