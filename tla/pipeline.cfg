CONSTANTS
    m1 = m1
    w1 = w1
    w2 = w2
    r1 = r1
    r2 = r2
    NoMedia = NoMedia
    NoWorker = NoWorker
    Media <- OneMedia
    Workers <- TwoWorkers
    Relays <- OneRelay
    Watched <- NoMedias
    MaxEvents = 2
    MaxRows = 4
    BatchSize = 2
    MaxAttempts = 2
    MaxStalls = 1
    Faults = {"crash", "db"}
SPECIFICATION Spec
SYMMETRY WorkerSymmetry
INVARIANTS
    Structure
    
    ReadyIsServable
    
CHECK_DEADLOCK FALSE
