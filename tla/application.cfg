SPECIFICATION Spec
CONSTANTS
    Users = {u1, u2}
    HandlePages = {p1, p2}
    HandleNames = {a, b, c}
    ReservedHandles = {}
    MalformedHandles = {}
    Quarantine = 1
    Cooldown = 1
    MaxTime = 2
    Nobody = Nobody
    NoHandle = NoHandle
    Tabs = {t1, t2}
    Roles = {r1}
    Images = {i1}
    StepRoles = 1
    ProfileRoles = 1
    MaxVersion = 2
    NoImage = NoImage
    NoTab = NoTab
    Logins = {l1, l2, l3}
    IpLimit = 1
    FailureLimit = 1
    Window = 2
    Delay = 1
    MaxClock = 3
    Calls = {c1, c2}
    MaxTokens = 3
    Items = {f1, f2}
    Parts = {1, 2, 3}
    ParallelFiles = 1
    Lanes = 2
    Attempts = 2
    MaxRenewals = 1
    MaxRetries = 1
    Viewers = {v1, v2}
    Connections = {n1, n2, n3}
    OfflineAfter = 2
    NoConnection = NoConnection
    Assets = {1, 2, 3}
    CreatedAt <- MCCreatedAt
    PageSize = 1
    MaxEvents = 1
    MaxDetails = 1
    MaxChanges = 1
    Jobs = {"a", "b"}
    Tasks = {"a1", "a2", "a3", "b1"}
    JobOf <- MCJobOf
    Threads = {1, 2, 3, 4}
    PoolSize = 2
    Share = 2
    NoTask = NoTask
    StandardWidths = {320, 640, 1024, 1600, 2400, 3840}
    MaxPixels = 8294400
    ReferenceWidth = 1600
    Quality <- MCQuality
    SearchSteps = 5
    Bump = 5
    MaxBumps = 2
    ParallelWidths = 2
    Originals <- MCOriginals
    Needs <- MCNeeds
    OtherNeeds = {83, 101}
    NoQuality = NoQuality
    OutboxIds = {1, 2}
    BatchSize = 2
    Clients = {d1, d2, d3}
    NoClient = NoClient
    Uploads <- MCUploads
    Decoded <- MCDecoded
    MaxIfds = 2
    MaxInputPixels = 2
    MaxQueue = 8
    Side = 3
    Kernel <- MCKernel
    MaxAlpha = 2
    Background = 3
    Frames <- MCFrames
    Encodes <- MCFrames
    Thumbnails <- MCThumbnails
    PaletteColors = 3
    MaxIterations = 2
    White = 96
    Flare = 5
    HexStep = 3
    Halvings = 8
    MaxSubmits = 2
    Zones <- MCZones
    Found <- MCFound
    Texts = {"", "  ", "cut", " cut", "sound", "light"}
    Trimmed <- MCTrimmed
    NoText = ""
    SavedRoles <- MCSavedRoles
    TagLimit = 2
    MaxDepth = 3
    JobRuns = {1, 2}
    Sizes = {"avif", "webp"}
    PutLanes = {1, 2}
    Encodings = {"x", "y"}
    StoredOriginals = {"whole", "other"}
    Declared = "whole"
INVARIANTS
    TypeOK
    QuarantineHolds
    WindowHolds
    WaitingHasAReason
    StoppedSendsNothing
    
    PagesAreComplete
    NobodyWaitsInVain
    SearchFindsLightest
    WorkIsScheduled
    SourceIsFaithful
    StatisticsAreDirect
    PaletteIsFaithful
    FailuresAreTold
    InputIsTakenOnce
    RowsDescribeObjects
PROPERTIES
    ActsAsRegistry
    
    
    
    KeptWhenUnsure
    PublishesAtOnce
VIEW View
CHECK_DEADLOCK FALSE
