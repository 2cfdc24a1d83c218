SPECIFICATION LibrarySpec
CONSTANTS
    Ops = {"f", "b"}
    FastOps = {"f"}
    Inputs = {i1, i2}
    Memoized <- MCMemoized
    NoKey = NoKey
    SingleAfter = 1
    KeyWarmup = 1
    KeyProbeEvery = 2
    MinBatchMin = 2
    MaxBatchMin = 3
    MaxLoads = 3
    MaxOthers = 1

    Secrets = {"k1", "k2"}
    CookieValues <- MCCookies
    SessionInputs <- MCSessions
    JwtInputs <- MCJwts
    Plaintexts <- MCPlaintexts
    Nonces = {0, 1}
    HMAC_KEY_CACHE_CAP = 1
    CLOCK_SKEW_LEEWAY_SECS = 1
    MaxIssued = 2
    MaxNow = 2

    HexInputs <- MCHex
    TextInputs <- MCTexts
    Payloads <- MCPayloads
    EventInputs <- MCEvents
    HexChunk = 4
    ShortMax = 1
    MediumMax = 3
    Capacities = {0, 1, 3, 5, 13}

    LineInputs <- MCLines
    Widths = {1, 2}
    IpInputs <- MCIps
    UuidLength = 36
    PatternInputs <- MCPatterns

    QueryInputs <- MCQueries
    CookieInputs <- MCCookieLists
    RequestInputs <- MCRequests
    PartInputs <- MCParts
    MultipartLimits <- MCLimits
    MaxHeaders = 2
    Inherited <- MCInherited

    AcceptInputs <- MCAccepts
    Supported <- MCSupported
    MAX_STACK_PREFS = 2
    MediaInputs <- MCMedia
    MediaParams <- MCMediaParams
    Tags = {0, 255, 1000000000}
    DayInputs <- MCDays
    SecondInputs = {0, 59, 3600, 86399}
    BaseInputs <- MCBases
    RefInputs <- MCRefs
    ParamInputs <- MCParams

    BatchInputs <- MCBatches
    Verdict <- MCVerdict
    Number <- MCNumber
    Mapped <- MCMapped
    MinScratch = 8
    ByteBits = 2
    MinChunk = 1
    ParItems = 3
    ParBytes = 99
    MaxI64 = 4

    Sizes = {0, 66, 65536}
    Seconds = {0, 19}
    Outputs = {50, 300}
    AnyLength = 70000

    Schemas <- MCSchemas
    Documents <- MCDocuments
    TargetLists <- MCTargets
    Emails = {"abc"}
    MAX_DEPTH = 6
    MaxRequired = 2
    PatchDocuments <- MCPatchDocuments
    Patches <- MCPatches
    BatchPatches <- MCBatchPatches
    MaxInput = 99
    MaxOutput = 6

    Threads = {t1, t2}
    Declarations <- MCDeclarations
    RecordBatches <- MCRecords
    ShardOf <- MCShardOf
    METRICS_SHARDS = 2
    METRICS_MAX_FAMILIES = 2
    METRICS_MAX_LABELS = 2
    METRICS_MAX_BUCKETS = 3
    METRICS_DEFAULT_BUCKETS <- MCDefaultBuckets
    Infinite = 99
    MaxMetricCalls = 4

    MeterNames = {"m", "dropped"}
    SERIES_DROPPED_METRIC = "dropped"
    LabelNames = {{"a"}}
    LabelSets <- MCLabelSets
    MeterKinds = {"counter", "gauge", "histogram"}
    UpperBounds <- MCUpperBounds
    MeterAmounts = {2}
    MAX_SERIES_PER_METRIC = 2
    MaxMeterCalls = 5

    InitialSize = 2
    AskedSizes = {1, 3}
    MaxBuffers = 2
    MaxInFlight = 0
    Prefill = 1
    Estimates = {4}
    MaxCreated = 4
    MaxObjects = 5
SYMMETRY MCInputSymmetry
INVARIANTS
    
    
    CodecsInvert
    BatchesFaithful
    ValidatorsExact
    
    
    NativeCallsHonest
    SchemaFaithful
    
    PatchesAsAsked
    MetricsHonest
    MetersHonest
    OneHolder
CHECK_DEADLOCK FALSE
