SPECIFICATION IngressSpec
CONSTANTS
    Addresses <- MCAddresses
    DataStart = 2
    MaxIpBytes = 5
    Keys = {0, 1, 2}
    ShardCount = 1
    MinPerShard = 1
    DefaultEntries = 2
    EntriesCap = 4
    MaxLimiters = 2
    Unlimited = 9
    NoEntries = 99
    Builders = {"w1", "w2", "w3"}
    Schemas = {"s1", "s2", "s3", "bad"}
    BadSchemas = {"bad"}
    SchemaHash <- MCHash
    CacheCap = 1
    Workloads <- MCWorkloads
    FastSchemas = {"s1"}
    RateKey <- MCRateKey
INVARIANTS
    SharedWhileCached
    AcceptedBodiesConform
    WindowBound
    OneBudget
    
    
    NearestHopDecides
PROPERTIES
    RemainingExact
CHECK_DEADLOCK FALSE
