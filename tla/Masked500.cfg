SPECIFICATION Spec
CONSTANTS
    Readers = {d1, d2}
    Uploads <- MCUploads
    Runtimes = {"bun", "node"}
    RouteKinds = {"write", "native", "echo"}
    BodyLimit = 2
    BodyTimeouts = {0, 2}
    SWEEP_MS = 2
    Connections = {s1, s2}
    Responses <- MCResponses
    StaticChunks = 1
    MaxRequests = 2
    RouteSpecs <- MCRouteSpecs
    RouteTables <- MCRouteTables
    Paths <- MCPaths
    Decoded <- MCDecoded
    RoutePlans <- MCRoutePlans
    RouteBodies <- MCRouteBodies
    RoutePairs <- MCRoutePairs
    OutSizes = {256, 400}
INVARIANT NoClientHangs
CHECK_DEADLOCK FALSE
