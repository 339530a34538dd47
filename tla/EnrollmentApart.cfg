\* Two requests of the device at a time but for the overlaps that do harm, the fetch
\* of the device list, sends that fail, crashes.
CONSTANTS
    Topics = {"Authenticate", "TokenUpdate", "CheckOut", "Acknowledge", "QueryResponses"}
    Workers = {w1, w2}
    Profiles = {p1}
    SharedProfiles = {p1}
    Apps = {a1}
    MaxBuild = 1
    ClearDeviceOnEnroll = FALSE
    PushNewBuild = TRUE
    FetchAtStart = TRUE
    FaultKinds = {"failed", "database", "crash"}
    MaxFaults = 1
SPECIFICATION ApartSpec
SYMMETRY WorkerSymmetry
INVARIANTS TypeOK ConfiguredAfterTasks ReleasedLast
PROPERTY PromiseKept
