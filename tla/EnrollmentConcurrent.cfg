\* Two requests of the device at a time, the fetch of the device list, every fault.
CONSTANTS
    Topics = {"Authenticate", "TokenUpdate", "Acknowledge"}
    Workers = {w1, w2}
    Profiles = {}
    SharedProfiles = {}
    Apps = {}
    MaxBuild = 1
    ClearDeviceOnEnroll = TRUE
    PushNewBuild = TRUE
    FetchAtStart = TRUE
    FaultKinds = {"failed", "refused", "database", "crash"}
    MaxFaults = 1
SPECIFICATION FairSpec
INVARIANT FlagsConsistent
PROPERTY TasksEventuallyRun
