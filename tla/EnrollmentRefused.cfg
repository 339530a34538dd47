\* MicroMDM answers one post with an error.
CONSTANTS
    Topics = {"Authenticate", "TokenUpdate", "CheckOut", "Acknowledge", "QueryResponses"}
    Workers = {w1}
    Profiles = {p1}
    SharedProfiles = {p1}
    Apps = {a1}
    MaxBuild = 1
    ClearDeviceOnEnroll = FALSE
    PushNewBuild = TRUE
    FetchAtStart = FALSE
    FaultKinds = {"refused"}
    MaxFaults = 1
SPECIFICATION Spec
INVARIANT PackagesAtEnrollment
