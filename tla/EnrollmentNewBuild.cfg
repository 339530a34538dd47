\* A device that is set up reports a newer build.
CONSTANTS
    Topics = {"Authenticate", "TokenUpdate", "CheckOut", "Acknowledge", "QueryResponses"}
    Workers = {w1}
    Profiles = {p1}
    SharedProfiles = {p1}
    Apps = {a1}
    MaxBuild = 2
    ClearDeviceOnEnroll = FALSE
    PushNewBuild = TRUE
    FetchAtStart = FALSE
    FaultKinds = {}
    MaxFaults = 1
SPECIFICATION Spec
PROPERTY NewBuildRepushed
