\* One request of a device at a time; two faults of any kind.
SPECIFICATION FairSpec
CONSTANTS
    Devices = {d1}
    MdmDevices = {d1}
    Workers = {w1}
    Checkins = {c1, c2}
    WaitLimit = 1
    MaxBacklog = 2
    FaultKinds <- AllFaults
    MaxFaults = 2
INVARIANTS TypeOK FetchedAll OneCheckin InfoOncePerInterval
PROPERTY InfoEventuallyRequested
