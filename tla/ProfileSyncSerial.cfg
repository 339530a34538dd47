\* One call, one verification at a time, whatever the tables hold; two faults of any kind.
SPECIFICATION FairSpec
CONSTANTS
    Ids = {p1}
    Versions = {v1, v2}
    Sign = TRUE
    Callers = {c1}
    Workers = {w1}
    Requests <- AllRequests
    MaxCalls = 1
    FaultKinds = {"failed", "refused", "database", "crash"}
    MaxFaults = 2
INVARIANTS TypeOK PostedKept OneSharedRow
PROPERTIES LeftAlone Converges
