\* One device, whose initial tasks two goroutines may run at once, two packages, one request at
\* a time, one fault of any kind.
CONSTANTS
    Devices = {d1}
    Packages = {p1, p2}
    Callers = {c1}
    Workers = {w1, w2}
    FaultKinds = {"failed", "refused", "database", "crash"}
    MaxFaults = 1
SPECIFICATION Spec
INVARIANTS TypeOK InstalledAtEnrollment PostReaches
