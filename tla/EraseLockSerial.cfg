\* One call of EraseLockDevice at a time, no escrow server, two faults of any kind.
SPECIFICATION FairSpec
CONSTANTS
    Workers = {w1}
    RandomPins = {p1, p2}
    FixedPins = {f1}
    NoPin = noPin
    EscrowURL = FALSE
    MaxPins = 2
    FaultKinds = {"failed", "refused", "lookup", "crash"}
    MaxFaults = 2
INVARIANTS TypeOK NoDuplicate OneRecentPin
PROPERTIES EraseEventuallyQueued OperatorPinKept
