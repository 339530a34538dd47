\* One call at a time; the lookup of the saved PIN fails once.
SPECIFICATION Spec
CONSTANTS
    Workers = {w1}
    RandomPins = {p1, p2}
    FixedPins = {f1}
    NoPin = noPin
    EscrowURL = TRUE
    MaxPins = 2
    FaultKinds = {"lookup"}
    MaxFaults = 1
INVARIANT PinPresent
