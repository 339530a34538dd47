\* Two calls at a time, with an escrow server and two faults of any kind.
SPECIFICATION Spec
CONSTANTS
    Workers = {w1, w2}
    RandomPins = {p1}
    FixedPins = {}
    NoPin = noPin
    EscrowURL = TRUE
    MaxPins = 1
    FaultKinds = {"failed", "refused", "lookup", "crash"}
    MaxFaults = 2
SYMMETRY Symmetry
INVARIANT PinEscrowed
