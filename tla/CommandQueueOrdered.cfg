\* MicroMDM's calls are handled one by one; commands are sent beside them.
CONSTANTS
    Workers = {w1}
    Senders = {s1}
    MaxCommands = 2
    MaxEvents = 1
    MaxDeferrals = 1
    FaultKinds = {"failed", "refused", "database", "crash"}
    MaxFaults = 1
SPECIFICATION FairSpec
INVARIANTS TypeOK PendingIsOpen
PROPERTIES PromiseKept CommandsSettle
