\* Every deployment, every device, one answer handled at a time.
CONSTANTS
    Workers = {w1}
    SignChoices = {TRUE, FALSE}
    PresignedChoices = {TRUE, FALSE}
    PathChoices = {TRUE, FALSE}
    Others = {"foreign", "broken"}
    MaxSigning = 2
    FaultKinds = {"failed", "refused", "database", "crash"}
    MaxFaults = 1
SPECIFICATION FairSpec
INVARIANT TypeOK
PROPERTIES Renewed Resigned NotSentAgain ProfilesVerifiedOrStuck
