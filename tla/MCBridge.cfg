SPECIFICATION FairSpec
CONSTANTS
    Peers = {p1}
    MaxStarts = 3
    MaxDrawn = 5
    Misreads = TRUE
INVARIANTS BundlesVerify ResetIsFinal SessionsUsable RegistrationStable KeyFileOpensDatabase SchemaComplete
PROPERTIES ComesUp
CHECK_DEADLOCK FALSE
