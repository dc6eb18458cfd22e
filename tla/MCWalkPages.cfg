SPECIFICATION FairSpec
CONSTANTS
    Options <- MixedOptions
    Collections <- MixedCollections
    Faults = {"fetch", "callback", "Canceled", "DeadlineExceeded"}
INVARIANTS
    TypeOK
    InOrderDelivery
    NoPageStranded
    CompleteOnSuccess
    ErrorNamesPage
    NoWorkerLeaks
    ProgressReachesTotal
    NeverStuck
PROPERTIES
    ImplementsStream
    MovesForward
    Termination
CHECK_DEADLOCK FALSE
