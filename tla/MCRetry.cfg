SPECIFICATION Spec
CONSTANTS
    Methods = {"GET", "POST"}
    RetryAfters <- SomeRetryAfters
    Faults = {"err", "cancel", "body"}
    Enabled = TRUE
    MaxRetries = 3
    InitialBackoff = 2
    MaxBackoff = 7
    Second = 2
    MaxDuration = 16
INVARIANTS
    TypeOK
    AtMostOnce
    BodiesIntact
    
CHECK_DEADLOCK FALSE
