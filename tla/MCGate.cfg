SPECIFICATION FairSpec
CONSTANTS
    c1 = c1
    c2 = c2
    Calls = {c1, c2}
    Setups <- AllSetups
INVARIANTS
    TypeOK
    OneProbeAtATime
    WakesAtReset
PROPERTY CallsEnd
