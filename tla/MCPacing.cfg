SPECIFICATION Spec
CONSTANTS
    r1 = r1
    r2 = r2
    r3 = r3
    r4 = r4
    Requests = {r1, r2, r3, r4}
    interval = 4
    Lag = 2
    Cancels = TRUE
    Horizon = 12
INVARIANTS
    TypeOK
    SlotsSpaced
PROPERTIES
    StartsSpaced
SYMMETRY Senders
