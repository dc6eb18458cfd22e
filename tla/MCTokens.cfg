SPECIFICATION Spec
CONSTANTS
    Requests = {"r1", "r2"}
    Kinds = {"repo", "apps"}
    Lifetimes = {0, 2, 4}
    Skews <- ServerAhead
    Latency = 1
    JWTCap = 7
    jwtTTL = 7
    jwtBackdate = 2
    tokenRefreshLead = 2
INVARIANTS TypeOK OneMint SharedTokenValid JWTAccepted
