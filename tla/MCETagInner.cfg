SPECIFICATION Spec
CONSTANTS
    r1 = r1
    r2 = r2
    Requests = {r1, r2}
    Credentials = {"", "a", "b"}
    URLs = {"u"}
    Versions = {1, 2}
    Sizes = {1, 2}
    Setups <- BlindServers
    MaxEntries = 1
    MaxBodyBytes = 0
    DefaultETagEntries = 3
    defaultETagMaxBodyBytes = 1
INVARIANT CredentialsApart
