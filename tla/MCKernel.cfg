SPECIFICATION Spec
CONSTANTS
    g1 = g1
    Callers = {g1}
    Environments <- Environs
    EnvVarLists <- Lists
    BaseURLs <- URLs
    HTTPClients <- Clients
    Timeouts = {7}
    RateLimits <- Limits
    Retries <- Retrying
    MaxOptions = 2
    DefaultRequestTimeout = 9
    DefaultMinRemaining = 0
    DefaultMaxWait = 2
    DefaultMaxRetries = 1
    Interval = 2
    Lag = 1
    Horizon = 2
    Methods = {"GET", "POST"}
    Statuses = {200, 400, 401, 403, 429, 503}
    MintStatuses = {401}
    Snapshots <- Budgets
    Endings = {"Canceled", "DeadlineExceeded", "timeout"}
    MaxWraps = 1
INVARIANTS
    TypeOK
    AttemptsBounded
    Authenticated
    RejectedUnsent
    RightSentinel
    SDKErrorKept
PROPERTY EveryAttemptPaced
