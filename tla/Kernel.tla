------------------------------- MODULE Kernel --------------------------------
(***************************************************************************)
(* A Kernel from its options to the errors its callers see: New (client.go)*)
(* resolves the options (options.go) and stacks the transports, goroutines *)
(* send requests through the stack and probes through the prober's, and    *)
(* ClassifyError (errors.go) names what comes back.                        *)
(*                                                                         *)
(* A request walks down the stack and its answer walks up, one layer a     *)
(* step, so that what a layer sees follows from where New put it.  Each    *)
(* layer is modelled by its effect on the others; RateGate, RetryStack,    *)
(* ETagCache and Pacing have their arithmetic and their critical sections. *)
(***************************************************************************)
EXTENDS Errors, FiniteSets

CONSTANTS
    Callers,        \* goroutines
    Environments,   \* sets of environment variables that are set
    EnvVarLists,    \* arguments of WithAuthTokenFromEnv
    BaseURLs,       \* arguments of WithBaseURL: [empty, parses, host, slash]
    HTTPClients,    \* arguments of WithHTTPClient: [set, transport, timeout]
    Timeouts,       \* arguments of WithTimeout
    RateLimits,     \* arguments of WithRateLimitOptions: [MinRemaining, MaxWait]
    Retries,        \* arguments of WithRetryOptions: [MaxRetries]
    MaxOptions,     \* bound: different options given to New
    DefaultRequestTimeout, DefaultMinRemaining, DefaultMaxWait,
    DefaultMaxRetries,
    Interval,       \* the argument of WithSecondaryPacing
    Lag,            \* ticks that a goroutine may be late once its slot has come
    Horizon,        \* bound: no slot further away than this is asked for
    Methods,        \* of requests, "GET" and "POST"
    Statuses,       \* of responses
    MintStatuses,   \* with which a token source below the kernel may fail
    Snapshots,      \* budgets that a response may report
    Endings,        \* how a context may end: "Canceled", "DeadlineExceeded",
                    \* and "timeout" of http.Client
    MaxWraps        \* bound: how often a caller wraps an error

ASSUME KernelAssumption ==
    /\ DefaultMaxRetries \in Nat /\ DefaultMinRemaining \in Nat
    /\ DefaultMaxWait \in Nat /\ DefaultRequestTimeout \in Nat \ {0}
    /\ Interval \in Nat \ {0} /\ Lag \in Nat /\ Horizon \in Nat
    /\ MaxOptions \in Nat /\ MaxWraps \in Nat
    /\ EnvVarLists \subseteq Seq(STRING)
    /\ BaseURLs \subseteq [empty : BOOLEAN, parses : BOOLEAN, host : BOOLEAN,
                           slash : BOOLEAN]
    /\ HTTPClients \subseteq [set : BOOLEAN, transport : BOOLEAN, timeout : Int]
    /\ Timeouts \subseteq Int
    /\ RateLimits \subseteq [MinRemaining : Int, MaxWait : Int]
    /\ Retries \subseteq [MaxRetries : Int]
    /\ Snapshots \subseteq [remaining : Nat, resetIn : Nat]
    /\ Statuses \subseteq Nat /\ MintStatuses \subseteq Nat \ {0}
    /\ Methods \subseteq {"GET", "POST"}
    /\ Endings \subseteq {"Canceled", "DeadlineExceeded", "timeout"}

VARIABLES
    env,       \* the environment variables that are set
    options,   \* Options, as far as they are applied
    given,     \* the names of the options that are
    kernel,    \* what New has built
    cache,     \* RateLimitCache
    cooling,   \* the prober's cooldown runs
    stored,    \* what the ETag cache has an entry for
    frame,     \* where the request of each goroutine is
    reserved,  \* pacing: ticks until the next slot to grant,
    wait,      \* until the slot of a waiting goroutine,
    late,      \* that a goroutine has let pass since its slot,
    quiet      \* and since an attempt last reached the base transport

pacing == <<reserved, wait, late, quiet>>
shared == <<cache, cooling, stored>>
construction == <<env, options, given, kernel>>
vars == <<construction, shared, frame, pacing>>

-----------------------------------------------------------------------------
(* The options, and what New makes of them. *)

NoSnapshot == [remaining |-> -1, resetIn |-> 0]
Known(s)   == s.remaining >= 0

DefaultBaseURL == [empty |-> TRUE, parses |-> TRUE, host |-> TRUE, slash |-> TRUE]

DefaultRateLimitOptions ==
    [Enabled |-> TRUE, MinRemaining |-> DefaultMinRemaining,
     MaxWait |-> DefaultMaxWait]
DefaultRetryOptions == [Enabled |-> TRUE, MaxRetries |-> DefaultMaxRetries]

resolveDefaults ==
    [Token |-> "", TokenEnvVars |-> <<>>, BaseURL |-> DefaultBaseURL,
     HTTPClient |-> [set |-> FALSE, transport |-> FALSE, timeout |-> 0],
     RequestTimeout |-> DefaultRequestTimeout,
     RateLimit |-> DefaultRateLimitOptions, SecondaryPacing |-> 0,
     Retry |-> DefaultRetryOptions, ETag |-> FALSE]

(* A field that is set overrides its default. *)
Override(value, default) == IF value > 0 THEN value ELSE default

(* The explicit token, or the value of the first variable that is set; an   *)
(* error when variables were named and none is.                             *)
resolveToken(o) ==
    LET i == SelectInSeq(o.TokenEnvVars, LAMBDA name : name \in env)
    IN  IF o.Token # "" THEN [ok |-> TRUE, token |-> o.Token]
        ELSE IF o.TokenEnvVars = <<>> THEN [ok |-> TRUE, token |-> ""]
        ELSE IF i = 0 THEN [ok |-> FALSE, token |-> ""]
        ELSE [ok |-> TRUE, token |-> o.TokenEnvVars[i]]

(* A URL that parses and has a host; a missing slash is appended. *)
ResolveBaseURL(u) ==
    [ok |-> u.empty \/ (u.parses /\ u.host), url |-> [u EXCEPT !.slash = TRUE]]

resolveTimeout(o) ==
    IF o.RequestTimeout \notin {0, DefaultRequestTimeout} THEN o.RequestTimeout
    ELSE IF o.HTTPClient.set /\ o.HTTPClient.timeout > 0
    THEN o.HTTPClient.timeout
    ELSE DefaultRequestTimeout

(* baseTransport, under pacing when there is any. *)
BaseStack(o) ==
    (IF o.SecondaryPacing > 0 THEN <<"pacing">> ELSE <<>>) \o <<"base">>

ProbeStack(o) == <<"retry", "feed">> \o BaseStack(o)

(* Variant: pacing is put on top of retry. *)
StackPacedOutside(o) ==
    <<"gate", "feed">>
    \o (IF o.SecondaryPacing > 0 THEN <<"pacing">> ELSE <<>>) \o <<"retry">>
    \o (IF o.ETag THEN <<"etag">> ELSE <<>>) \o <<"base">>

(* Variant: every attempt passes the gate. *)
StackGateInside(o) ==
    <<"feed", "retry", "gate">>
    \o (IF o.ETag THEN <<"etag">> ELSE <<>>) \o BaseStack(o)

Stack(o) ==
    <<"gate", "feed", "retry">>
    \o (IF o.ETag THEN <<"etag">> ELSE <<>>) \o BaseStack(o)

NoKernel == [built |-> FALSE, failed |-> FALSE, stack |-> <<>>,
             probeStack |-> <<>>, token |-> "", base |-> DefaultBaseURL,
             timeout |-> 0]

-----------------------------------------------------------------------------
(* Requests and their answers. *)

(* What comes up the stack: a response or an error. *)
NoAnswer == [status |-> 0, limit |-> "none", snapshot |-> NoSnapshot,
             err |-> <<>>]

(* Where a request is: about to enter ("down") or to leave ("up") the layer *)
(* at, asleep in it, in flight, with the prober, or returned; its header    *)
(* Authorization, and that of the probe that it waits for (inner) or is;    *)
(* how often it was sent, and (history) what went wrong last and with which *)
(* status.                                                                  *)
Idle == [dir |-> "idle", via |-> "client", inner |-> FALSE, at |-> 0,
         method |-> "GET", auth |-> "", probeAuth |-> "", conditional |-> FALSE,
         attempt |-> 0, sent |-> 0, answer |-> NoAnswer, ctx |-> "live",
         fault |-> "none", code |-> 0, wraps |-> 0]

Layers(f) == IF f.via = "client" THEN kernel.stack ELSE kernel.probeStack
At(f, layer) == f.at \in DOMAIN Layers(f) /\ Layers(f)[f.at] = layer

(* A probe is a GET. *)
Method(f) == IF f.via = "client" THEN f.method ELSE "GET"

Authorization(f) == IF f.via = "client" THEN f.auth ELSE f.probeAuth

Down(f)      == [f EXCEPT !.dir = "down", !.at = @ + 1]
Up(f, a)     == [f EXCEPT !.dir = "up", !.at = @ - 1, !.answer = a]
Failed(f, e) == Up(f, [NoAnswer EXCEPT !.err = e])

Move(g, f) == frame' = [frame EXCEPT ![g] = f]

(* context.Cause, once the context has ended. *)
Cause(f) == <<Layer(IF f.ctx = "timeout" THEN "DeadlineExceeded" ELSE f.ctx)>>

(* A wait or an exchange fails because the context has ended. *)
Cut(f) == [Failed(f, Cause(f)) EXCEPT !.fault = f.ctx]

-----------------------------------------------------------------------------
Init ==
    /\ env \in Environments
    /\ options = resolveDefaults
    /\ given = {}
    /\ kernel = NoKernel
    /\ cache = NoSnapshot /\ cooling = FALSE /\ stored = {}
    /\ frame = [g \in Callers |-> Idle]
    /\ reserved = 0 /\ quiet = Interval
    /\ wait = [g \in Callers |-> 0] /\ late = [g \in Callers |-> 0]

(* An option sets its fields; the last one wins. *)
Apply(name, o) ==
    /\ ~kernel.built
    /\ given' = given \cup {name} /\ Cardinality(given') <= MaxOptions
    /\ options' = o
    /\ UNCHANGED <<env, kernel, shared, frame, pacing>>

WithPAT(token) == Apply("WithPAT", [options EXCEPT !.Token = token])
WithAuthTokenFromEnv(names) ==
    Apply("WithAuthTokenFromEnv",
          [options EXCEPT !.TokenEnvVars =
              IF names = <<>> THEN <<"GITHUB_TOKEN", "GH_TOKEN">> ELSE names])
WithBaseURL(u)    == Apply("WithBaseURL", [options EXCEPT !.BaseURL = u])
WithHTTPClient(c) == Apply("WithHTTPClient", [options EXCEPT !.HTTPClient = c])
(* The user agent is a field that no layer reads. *)
WithUserAgent     == Apply("WithUserAgent", options)
WithTimeout(d)    == Apply("WithTimeout", [options EXCEPT !.RequestTimeout = d])
WithRateLimitOptions(o) ==
    Apply("WithRateLimitOptions",
          [options EXCEPT !.RateLimit =
              [DefaultRateLimitOptions EXCEPT
                  !.MinRemaining = Override(o.MinRemaining, @),
                  !.MaxWait = Override(o.MaxWait, @)]])
WithoutRateLimit ==
    Apply("WithoutRateLimit",
          [options EXCEPT !.RateLimit =
              [Enabled |-> FALSE, MinRemaining |-> 0, MaxWait |-> 0]])
WithSecondaryPacing(d) ==
    Apply("WithSecondaryPacing",
          [options EXCEPT !.SecondaryPacing = IF d < 0 THEN 0 ELSE d])
WithRetryOptions(o) ==
    Apply("WithRetryOptions",
          [options EXCEPT !.Retry =
              [DefaultRetryOptions EXCEPT
                  !.MaxRetries = Override(o.MaxRetries, @)]])
WithoutRetry ==
    Apply("WithoutRetry",
          [options EXCEPT !.Retry = [Enabled |-> FALSE, MaxRetries |-> 0]])
WithETagCache == Apply("WithETagCache", [options EXCEPT !.ETag = TRUE])

Option ==
    \/ WithPAT("pat") \/ WithUserAgent \/ WithoutRateLimit \/ WithoutRetry \/ WithETagCache
    \/ \E names \in EnvVarLists : WithAuthTokenFromEnv(names)
    \/ \E u \in BaseURLs : WithBaseURL(u)
    \/ \E c \in HTTPClients : WithHTTPClient(c)
    \/ \E d \in Timeouts : WithTimeout(d)
    \/ \E o \in RateLimits : WithRateLimitOptions(o)
    \/ \E d \in {-1, Interval} : WithSecondaryPacing(d)
    \/ \E o \in Retries : WithRetryOptions(o)

(* New: an error if the token or the base URL does not resolve, after which *)
(* the program may try again with further options.                          *)
New ==
    LET token == resolveToken(options)
        base  == ResolveBaseURL(options.BaseURL)
    IN
    /\ ~kernel.built
    /\ kernel' = IF ~token.ok \/ ~base.ok THEN [NoKernel EXCEPT !.failed = TRUE]
                 ELSE [built |-> TRUE, failed |-> FALSE, stack |-> Stack(options),
                       probeStack |-> ProbeStack(options),
                       token |-> token.token, base |-> base.url,
                       timeout |-> resolveTimeout(options)]
    /\ UNCHANGED <<env, options, given, shared, frame, pacing>>

-----------------------------------------------------------------------------
(* The gate and the prober. *)

(* A request through the client, which WithAuthToken gives the kernel's     *)
(* token, or RefreshRateLimit.                                              *)
Call(g, m) ==
    /\ kernel.built /\ frame[g].dir \in {"idle", "returned"}
    /\ Move(g, [Idle EXCEPT !.dir = "down", !.at = 1, !.method = m,
                          !.auth = kernel.token])
    /\ UNCHANGED <<construction, shared, pacing>>

RefreshRateLimit(g) ==
    /\ kernel.built /\ frame[g].dir \in {"idle", "returned"}
    /\ Move(g, [Idle EXCEPT !.dir = "probe", !.via = "probe"])
    /\ UNCHANGED <<construction, shared, pacing>>

(* Variant: the estimate is not kept from falling below what is known. *)
SpentUnclamped == [cache EXCEPT !.remaining = @ - 1]

(* RateLimitCache.Decrement(1), when the gate lets a request through. *)
Spent == IF cache.remaining > 0 THEN [cache EXCEPT !.remaining = @ - 1] ELSE cache

GateDecide(g, f, s) ==
    LET limit == options.RateLimit IN
    IF s.remaining > limit.MinRemaining \/ s.resetIn <= 0
    THEN Move(g, Down(f)) /\ cache' = Spent
    ELSE /\ UNCHANGED cache
         /\ IF s.resetIn > limit.MaxWait
            THEN Move(g, [Failed(f, StatusError("ErrRateLimited", 0,
                                                <<Layer("resetTooFarError")>>))
                             EXCEPT !.fault = "gate"])
            ELSE Move(g, [f EXCEPT !.dir = "sleep"])

Gate(g) ==
    LET f == frame[g] IN
    /\ f.dir = "down" /\ At(f, "gate")
    /\ IF ~options.RateLimit.Enabled THEN Move(g, Down(f)) /\ UNCHANGED cache
       ELSE IF Known(cache) THEN GateDecide(g, f, cache)
       ELSE /\ Move(g, [f EXCEPT !.dir = "probe", !.inner = TRUE])
            /\ UNCHANGED cache
    /\ UNCHANGED <<construction, cooling, stored, pacing>>

GateSleep(g) ==
    LET f == frame[g] IN
    /\ f.dir = "sleep" /\ At(f, "gate")
    /\ \/ Move(g, Down(f)) /\ cache' = Spent
       \/ f.ctx # "live" /\ Move(g, Cut(f)) /\ UNCHANGED cache
    /\ UNCHANGED <<construction, cooling, stored, pacing>>

(* probe returns: the gate lets the request pass after a failed probe and   *)
(* decides on the snapshot of a successful one.                             *)
ProbeReturns(g, err, fault) ==
    LET gate == SelectInSeq(kernel.stack, LAMBDA layer : layer = "gate")
        f == [Idle EXCEPT !.dir = "down", !.at = gate,
                          !.method = frame[g].method, !.auth = frame[g].auth,
                          !.ctx = frame[g].ctx]
    IN  IF ~frame[g].inner
        THEN /\ Move(g, [Idle EXCEPT !.dir = "returned", !.fault = fault,
                            !.code = frame[g].code,
                            !.answer = [NoAnswer EXCEPT !.err = err]])
             /\ UNCHANGED cache
        ELSE IF err = <<>> THEN GateDecide(g, f, cache)
        ELSE Move(g, Down(f)) /\ cache' = Spent

Unavailable == Wrapped(<<[Layer("sentinel") EXCEPT !.sentinel = "ErrAPIUnavailable"]>>)

(* Variant: the probe is sent without the header Authorization. *)
BareProbeRequest(f) ==
    [Idle EXCEPT !.dir = "down", !.via = "probe", !.at = 1, !.inner = f.inner,
                 !.method = f.method, !.auth = f.auth, !.ctx = f.ctx]

(* The prober sends its own request, with the header it was given; the      *)
(* gate's request waits.                                                    *)
ProbeRequest(f) ==
    [Idle EXCEPT !.dir = "down", !.via = "probe", !.at = 1, !.inner = f.inner,
                 !.method = f.method, !.auth = f.auth,
                 !.probeAuth = kernel.token, !.ctx = f.ctx]

(* One probe per cooldown; meanwhile the cached budget is the answer. *)
Probe(g) ==
    LET f == frame[g] IN
    /\ f.dir = "probe"
    /\ IF cooling
       THEN /\ IF Known(cache) THEN ProbeReturns(g, <<>>, "none")
               ELSE ProbeReturns(g, Unavailable, "probe")
            /\ UNCHANGED cooling
       ELSE /\ Move(g, ProbeRequest(f))
            /\ cooling' = TRUE
            /\ UNCHANGED cache
    /\ UNCHANGED <<construction, stored, pacing>>

ProbeAnswered(g) ==
    LET f == frame[g]
        a == f.answer
    IN
    /\ f.dir = "up" /\ f.via = "probe" /\ f.at = 0
    /\ IF a.err # <<>> THEN ProbeReturns(g, Wrapped(a.err), f.fault)
       ELSE IF a.status >= 400 \/ ~Known(cache)
       THEN ProbeReturns(g, Unavailable, "probe")
       ELSE ProbeReturns(g, <<>>, "none")
    /\ UNCHANGED <<construction, cooling, stored, pacing>>

CooldownEnds ==
    /\ cooling /\ cooling' = FALSE
    /\ UNCHANGED <<construction, cache, stored, frame, pacing>>

WindowEnds ==
    /\ cache.resetIn > 0 /\ cache' = [cache EXCEPT !.resetIn = 0]
    /\ UNCHANGED <<construction, cooling, stored, frame, pacing>>

-----------------------------------------------------------------------------
(* feed, retry and ETag. *)

Descend(g) ==
    LET f == frame[g] IN
    /\ f.dir = "down"
    /\ \/ At(f, "feed") /\ Move(g, Down(f))
       \/ At(f, "retry") /\ Move(g, Down(f))
       \/ At(f, "etag") /\ Move(g, [Down(f) EXCEPT
                               !.conditional = Method(f) = "GET" /\ f.via \in stored])
    /\ UNCHANGED <<construction, shared, pacing>>

Feed(g) ==
    LET f == frame[g] IN
    /\ f.dir = "up" /\ At(f, "feed")
    /\ cache' = IF Known(f.answer.snapshot) THEN f.answer.snapshot ELSE cache
    /\ Move(g, Up(f, f.answer))
    /\ UNCHANGED <<construction, cooling, stored, pacing>>

(* A 304 is answered from the cache, a 200 to a GET is stored. *)
ETag(g) ==
    LET f == frame[g]
        a == f.answer
    IN
    /\ f.dir = "up" /\ At(f, "etag")
    /\ Move(g, Up(f, IF a.status = 304 THEN [a EXCEPT !.status = 200] ELSE a))
    /\ stored' = IF a.status = 200 /\ Method(f) = "GET" THEN stored \cup {f.via}
                 ELSE stored
    /\ UNCHANGED <<construction, cache, cooling, pacing>>

shouldRetry(f) ==
    \/ f.answer.status = 429
    \/ /\ Method(f) = "GET"
       /\ f.answer.err # <<>> \/ f.answer.status >= 500

(* Variant: one attempt too many. *)
RetriesLeftAndOne(f) == f.attempt <= options.Retry.MaxRetries

RetriesLeft(f) == f.attempt < options.Retry.MaxRetries

Retry(g) ==
    LET f == frame[g] IN
    /\ f.dir = "up" /\ At(f, "retry")
    /\ IF options.Retry.Enabled /\ RetriesLeft(f) /\ shouldRetry(f)
       THEN Move(g, [f EXCEPT !.dir = "sleep", !.answer = NoAnswer,
                              !.fault = "none", !.code = 0])
       ELSE Move(g, Up(f, f.answer))
    /\ UNCHANGED <<construction, shared, pacing>>

RetrySleep(g) ==
    LET f == frame[g] IN
    /\ f.dir = "sleep" /\ At(f, "retry")
    /\ \/ Move(g, [Down(f) EXCEPT !.attempt = @ + 1])
       \/ f.ctx # "live" /\ Move(g, Cut(f))
    /\ UNCHANGED <<construction, shared, pacing>>

-----------------------------------------------------------------------------
(* Pacing and the base transport. *)

Pace(g) ==
    LET f == frame[g] IN
    /\ f.dir = "down" /\ At(f, "pacing")
    /\ reserved <= Horizon
    /\ wait' = [wait EXCEPT ![g] = reserved]
    /\ reserved' = reserved + options.SecondaryPacing
    /\ Move(g, IF reserved > 0 THEN [f EXCEPT !.dir = "sleep"] ELSE Down(f))
    /\ UNCHANGED <<construction, shared, late, quiet>>

PaceSleep(g) ==
    LET f == frame[g] IN
    /\ f.dir = "sleep" /\ At(f, "pacing")
    /\ \/ wait[g] = 0 /\ Move(g, Down(f)) /\ UNCHANGED <<wait, late>>
       \/ /\ f.ctx # "live"
          /\ Move(g, [Cut(f) EXCEPT !.answer.err = Wrapped(@)])
          /\ wait' = [wait EXCEPT ![g] = 0]
          /\ late' = [late EXCEPT ![g] = 0]
    /\ UNCHANGED <<construction, shared, reserved, quiet>>

(* An answer passes the gate as it is; pacing wraps an error. *)
Ascend(g) ==
    LET f == frame[g]
        a == f.answer
    IN
    /\ f.dir = "up"
    /\ \/ At(f, "gate") /\ Move(g, Up(f, a))
       \/ At(f, "pacing") /\ Move(g, Up(f, IF a.err = <<>> THEN a
                                           ELSE [a EXCEPT !.err = Wrapped(@)]))
    /\ UNCHANGED <<construction, shared, pacing>>

(* An attempt goes out. *)
Base(g) ==
    LET f == frame[g] IN
    /\ f.dir = "down" /\ At(f, "base")
    /\ Move(g, [f EXCEPT !.dir = "flight", !.sent = @ + 1])
    /\ IF options.SecondaryPacing > 0
       THEN quiet' = 0 /\ late' = [late EXCEPT ![g] = 0]
       ELSE UNCHANGED <<quiet, late>>
    /\ UNCHANGED <<construction, shared, reserved, wait>>

(* The server answers; only a request with a validator gets a 304. *)
Answered(g) ==
    LET f == frame[g] IN
    /\ f.dir = "flight" /\ f.ctx = "live"
    /\ \E s \in Snapshots \cup {NoSnapshot},
          status \in Statuses \cup (IF f.conditional THEN {304} ELSE {}),
          limit \in {"none", "exhausted", "secondary"} :
          /\ limit # "none" => status \in {403, 429}
          /\ limit = "exhausted" <=> status \in {403, 429} /\ s.remaining = 0
          /\ Move(g, [Up(f, [NoAnswer EXCEPT !.status = status, !.limit = limit,
                                             !.snapshot = s])
                         EXCEPT !.fault = "response", !.code = status])
    /\ UNCHANGED <<construction, shared, pacing>>

(* The attempt fails: the server cannot be reached, a token source of the   *)
(* caller's transport cannot mint, or the context has ended.                *)
Unanswered(g) ==
    LET f == frame[g] IN
    /\ f.dir = "flight"
    /\ \/ /\ f.ctx = "live"
          /\ Move(g, [Failed(f, <<Layer("net.Error")>>)
                         EXCEPT !.fault = "unreachable"])
       \/ /\ f.ctx = "live" /\ options.HTTPClient.transport
          /\ \E status \in MintStatuses :
                Move(g, [Failed(f, Wrapped(<<ResponseLayer("ErrorResponse",
                                                           status, FALSE)>>))
                            EXCEPT !.fault = "mint", !.code = status])
       \/ f.ctx # "live" /\ Move(g, Cut(f))
    /\ UNCHANGED <<construction, shared, pacing>>

(* The context ends, where that is noticed: in a sleep, in an exchange, and *)
(* when an error is about to be returned.                                   *)
ContextEnds(g, how) ==
    LET f == frame[g] IN
    /\ f.ctx = "live"
    /\ \/ f.dir \in {"sleep", "flight"}
       \/ f.dir = "up" /\ f.at = 0 /\ f.answer.err # <<>>
    /\ how = "timeout" => f.via = "client" \/ f.inner
    /\ Move(g, [f EXCEPT !.ctx = how])
    /\ UNCHANGED <<construction, shared, pacing>>

(* The slot of g has come and its attempt is not on the wire. *)
Due(g) ==
    LET f == frame[g] IN
    \/ f.dir = "down" /\ At(f, "base")
    \/ f.dir = "sleep" /\ At(f, "pacing") /\ wait[g] = 0

(* Time passes; a goroutine may be up to Lag ticks late for its slot. *)
Tick ==
    /\ options.SecondaryPacing > 0 /\ kernel.built
    /\ \A g \in Callers : Due(g) => late[g] < Lag
    /\ late' = [g \in Callers |-> IF Due(g) THEN late[g] + 1 ELSE late[g]]
    /\ reserved' = IF reserved > 0 THEN reserved - 1 ELSE 0
    /\ wait' = [g \in Callers |-> IF wait[g] > 0 THEN wait[g] - 1 ELSE 0]
    /\ quiet' = IF quiet < Interval THEN quiet + 1 ELSE quiet
    /\ UNCHANGED <<construction, shared, frame>>

-----------------------------------------------------------------------------
(* Above the stack: http.Client, go-github and the caller. *)

(* What go-github makes of a response, CheckResponse.  Its error for a 401  *)
(* that asks for a one-time password answers basic authentication, which    *)
(* neither a kernel nor appauth uses.                                       *)
SDKError(a) ==
    IF a.status < 400 THEN {<<>>}
    ELSE CASE a.limit = "exhausted" ->
                {<<ResponseLayer(t, a.status, TRUE)>> :
                    t \in {"RateLimitError", "ErrorResponse"}}
           [] a.limit = "secondary" ->
                {<<ResponseLayer("AbuseRateLimitError", a.status, FALSE)>>}
           [] OTHER -> {<<ResponseLayer("ErrorResponse", a.status, FALSE)>>}

(* http.Client wraps an error of the transport, and replaces it once its    *)
(* timeout has passed; go-github prefers the error of an ended context.     *)
Return(g) ==
    LET f == frame[g]
        a == f.answer
    IN
    /\ f.dir = "up" /\ f.via = "client" /\ f.at = 0
    /\ \E err \in IF a.err = <<>> THEN SDKError(a)
                  ELSE IF f.ctx = "timeout"
                  THEN {<<Layer("url.Error"), Layer("net.Error")>>}
                  ELSE IF f.ctx # "live" THEN {Cause(f)}
                  ELSE {<<Layer("url.Error")>> \o a.err} :
          Move(g, [Idle EXCEPT
                      !.dir = "returned", !.code = f.code,
                      !.answer = [NoAnswer EXCEPT !.limit = a.limit, !.err = err],
                      !.fault = IF a.err # <<>> /\ f.ctx # "live" THEN f.ctx
                                ELSE f.fault])
    /\ UNCHANGED <<construction, shared, pacing>>

(* The caller, a page walk say, wraps the error, or classifies it. *)
Wrap(g) ==
    LET f == frame[g] IN
    /\ f.dir = "returned" /\ f.answer.err # <<>> /\ f.wraps < MaxWraps
    /\ Move(g, [f EXCEPT !.wraps = @ + 1, !.answer.err = Wrapped(@)])
    /\ UNCHANGED <<construction, shared, pacing>>

Classify(g) ==
    LET f == frame[g] IN
    /\ f.dir = "returned" /\ f.answer.err # <<>>
    /\ Move(g, [f EXCEPT !.answer.err = ClassifyError(@)])
    /\ UNCHANGED <<construction, shared, pacing>>

Enter(g) == RefreshRateLimit(g) \/ \E m \in Methods : Call(g, m)

RoundTrip(g) ==
    \/ Gate(g) \/ GateSleep(g) \/ Probe(g) \/ ProbeAnswered(g)
    \/ Descend(g) \/ Feed(g) \/ Retry(g) \/ RetrySleep(g) \/ ETag(g)
    \/ Pace(g) \/ PaceSleep(g) \/ Ascend(g)
    \/ Base(g) \/ Answered(g) \/ Unanswered(g) \/ Return(g)

Next ==
    \/ Option \/ New \/ CooldownEnds \/ WindowEnds \/ Tick
    \/ \E g \in Callers :
          \/ Enter(g) \/ RoundTrip(g) \/ Wrap(g) \/ Classify(g)
          \/ \E how \in Endings : ContextEnds(g, how)

Spec == Init /\ [][Next]_vars

-----------------------------------------------------------------------------
(* Properties. *)

(* The type invariant: a request never leaves its stack, an estimate never  *)
(* falls below what is known, a kernel that is built has a timeout set.     *)
TypeOK ==
    /\ cache.remaining >= -1 /\ cache.resetIn >= 0
    /\ cooling \in BOOLEAN /\ stored \subseteq {"client", "probe"}
    /\ kernel.built => ~kernel.failed /\ kernel.timeout # 0 /\ kernel.base.slash
    /\ \A g \in Callers : LET f == frame[g] IN
          /\ f.dir \in {"idle", "down", "sleep", "flight", "probe", "up", "returned"}
          /\ f.at \in 0 .. Len(Layers(f))
          /\ f.dir \in {"down", "sleep", "flight"} => f.at > 0
    /\ reserved \in Nat /\ wait \in [Callers -> Nat]
    /\ late \in [Callers -> 0 .. Lag] /\ quiet \in 0 .. Interval

(* MaxRetries is "the number of additional attempts after the first"        *)
(* (probe.go:41) and without retry "each call makes exactly one round trip" *)
(* (options.go:216-217): of requests and of probes, under any options.      *)
AttemptsBounded ==
    \A g \in Callers : frame[g].sent <= 1 + options.Retry.MaxRetries

(* The token that the options ask for: the explicit one, or else the first  *)
(* variable named that is set, or none.                                     *)
Asked(token) ==
    LET names == options.TokenEnvVars IN
    IF options.Token # "" THEN token = options.Token
    ELSE IF "WithAuthTokenFromEnv" \in given
    THEN \E i \in DOMAIN names : /\ names[i] \in env /\ token = names[i]
                                 /\ \A j \in 1 .. i - 1 : names[j] \notin env
    ELSE token = ""

(* "A missing token is a typed, actionable failure instead of 401s at       *)
(* request time" (options.go:115-117): whatever reaches the base transport, *)
(* a request, a retry or a probe, of the gate or of RefreshRateLimit, has   *)
(* the token that was asked for in its Authorization header, and none when  *)
(* none was.  (A transport of the caller's below may still replace it.)     *)
Authenticated ==
    \A g \in Callers :
        frame[g].dir = "flight" => Asked(Authorization(frame[g]))

(* The gate is "one decision before any bytes hit the wire"                 *)
(* (transport.go:70-71): a request that it rejects was never sent, not as a *)
(* first attempt either.                                                    *)
RejectedUnsent ==
    \A g \in Callers : frame[g].fault = "gate" => frame[g].sent = 0

Sentinels == {"ErrAuthRequired", "ErrForbidden", "ErrRateLimited",
              "ErrNotFound", "ErrAPIUnavailable"}

(* What the documentation of the sentinels (errors.go:18-40) says of a      *)
(* request, from what happened to it.                                       *)
Expected(f) ==
    IF f.fault = "gate" THEN "ErrRateLimited"
    ELSE IF f.fault \in {"unreachable", "timeout", "DeadlineExceeded"}
    THEN "ErrAPIUnavailable"
    ELSE IF f.fault = "Canceled" THEN "none"
    ELSE IF f.answer.limit # "none" THEN "ErrRateLimited"
    ELSE CASE f.code = 401 -> "ErrAuthRequired"
           [] f.code = 403 -> "ErrForbidden"
           [] f.code = 404 -> "ErrNotFound"
           [] f.code = 429 -> "ErrRateLimited"
           [] f.code >= 500 -> "ErrAPIUnavailable"
           [] OTHER -> "none"

(* ClassifyError finds the one sentinel that fits what happened to the      *)
(* request, through every layer's and the caller's wrapping, and again when *)
(* its result is wrapped and classified once more.  The errors that the     *)
(* prober makes itself (fault "probe") are left out: RefreshRateLimit names *)
(* every refusal ErrAPIUnavailable (probe.go:126-130), a 401 too, against   *)
(* errors.go:19-20.                                                         *)
RightSentinel ==
    \A g \in Callers : LET f == frame[g] IN
        f.dir = "returned" /\ f.answer.err # <<>> /\ f.fault # "probe" =>
            \A s \in Sentinels :
                Is(ClassifyError(f.answer.err), s) <=> s = Expected(f)

(* "The original error is preserved: errors.AsType[*github.ErrorResponse],  *)
(* [*github.RateLimitError], and [*github.AbuseRateLimitError] ... still    *)
(* succeed on the result" (errors.go:82-85).                                *)
SDKErrorKept ==
    \A g \in Callers : LET err == frame[g].answer.err IN
        \A t \in {"ErrorResponse", "RateLimitError", "AbuseRateLimitError"} :
            AsType(err, {t}) # <<>> =>
                AsType(ClassifyError(err), {t}) = AsType(err, {t})

(* Where pacing has a request: asleep in it, past it, or elsewhere. *)
PacingPc(f) ==
    IF options.SecondaryPacing = 0 THEN "idle"
    ELSE IF f.dir = "sleep" /\ At(f, "pacing") THEN "sleep"
    ELSE IF f.dir = "down" /\ At(f, "base") THEN "send"
    ELSE "idle"
pacedPc == [g \in Callers |-> PacingPc(frame[g])]

Paced == INSTANCE Pacing WITH
    Requests <- Callers, interval <- Interval, Cancels <- TRUE,
    pc <- pacedPc

(* "Pacing sits innermost so every attempt - probes and retries included -  *)
(* respects the secondary-limit budget" (client.go:66-67): as far as pacing *)
(* goes, the attempts of all goroutines are the requests of Pacing.         *)
EveryAttemptPaced == Paced!Spec

=============================================================================
