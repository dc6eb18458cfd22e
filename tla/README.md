# A TLA+ verification of go-github-kit

go-github-kit wraps the go-github SDK in a stack of HTTP transports (rate gate,
header feed, retry, ETag cache, pacing), adds a concurrent page walk, and signs
and mints GitHub App credentials. This directory models the parts of it that
keep state and run concurrently, checks them with TLC, and proves the most
important properties with TLAPS for every value of the constants.

## The system

| Component | State | Operations | Hard because |
|---|---|---|---|
| Page walk, `pagination.go` | `shortPage`, `itemsFetched`, `aborted`, `firstErr`, `ready`, `pending`, `delivered`, `deliverMu`, a semaphore, a wait group | `FetchPages`, `StreamPages` → `walkPages` with the closures `fetchAndRecord`, `drain`, `fail` | workers finish in any order; the caller's callback runs under a mutex; a short page, an error and a cancellation race |
| Budget cache, `ratelimit.go` | last snapshot | `Update`, `Decrement`, `Get` | shared by all requests; answers overtake each other |
| Gate, `transport.go` | none of its own | `RoundTrip`, `awaitBudget` | read, sleep and spend are separate steps; the client's timeout runs meanwhile |
| Prober, `probe.go` | `lastAttempt` | `probe` | a burst meets an empty cache; the probe may hang or fail |
| Retry, `transport.go` | per request: attempt, backoff, body | `RoundTrip`, `shouldRetry`, `retryAfter`, `drainClose` | a request may have taken effect although it failed; `Retry-After` overflow; cancellation between attempts |
| Feed, `transport.go` | none | `RoundTrip` | what it sees depends on where it sits in the stack |
| Pacing, `secondary.go` | `reserved` | `RoundTrip` | slots are taken under a mutex and used outside it |
| App credentials, `appauth/` | cached JWT and its `jwtGood`, cached token and its `good` | `currentJWT`, `Token`, two `RoundTrip`s | concurrent expiry, failing mints under a mutex, two clocks |
| Kernel, `client.go`, `options.go` | the stack | the options, `New`, `RefreshRateLimit` | options override each other; each layer sees what the order of the layers lets it see |
| ETag cache, `etag.go` | entries of the external go-etag transport | key function, bounds, freshened headers | concurrent requests, eviction between a validator and its 304, rotating credentials |
| Error classification, `errors.go` | none | `ClassifyError` | chains of errors that four layers and the caller build |

A request of a kernel goes down through gate, feed, retry, ETag and pacing to
the base transport (an `InstallationTokenTransport` when the caller supplies
one) and its answer comes back up. A gate that knows no budget sends a probe
through a stack of its own: retry, feed, pacing, base. The page walk calls a
caller-supplied `fetch`, normally a request through a kernel.

## Modules

| Module | Models | Proofs |
|---|---|---|
| `WalkPages` | `walkPages` | `WalkPagesProofs` |
| `PageStream` | what `StreamPages` promises, without goroutines | refined by `WalkPages` |
| `RateGate` | cache, gate, prober, feed, with concurrent callers | `RateGateProofs` |
| `ETagCache` | the conditional GET cache, with concurrent callers and a server | `ETagCacheProofs` |
| `Errors` | `ClassifyError`, as operators on chains of errors | `ErrorsProofs` |
| `Kernel` | options, `New`, a request's way through the stack, the error it ends with; refines `Pacing`, uses `Errors` | `KernelProofs` |
| `RetryStack` | retry around one request | `RetryStackProofs` |
| `Pacing` | pacing | `PacingProofs` |
| `AppTokens` | token source, installation transport, JWT transport | `AppTokensProofs` |

Each `MC...` module holds the bounded constants of the runs of its namesake.
Definitions called "Variant" are deliberately broken forms of the definition
that follows them; they show that the property they are paired with would
notice.

**WalkPages.** One action is one access to shared state: an atomic operation, a
critical section of `mu`, or the start or the return of a call to `fetch`,
`OnProgress` or `onPage`. `deliverMu` is a variable, because `onPage` runs under
it. A goroutine is named by the page it fetches; the caller is 1. `pc` is the
program counter: `start`, `first`, `firstCall`, `loop`, `select`, `wait` are
the caller's part of `walkPages`; `check`, `fetch`, `add`, `record`, `report`
are `fetchAndRecord`; `lock`, `top`, `peek`, `call`, `unlock` are `drain`;
`failErr`, `failAbort`, `failCancel` are the three steps of `fail`. The items of
a page are a function of its number, so that a page stands for its items. When
both cases of the dispatch `select` are ready, either is taken. The history
variables `output` and `progress` record what the callbacks were told.

**RateGate.** One action is one critical section of the cache or of the prober,
one sleep, or one exchange with the server. Instants are kept as ticks until
they are reached, so that time is unbounded without a clock variable. A tick is
a second, the unit of `X-RateLimit-Reset`; that header is an instant of the
server's clock, and `Ahead` is how far the local clock, which the gate subtracts
from it, is ahead (`Headers`). The
server has a budget per window, counts a request when it handles it, and may
answer without headers, without a reset, with an error, or not at all. A request
that was given up here may be counted later (`stray`, at most `MaxStray` of them at
a time). Retries are attempts whose answers the gate does not see. The deadline of
`http.Client.Timeout` is part of the request's context: it ends sleeps, probes
and exchanges. `RefreshRateLimit` runs outside the client and has none.

A behaviour picks its settings from `Setups` at the start.

**ETagCache.** The policy of `newETagTransport` around what the go-etag transport is
relied on for: a GET carries the validator of the entry under its key, a 304 is
answered from an entry with the validator it confirms, be it the one the request
carried or the one that has taken its place, a 200 is stored, the oldest entry is
evicted. A
body is the triple of credential, URL and version it was made from, so that a
body of the wrong credential or an old one is told apart. `truth` is the body an
unconditional request would have got at the moment the server handled this one.
`Setups` says whether the base transport replaces the credential, which the key
does not see, and whether the server's ETags differ between credentials. Where
the first holds and the second does not, nothing tells whose body an entry is
(`Blind`): `RightBody` then speaks of URL and version only, and `CredentialsApart`,
which is what `etag.go` promises, is violated.

**Errors and Kernel.** An error is the sequence of errors that unwrapping visits.
`Kernel` applies options one by one, builds the stacks of client and prober, and
lets a goroutine's `frame` walk down and up: `dir` and `at` say where the request is,
`via` which stack it is in, `inner` whether a probe was sent by the gate, `auth` and
`probeAuth` the Authorization headers that go-github and the prober set. Each layer
has the effect the others can see: the gate rejects, waits or passes, feed
updates `cache`, retry sends again, ETag adds validators and answers 304s, pacing
reserves slots, base sends. `Return` is what http.Client and go-github make of the
result (wrapping, timeouts, `CheckResponse`), `Wrap` and `Classify` what a caller does
with an error. `fault` and `code` are history: what really happened. The gate
decides and spends in one step here; the gaps between its steps are in
`RateGate`. The pre-flight refusal of go-github itself is left out: it ends in the
same error type as a refusal by the server. A context ends only where that is
noticed (a sleep, an exchange, the return of an error); ending earlier has the
same outcomes.

**RetryStack.** One request, with all sequences of statuses, failures and
`Retry-After` values. A duration is a signed word of `2 * MaxDuration` values, so
that `seconds * time.Second` and `backoff * 2` wrap as int64 does. `applied`
counts how often the server carried out the request: it does for a success, may
have for a 5xx or a lost answer, and has not for a 4xx.

**Pacing.** Reservation is one critical section; waiting, cancellation and the
start are steps of their own. A goroutine whose slot has come may be late, by up
to `Lag` ticks (`late`): Go promises no more than that it will run. `Horizon` bounds
how far ahead slots are asked for.

**AppTokens.** `Token` holds its mutex from the check to the return, across the
mint; the mint signs or reuses a JWT, reaches GitHub, and its answer returns, as
separate steps between which time passes. `skew` is the server's clock minus the
local one, `Latency` bounds the time a message is on its way, and `JWTCap` is how far
ahead GitHub lets the `exp` of a JWT be, ten minutes.
`AppAuthTransport.currentJWT` is one step: it does no I/O under its mutex.

## What the runs show

| Run | Instance | Result |
|---|---|---|
| `walk` | `MaxPages` 0, 1 and 4; 1, 2 and the default 3 workers; page size 2 and the default; empty, boundary, ragged and over-long collections; every fault | in-order single delivery, no stranded page, a complete collection on success, the right error, no leaked worker, final progress equals the total, no deadlock, every step moves forward, refinement of `PageStream`, termination |
| `walk_cancelled` | 5 pages, 2 workers, cancellation | **violated**: a cancelled walk returns nil with pages missing |
| `walk_buffer` | 5 pages, 2 workers, no faults | **violated**: more than `Concurrency` pages wait in `pending` |
| `gate` | one caller with budget 3, floor 1, window 3, all kinds of call and fault, no retries, a late count, local clock ahead; two callers with budget 1, `MaxWait` below the window, cooldown and timeout 2, one retry, local clock behind; two callers and no gate | one probe at a time; a wait in the gate ends with a window of the server, up to the difference of the clocks, whoever read the reset; every call ends although the server may never answer |
| `gate_estimate` | two callers, budget 1, nothing goes wrong | **violated**: two requests pass on one reading of the budget |
| `retry` | GET and POST, body or none, 3 retries, five `Retry-After` values (absent, 0, short, long, overflowing) | at-most-once, replayed bodies, closed responses, waits of at least the backoff and the header and at most `MaxBackoff` |
| `pacing` | four senders, interval 4, cancellation, goroutines up to 2 ticks late | slots are an interval apart, starts an interval less the lag |
| `tokens` | two requests of both kinds, lifetimes 0, at the lead and above it, server clock 0 or 1 ahead, latency 1 | one mint at a time, the mutex is never left behind, shared tokens valid on arrival, JWTs accepted |
| `etag` | two goroutines, three credentials, one URL with two versions, one entry, bodies at and above the size bound, with and without an inner token, servers that do and do not tell credentials apart | callers get the body of their URL in its current version, and of their credential unless neither key nor server tells it |
| `etag_inner` | the same with an inner token and one ETag for all credentials | **violated**: after a rotation one token is served the body of another |
| `kernel` | every pair of options, one goroutine, default and two retries, six statuses, spent and unspent budgets, three ways for a context to end, goroutines up to a tick late | attempts are bounded, requests and probes carry the token asked for, a rejected request was never sent, the right sentinel is found and the SDK's error kept, and every attempt is paced |
| `tokens_skew` | server clock behind | **violated**: a fresh JWT expires too far in the future |

**Why these bounds are enough to be interesting.** With four pages and two
workers a worker can be waiting for `deliverMu` while another is in `onPage`, a
later page can be recorded before an earlier one, and the short page can be seen
before or after a later page was dispatched. In the gate one request of budget
and two callers make the budget run out, the window end, and the cooldown
expire while a probe is out. Three retries let the backoff reach its cap and be
overtaken by a longer `Retry-After`, and let a short one ask for less than the
backoff. Four senders make a slot be reserved after one in the middle was given
up; a lag of half an interval makes late and punctual starts meet, and would show
if the lateness of several added up. The clocks of server and gate are a tick
apart in both directions. In `tokens` the time units are half minutes: lead
and backdate keep their two units, and a JWT is good for three units.
In `etag` one entry is enough to be evicted and
replaced by the other goroutine while a 304 is on its way, and a version that
comes back makes an old validator hold again. In `kernel` two options are the
smallest number at which they override each other or two optional layers meet;
one goroutine is enough, because what goroutines do to each other in a layer is
in the module of that layer. `CHECK_DEADLOCK FALSE` is used where a walk or a request is over once it has
returned.

**Fairness.** `WalkPages` is weakly fair in its own steps: goroutines are
scheduled and the caller's `fetch` and `onPage` return, as `walkPages` itself has
to assume; the caller's context owes nothing. `RateGate` is fair in the steps of
the kernel's own goroutines and in the passing of time, not in the server: it
may never answer. The other modules check safety only. For `AppTokens` that is
because the code justifies no fairness: a mint ends when GitHub answers or its
context ends, `NewAppsClient` sets no timeout, and the mutex it runs under heeds no
context, so that a request whose context has no deadline can block all others.

## Disagreements between the code and its documentation

Shown by a run of its own:

- `pagination.go:258`: when the caller's context ends while the dispatch loop is
  in its `select` and no fetch is in flight, nobody calls `fail`, and `FetchPages`
  returns a truncated slice and a nil error.
- `pagination.go:178-179`: the semaphore bounds running workers, not buffered
  pages, so `pending` is bounded by `MaxPages` only.
- `ratelimit.go:119-121`, `transport.go:108-111`: check and decrement are separate
  critical sections, so concurrent requests do see the same remaining count and
  the estimate is not conservative. The counterexample needs no fault. Three
  further causes violate the same property and are in the model, though not in
  the instance of that run: retries spend budget that `Decrement` does not count, an
  older answer overwrites a newer one, and a request given up here is counted
  after the next answer.
- `etag.go:67-68`: below a transport that sets Authorization itself, the entries of
  all its tokens share a key, and a server with one ETag for all of them (as in
  `etag_test.go:103`) confirms the wrong one.
- `jwt.go:20`: only `iat` is backdated. With a local clock ahead of GitHub's, `exp` is
  more than ten minutes out.

Met while modelling, visible in the models, without a run (those above were
judged to matter more):

- `options.go:150-152`: the timeout does bound the waits inside the kernel: it is the
  deadline of the request's context, with which the gate sleeps (`Expired` in
  `GateWake`).

- `pagination.go:90-92`: a page beyond the short page that was already in flight
  is delivered, empty.
- `transport.go:44-47`: in the client's stack feed sits outside retry and sees only
  the last answer (`Stack` of `Kernel`).
- `errors.go:44` and `87-88`: `ClassifyError` keeps the go-github error but not what
  wrapped it, and returns a wrapped 400 unwrapped rather than unchanged.
- `errors.go:19-20`: `RefreshRateLimit` reports a 401 as `ErrAPIUnavailable`
  (`probe.go:126-130`), not as `ErrAuthRequired`. `RightSentinel` therefore leaves out
  the errors that the prober makes itself.
- `client.go:126`: `RefreshRateLimit` answers from the cache within the cooldown.
- `secondary.go:13-14`: a 403 with `Retry-After` is not retried.
- `transport.go:170`: `Retry-After` does not override a longer backoff; the longer of
  the two is waited for (`WaitBounded`).
- `secondary.go:10-11`: starts are "at least interval apart" only if no goroutine is
  late; `StartsSpaced` says what is left of the distance when one is, and the bound
  is reached: a goroutine that is late starts that much closer to the holder of
  the following slot.
- `appauth/doc.go:46-48`: `Token` refuses no lifetime. `appauth/doc.go:56-60`: minting
  is single-flight after all (`OneMint`), because `Token` holds its mutex across
  the mint.
- `client.go:233`: `WithTimeout(30s)` is not recognised as explicit when the HTTP client
  has a timeout.

## What is proved

All theorems hold for every value of the constants that satisfies the named
assumption of the module (`OptionsAssumption`, `CollectionsAssumption`,
`RetryAssumption`, `PacingAssumption`, `TokensAssumption`, `GateAssumption`,
`ETagAssumption`, `KernelAssumption`; TLC evaluates them on every run). They give
the constants their types, ask for a finite set of goroutines where they are
counted, and, for JWTs, for a `jwtTTL` within GitHub's cap. Each invariant below was checked by TLC
on the instance of its run before it was proved.

`WalkPagesProofs`, for any options, collection and faults. `TypeCorrect`,
`DeliveredInOrder`, `WorkersBounded` and `WalkImplementsStream`: `InOrderDelivery`
alone is not inductive, a second goroutine could be in `onPage`. The inductive
invariant adds which goroutines exist in which part of the walk (`Phases`), that
each running worker holds one slot (`Slots`), that only the goroutine inside
`drain` holds `deliverMu` (`Locking`), that `aborted` is set only behind `firstErr`
(`Errors`), and that `output` is at most one page ahead of `delivered`, and only
while `onPage` runs or after it failed (`Delivery`). The refinement maps `accepted`
to `delivered` and needs the last two. `NoneStranded`, `SuccessIsComplete` and
`ErrorIsOfItsPage` rest on a second layer, `WalkInv`, inductive relative to the
first: a worker's page is in `ready` exactly from its record on (`Recorded`); a
recorded page at the frontier of a walk that is not aborted has a worker between
its record and the end of its drain (`Frontier`); a page that is not recorded when
its worker is done, or that was never dispatched, lies beyond a short page or has
an ended context or an abort to show for it (`Coverage`, `Stopped`); and the first
error stays that of its page (`Blame`). `ProgressIsTotal` rests on a third layer,
`CountInv`: only recorded pages are handed over (`Handed`, `FirstOnly`); `itemsFetched`
holds the items of every page that was added, once (`Counted`); no count a worker
has taken exceeds it, and its last value was reported or has a worker that will
(`Heard`). Only the last page with items can be short, so the sum over the pages
is the page size times the number of full pages plus the rest, which needs
cardinalities and no induction; `ItemsUpTo` states what was handed over in that
form.

`DeadlockFree` and `AlwaysForward` are the part of termination that needs no
fairness. Until the walk has returned one of its goroutines is not waiting: the
holder of `deliverMu` never waits, without a holder no worker waits, and without a
running worker every slot is free and `wg.Wait` returns (`Locking`, `Slots`). And
every step moves the walk on in an order without infinite descents: the context
ends once, then pages accepted and pages dispatched, both bounded by `MaxPages`, then
the labels of the goroutines. A walk that is scheduled therefore ends; that it is
scheduled is the fairness `Termination` assumes.

`RateGateProofs`, for any finite set of callers and any settings. `TypeCorrect`;
`OneProbe`, from the invariant that the deadline of a gate's probe passes before
the cooldown that it started (`Probes`); `WakeIsReset`, for any number of callers and
any difference of the clocks: every reset that the cache, an answer on its way, a
decision or a sleeping gate knows is past, or as far from the end of the current
window, or of the one before, as the clocks are apart (`InStep`), in whatever order
answers are applied. What overtaking spoils is the remaining count, about which
nothing is proved.

`ETagCacheProofs`, for any goroutines, credentials, URLs, servers and bounds.
`TypeCorrect` and `BodiesAreRight`: an entry is `Sound` when its validator determines
its body's URL and version and, unless the server is `Blind`, together with its key
its credential; every entry in the cache is sound (`Cached`), so is the one a request
revalidates, whatever happens to the cache meanwhile (`Carried`), and an answer on
its way up matches what the server had (`Answering`).

`ErrorsProofs`, for every finite chain of errors. `ClassifyIdempotent`,
`ClassifyWrapped`, `ClassifyKeeps`. Both `errors.AsType` and `errors.Is` are described
by what one more layer on top of a chain does to them, which spares the
induction over the chain. `ClassifyKeeps` asks for at most one go-github error in
the chain, which is what go-github returns.

`KernelProofs`, for any number of goroutines, options, calls, wraps and
classifications. `TypeCorrect`, `BoundedAttempts`, `RequestsAuthenticated`, `RejectedNeverSent`, `ClassifiedRight`, `SDKErrorSurvives`. The
inductive invariant says what `New` builds from the options (`OptionsInv`,
`KernelInv`, `SharedInv`) and of every request, wherever it is in its stack: it
stands in it (`Placed`), it was sent at most once per attempt and not yet for the
current one on its way down (`Counted`), it carries the token the kernel was built
with, and so does its probe (`Carries`), and its error names what happened to it, now and inside the
`url.Error` that http.Client will put around it (`Told`, with the lemmas of
`ErrorsProofs`). `AttemptsArePaced` shows that the kernel implements `Pacing`:
`pacedPc` maps a request asleep in pacing to `sleep`, one about to enter the base
transport to `send`, all others to `idle`; every step of another layer is a
stutter because pacing, when there is any, sits directly above the base
transport in both stacks (`EndsInBase`). `AttemptsApart` carries `StartsAreSpaced` of
`PacingProofs` over that refinement: attempts of requests, retries and probes
leave an interval less the lag apart.

`RetryStackProofs`. `CarriedOutOnce`, `NoBodyLost`, `WaitsAreBounded`, `TypeCorrect`. The invariant says that a
request that must not be repeated has had no effect as long as it can still be
sent (`Applications`), and that doubling the backoff fits into the word (`Waits`),
so that only `Retry-After` can wrap around, and a value that does is never less than
the backoff once compared with it.

`PacingProofs`. `SlotsAreSpaced` for any interval and scheduling; `StartsAreSpaced` for
any `Lag`, from the invariant `Timely`: slots, past ones that are not used yet
included, stay an interval apart, and each is at most `Lag` closer than an interval
to the last start, so that lateness does not add up; `TypeCorrect`.

`AppTokensProofs`. `MintsOneAtATime`; `SharedTokensValid` when skew plus latency is at
most the refresh lead; `JWTsAccepted` when the server's clock is not behind;
`TypeCorrect`. The invariant says that a credential is handed out with its margin
and loses one unit of it per unit of latency (`Margins`, `Spent`). `MintsOneAtATime`
includes that whoever holds the mutex is minting, so that every way out of `Token`
has released it.

Only model-checked: liveness under fairness (`Termination`, `CallsEnd`), which is out
of the prover's reach.

## Not modelled

PEM parsing and RSA signing (library calls without state), the counters of
`ETagStats`, the texts of errors, `doc.go` and the repository's scripts. Header
spelling and integer parsing are reduced to what `ParseRateLimitHeaders` reports:
known, known without a reset, unknown. `WithUserAgent` sets a field no layer reads;
`withClock` is for tests. The unlocked read of `lastAttempt` at
`probe.go:94` races with a later probe but reaches only the text of an error. Panics
in callbacks are not modelled.

What `FreshenFields` of go-etag does to the headers of a response rebuilt from the
cache (`etag.go:99`) is decided outside this repository, also for a 304 without
X-RateLimit headers, after which the stored ones may survive and reach the feed;
no property is about it. `authKey` is the identity in the model: two credentials whose
truncated hashes collide would share a key. go-github's `TwoFactorAuthError` answers
basic authentication, which no credential of this library uses. A `fetch` that
returns `context.Canceled` of its own while the walk's context is live
(`pagination.go:224`) is not among the faults of `WalkPages`. In `Kernel`, a caller's
transport below the stack may replace the Authorization header; `Authenticated` is
about what reaches it.

## Plan

Every safety property and every action property of the passing runs is a
theorem. Two extensions were considered and left out. A refinement that ties
`Kernel` to `RetryStack` or `RateGate` as it is tied to `Pacing` would need durations,
and a gate that reads, sleeps and spends in separate steps, in `Kernel`; that
would repeat the two modules there. A form of `Conservative` that holds would have to
exclude concurrency, retries and late counts, which is to say every default. Next
would come a fault of `WalkPages` for a `fetch` with a cancelled context of its own,
and a header of the ETag cache once go-etag's freshening is at hand. Beyond that
there is upkeep: when a layer changes, its module, its `map` lines
and the step lemma of its action change with it.
