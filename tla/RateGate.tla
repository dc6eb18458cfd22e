------------------------------ MODULE RateGate -------------------------------
(***************************************************************************)
(* The pre-flight rate gate of a Kernel: RateLimitCache (ratelimit.go),    *)
(* gateTransport and feedTransport (transport.go) and rateProber           *)
(* (probe.go), used by concurrent calls, each with the timeout New gives   *)
(* http.Client (client.go).                                                *)
(*                                                                         *)
(* One action is one critical section of the cache or of the prober, one   *)
(* sleep, or one exchange with the server.  Every instant is kept as the   *)
(* number of ticks until it is reached, 0 once it is past, so that time    *)
(* itself needs no bound.  A tick is a second, the unit of the header      *)
(* X-RateLimit-Reset, which is read off the server's clock; the local one  *)
(* may be ahead of it or behind.  The retries below the gate are attempts  *)
(* whose answers the gate never sees; RetryStack models them in full.      *)
(***************************************************************************)
EXTENDS Integers, FiniteSets

CONSTANTS
    Calls,   \* concurrent callers of one Kernel
    Setups   \* settings that a behaviour may run under

(* The settings of a behaviour. *)
SetupAssumption(s) ==
    /\ s.Callers \subseteq Calls
    /\ s.Kinds \subseteq {"api", "rate_limit", "refresh"}
    /\ s.Faults \subseteq {"lost", "headers", "status"}
    /\ s.Enabled \in BOOLEAN
    /\ s.MinRemaining \in Nat /\ s.MaxWait \in Nat /\ s.MaxRetries \in Nat
    /\ s.probeCooldown \in Nat
    /\ s.Timeout \in Nat \ {0}
    /\ s.Limit \in Nat \ {0} /\ s.Window \in Nat \ {0}
    /\ s.Ahead \in Int /\ -s.Window <= s.Ahead
    /\ s.MaxStray \in Nat

ASSUME GateAssumption ==
    IsFiniteSet(Calls) /\ \A s \in Setups : SetupAssumption(s)

VARIABLES
    setup,     \* the settings, which never change
    budget,    \* the server's core budget
    stray,     \* requests given up here that the server will yet count
    cache,     \* RateLimitCache: a snapshot, Limit = 0 while not known
    cooldown,  \* ticks left of the prober's cooldown
    pc,        \* where each call is
    kind,      \* what each call does
    snapshot,  \* the budget a call decides on
    answer,    \* the response a call has on its way back
    sleep,     \* ticks left of a call's sleep in the gate
    timeout,   \* ticks left of a call's http.Client.Timeout
    attempts,  \* how often the request has been sent, retries included
    outcome    \* how the last call ended

vars == <<setup, budget, stray, cache, cooldown, pc, kind, snapshot, answer,
          sleep, timeout, attempts, outcome>>

Callers == setup.Callers     \* the goroutines that make calls
Kinds   == setup.Kinds       \* what they do: "api" and "rate_limit" are
                             \* requests through the client, "refresh" is
                             \* RefreshRateLimit
Faults  == setup.Faults      \* what may go wrong: "lost" answers, answers
                             \* without X-RateLimit "headers", an error
                             \* "status" of a probe
Enabled       == setup.Enabled         \* RateLimitOptions
MinRemaining  == setup.MinRemaining
MaxWait       == setup.MaxWait
MaxRetries    == setup.MaxRetries      \* 0 when retry is off
probeCooldown == setup.probeCooldown
Timeout       == setup.Timeout         \* http.Client.Timeout
Limit         == setup.Limit           \* the server's budget, per window
Window        == setup.Window          \* the length of a window
Ahead         == setup.Ahead           \* local clock minus server clock, not
                                       \* below -Window: an hour behind
MaxStray      == setup.MaxStray        \* bound on stray

-----------------------------------------------------------------------------
(* A RateLimitSnapshot.  A zero Limit carries no information. *)
Snapshots == [Limit : Nat, Remaining : Nat, ResetIn : Nat]
Unknown   == [Limit |-> 0, Remaining |-> 0, ResetIn |-> 0]

Known(s) == s.Limit # 0

(* RateLimitCache.Update ignores a snapshot with a zero Limit. *)
Update(s) == cache' = IF Known(s) THEN s ELSE cache

(* Variant: the estimate is not kept from falling below 0. *)
DecrementUnclamped ==
    cache' = IF Known(cache) THEN [cache EXCEPT !.Remaining = @ - 1] ELSE cache

(* RateLimitCache.Decrement(1): only a known budget shrinks, at most to 0. *)
Decrement ==
    cache' = IF Known(cache) /\ cache.Remaining > 0
             THEN [cache EXCEPT !.Remaining = @ - 1] ELSE cache

(* The X-RateLimit headers of a response, from the server's budget b.  The  *)
(* reset is an instant of the server's clock, and the gate will subtract    *)
(* the local clock from it (transport.go:133).  A response without the      *)
(* headers, or without the reset, parses to less.                           *)
Headers(b) ==
    LET left    == b.resetIn - Ahead
        resetIn == IF left > 0 THEN left ELSE 0
    IN
    {[Limit |-> Limit, Remaining |-> b.remaining, ResetIn |-> resetIn]} \cup
    (IF "headers" \in Faults
     THEN {Unknown, [Limit |-> Limit, Remaining |-> b.remaining, ResetIn |-> 0]}
     ELSE {})

(* The server counts a request against the budget while there is one left;  *)
(* GET /rate_limit is free.                                                 *)
Charge(b, k) == IF k = "api" /\ b.remaining > 0
                THEN [b EXCEPT !.remaining = @ - 1] ELSE b

Answer(status, s) == [status |-> status, snapshot |-> s]
NoAnswer          == Answer("none", Unknown)

Goto(r, label) == pc' = [pc EXCEPT ![r] = label]

(* A call returns to its caller. *)
Return(r, result) ==
    /\ Goto(r, "done")
    /\ outcome' = [outcome EXCEPT ![r] = result]

(* What a step of a call leaves alone at most. *)
others == <<setup, kind, timeout>>

(* What a step that sends nothing to the server leaves alone. *)
server == <<budget, stray>>

(* Has the deadline that http.Client.Timeout puts on the request's context  *)
(* passed?  RefreshRateLimit runs outside the client and has none.          *)
Expired(r) == kind[r] # "refresh" /\ timeout[r] = 0

-----------------------------------------------------------------------------
Init ==
    /\ setup \in Setups
    /\ budget = [remaining |-> Limit, resetIn |-> Window]
    /\ stray = 0
    /\ cache = Unknown
    /\ cooldown = 0
    /\ pc = [r \in Calls |-> "idle"]
    /\ kind \in [Calls -> Kinds]
    /\ snapshot = [r \in Calls |-> Unknown]
    /\ answer = [r \in Calls |-> NoAnswer]
    /\ sleep = [r \in Calls |-> 0]
    /\ timeout = [r \in Calls |-> 0]
    /\ attempts = [r \in Calls |-> 0]
    /\ outcome = [r \in Calls |-> "none"]

(* A caller makes its next call.  gateTransport.RoundTrip lets a request    *)
(* for /rate_limit through, and everything when the gate is off.            *)
Call(r, k) ==
    /\ r \in Callers
    /\ pc[r] \in {"idle", "done"}
    /\ kind' = [kind EXCEPT ![r] = k]
    /\ Goto(r, IF k = "refresh" THEN "probe"
               ELSE IF k = "api" /\ Enabled THEN "gate" ELSE "send")
    /\ timeout' = [timeout EXCEPT ![r] = IF k = "refresh" THEN 0 ELSE Timeout]
    /\ attempts' = [attempts EXCEPT ![r] = 0]
    /\ outcome' = [outcome EXCEPT ![r] = "none"]
    /\ UNCHANGED <<setup, server, cache, cooldown, snapshot, answer, sleep>>

-----------------------------------------------------------------------------
(* gateTransport.awaitBudget *)

GateRead(r) ==
    /\ pc[r] = "gate"
    /\ snapshot' = [snapshot EXCEPT ![r] = cache]
    /\ Goto(r, IF Known(cache) THEN "decide" ELSE "probe")
    /\ UNCHANGED <<server, cache, cooldown, answer, sleep, attempts, outcome,
                   others>>

(* Variant: the gate sleeps as long as it may. *)
LongestSleep(s) == MaxWait

(* The gate sleeps until the reset of the snapshot it decided on. *)
SleepFor(s) == s.ResetIn

(* The budget is above the floor, or its window is over: pass.  The reset   *)
(* is too far away: fail fast.  Otherwise wait for it.                      *)
GateDecide(r) ==
    LET s == snapshot[r] IN
    /\ pc[r] = "decide"
    /\ snapshot' = [snapshot EXCEPT ![r] = Unknown]
    /\ IF s.Remaining > MinRemaining \/ s.ResetIn = 0
       THEN Goto(r, "spend") /\ UNCHANGED <<sleep, outcome>>
       ELSE IF s.ResetIn > MaxWait
       THEN Return(r, "ErrRateLimited") /\ UNCHANGED sleep
       ELSE /\ sleep' = [sleep EXCEPT ![r] = SleepFor(s)]
            /\ Goto(r, "sleep")
            /\ UNCHANGED outcome
    /\ UNCHANGED <<server, cache, cooldown, answer, attempts, others>>

(* clock.sleep ends with its timer or with the request's context. *)
GateWake(r) ==
    /\ pc[r] = "sleep"
    /\ \/ sleep[r] = 0 /\ Goto(r, "spend") /\ UNCHANGED outcome
       \/ Expired(r) /\ Return(r, "cut in the gate")
    /\ sleep' = [sleep EXCEPT ![r] = 0]
    /\ UNCHANGED <<server, cache, cooldown, snapshot, answer, attempts, others>>

GateSpend(r) ==
    /\ pc[r] = "spend"
    /\ Decrement
    /\ Goto(r, "send")
    /\ UNCHANGED <<server, cooldown, snapshot, answer, sleep, attempts, outcome,
                   others>>

-----------------------------------------------------------------------------
(* rateProber.probe *)

(* probe returns: the gate lets the request pass after a failed probe and   *)
(* decides on the snapshot of a successful one.                             *)
ProbeReturns(r, s) ==
    IF kind[r] = "refresh"
    THEN /\ Return(r, IF Known(s) THEN "ok" ELSE "ErrAPIUnavailable")
         /\ UNCHANGED snapshot
    ELSE /\ Goto(r, IF Known(s) THEN "decide" ELSE "spend")
         /\ snapshot' = [snapshot EXCEPT ![r] = s]
         /\ UNCHANGED outcome

(* Variant: the attempt is not noted, so that the cooldown never starts. *)
ProbeUnnoted(r) ==
    /\ pc[r] = "probe"
    /\ Goto(r, IF cooldown > 0 THEN "cooling" ELSE "probing")
    /\ UNCHANGED <<server, cache, cooldown, snapshot, answer, sleep, attempts,
                   outcome, others>>

(* Under the prober's mutex: one attempt per cooldown. *)
ProbeEnter(r) ==
    /\ pc[r] = "probe"
    /\ IF cooldown > 0
       THEN Goto(r, "cooling") /\ UNCHANGED cooldown
       ELSE Goto(r, "probing") /\ cooldown' = probeCooldown
    /\ UNCHANGED <<server, cache, snapshot, answer, sleep, attempts, outcome,
                   others>>

(* On cooldown the cached budget is returned, if there is one. *)
ProbeCached(r) ==
    /\ pc[r] = "cooling"
    /\ ProbeReturns(r, cache)
    /\ UNCHANGED <<server, cache, cooldown, answer, sleep, attempts, others>>

(* The server answers GET /rate_limit. *)
ProbeAnswered(r) ==
    /\ pc[r] = "probing"
    /\ ~Expired(r)
    /\ \E s \in Headers(budget), status \in {"ok"} \cup (Faults \cap {"status"}) :
          answer' = [answer EXCEPT ![r] = Answer(status, s)]
    /\ Goto(r, "probeFeed")
    /\ UNCHANGED <<server, cache, cooldown, snapshot, sleep, attempts, outcome,
                   others>>

(* Variant: the probe is sent without the request's context. *)
ProbeFailsDetached(r) ==
    /\ pc[r] = "probing"
    /\ "lost" \in Faults
    /\ ProbeReturns(r, Unknown)
    /\ UNCHANGED <<server, cache, cooldown, answer, sleep, attempts, others>>

(* The probe is lost, or the request's context ends. *)
ProbeFails(r) ==
    /\ pc[r] = "probing"
    /\ "lost" \in Faults \/ Expired(r)
    /\ ProbeReturns(r, Unknown)
    /\ UNCHANGED <<server, cache, cooldown, answer, sleep, attempts, others>>

(* The probe stack's feedTransport sees every answer, errors included. *)
ProbeFeed(r) ==
    /\ pc[r] = "probeFeed"
    /\ Update(answer[r].snapshot)
    /\ answer' = [answer EXCEPT ![r] = NoAnswer]
    /\ IF answer[r].status = "ok"
       THEN Goto(r, "probeRead") /\ UNCHANGED <<snapshot, outcome>>
       ELSE ProbeReturns(r, Unknown)
    /\ UNCHANGED <<server, cooldown, sleep, attempts, others>>

(* The budget is read back from the cache. *)
ProbeRead(r) ==
    /\ pc[r] = "probeRead"
    /\ ProbeReturns(r, cache)
    /\ UNCHANGED <<server, cache, cooldown, answer, sleep, attempts, others>>

-----------------------------------------------------------------------------
(* The exchange below the gate, and feedTransport on its way back. *)

(* The server handles the request and answers. *)
Answered(r) ==
    /\ pc[r] = "send"
    /\ ~Expired(r)
    /\ budget' = Charge(budget, kind[r])
    /\ LET status == IF kind[r] = "api" /\ budget.remaining = 0
                     THEN "limited" ELSE "ok"
       IN  \E s \in Headers(budget') :
              answer' = [answer EXCEPT ![r] = Answer(status, s)]
    /\ attempts' = [attempts EXCEPT ![r] = @ + 1]
    /\ Goto(r, "feed")
    /\ UNCHANGED <<stray, cache, cooldown, snapshot, sleep, outcome, others>>

(* A request that is not answered may have reached the server, or reach it  *)
(* later, or not at all.                                                    *)
Unheard(r) ==
    \/ budget' \in {budget, Charge(budget, kind[r])} /\ UNCHANGED stray
    \/ /\ kind[r] = "api" /\ stray < MaxStray
       /\ stray' = stray + 1
       /\ UNCHANGED budget

(* The server answers with a status that the retry layer retries, or an     *)
(* attempt is lost; the request is sent again.                              *)
Retried(r) ==
    /\ pc[r] = "send"
    /\ ~Expired(r)
    /\ attempts[r] < MaxRetries
    /\ \/ budget' = Charge(budget, kind[r]) /\ UNCHANGED stray
       \/ "lost" \in Faults /\ Unheard(r)
    /\ attempts' = [attempts EXCEPT ![r] = @ + 1]
    /\ UNCHANGED <<cache, cooldown, pc, snapshot, answer, sleep, outcome,
                   others>>

(* No answer: the request or its answer is lost, or the context ends. *)
Unanswered(r) ==
    /\ pc[r] = "send"
    /\ "lost" \in Faults \/ Expired(r)
    /\ Unheard(r)
    /\ Return(r, "no answer")
    /\ UNCHANGED <<cache, cooldown, snapshot, answer, sleep, attempts, others>>

(* The server counts a request whose caller has given up. *)
CountStray ==
    /\ stray > 0
    /\ stray' = stray - 1
    /\ budget' = Charge(budget, "api")
    /\ UNCHANGED <<setup, cache, cooldown, pc, kind, snapshot, answer, sleep,
                   timeout, attempts, outcome>>

Feed(r) ==
    /\ pc[r] = "feed"
    /\ Update(answer[r].snapshot)
    /\ answer' = [answer EXCEPT ![r] = NoAnswer]
    /\ Return(r, answer[r].status)
    /\ UNCHANGED <<server, cooldown, snapshot, sleep, attempts, others>>

-----------------------------------------------------------------------------
Before(n) == IF n > 0 THEN n - 1 ELSE 0

Older(s) == [s EXCEPT !.ResetIn = Before(@)]

(* Time passes: every instant comes one tick closer, and at the end of a    *)
(* window the server's budget is renewed.                                   *)
Tick ==
    /\ budget' = IF budget.resetIn = 1
                 THEN [remaining |-> Limit, resetIn |-> Window]
                 ELSE [budget EXCEPT !.resetIn = @ - 1]
    /\ cache' = Older(cache)
    /\ cooldown' = Before(cooldown)
    /\ snapshot' = [r \in Calls |-> Older(snapshot[r])]
    /\ answer' = [r \in Calls |-> [answer[r] EXCEPT !.snapshot = Older(@)]]
    /\ sleep' = [r \in Calls |-> Before(sleep[r])]
    /\ timeout' = [r \in Calls |-> IF pc[r] = "done" THEN 0
                                   ELSE Before(timeout[r])]
    /\ UNCHANGED <<setup, stray, pc, kind, attempts, outcome>>

awaitBudget(r) == GateRead(r) \/ GateDecide(r) \/ GateWake(r)

probe(r) == \/ ProbeEnter(r) \/ ProbeCached(r)
            \/ ProbeFails(r) \/ ProbeFeed(r) \/ ProbeRead(r)

(* The steps that the Kernel's own goroutine takes. *)
Step(r) == \/ awaitBudget(r) \/ GateSpend(r)
           \/ probe(r)
           \/ Unanswered(r) \/ Feed(r)

Serve(r) == ProbeAnswered(r) \/ Answered(r) \/ Retried(r)

Next == \/ Tick \/ CountStray
        \/ \E r \in Calls : (\E k \in Kinds : Call(r, k)) \/ Step(r) \/ Serve(r)

Spec == Init /\ [][Next]_vars

(* Goroutines are scheduled and time passes; the server owes no answer. *)
FairSpec == Spec /\ WF_vars(Tick) /\ \A r \in Calls : WF_vars(Step(r))

-----------------------------------------------------------------------------
(* Properties. *)

States == {"idle", "gate", "probe", "cooling", "probing", "probeFeed",
           "probeRead", "decide", "sleep", "spend", "send", "feed", "done"}

Outcomes == {"none", "ok", "limited", "no answer", "ErrRateLimited",
             "ErrAPIUnavailable", "cut in the gate"}

(* The furthest that a reset can seem to be. *)
MaxReset == IF Ahead < 0 THEN Window - Ahead ELSE Window

(* The type invariant: no estimate leaves 0 .. Limit, no wait its bound. *)
TypeOK ==
    /\ budget \in [remaining : 0 .. Limit, resetIn : 1 .. Window]
    /\ stray \in 0 .. MaxStray
    /\ cache \in [Limit : {0, Limit}, Remaining : 0 .. Limit,
                  ResetIn : 0 .. MaxReset]
    /\ cooldown \in 0 .. probeCooldown
    /\ pc \in [Calls -> States]
    /\ kind \in [Calls -> Kinds]
    /\ snapshot \in [Calls -> Snapshots]
    /\ answer \in [Calls -> [status : {"none", "ok", "limited", "status"},
                             snapshot : Snapshots]]
    /\ sleep \in [Calls -> 0 .. MaxWait]
    /\ timeout \in [Calls -> 0 .. Timeout]
    /\ attempts \in [Calls -> Nat]
    /\ outcome \in [Calls -> Outcomes]

(* "A burst of requests with an empty cache produces one probe, not N"      *)
(* (probe.go:59-61): two gates never wait for the answer of a probe at once *)
(* as long as no probe can outlive the cooldown.                            *)
OneProbeAtATime ==
    Timeout <= probeCooldown =>
    Cardinality({r \in Calls : pc[r] = "probing" /\ kind[r] = "api"
                                /\ ~Expired(r)}) <= 1

(* What a reset that the kernel has read can be by now: past, or as far     *)
(* from an end of the server's current window as the clocks are apart.      *)
Resets == {0, budget.resetIn - Ahead, budget.resetIn - Ahead - Window}

(* A call that waits in the gate waits for an end of the server's window,   *)
(* late or early by no more than the difference of the clocks, although the *)
(* reset it waits for may have been read long ago, by another call, from an *)
(* answer that was overtaken: with clocks in step a wait never ends before  *)
(* the budget is renewed, and never goes on into the next window.           *)
WakesAtReset ==
    \A r \in Calls : pc[r] = "sleep" => sleep[r] \in Resets

(* Every call through the client ends, even if the server never answers:    *)
(* the deadline of http.Client.Timeout reaches the probe and the request,   *)
(* and a sleep in the gate is finite.                                       *)
CallsEnd ==
    \A r \in Calls : kind[r] # "refresh" /\ pc[r] # "done" /\ pc[r] # "idle"
                     ~> pc[r] = "done"

(* The requests that the gate has let through and the server has not seen. *)
LetThrough ==
    {r \in Calls : kind[r] = "api" /\ (pc[r] = "spend" \/
                                       (pc[r] = "send" /\ attempts[r] = 0))}

(* "Decrement ... keeping the estimate conservative between authoritative   *)
(* responses" (ratelimit.go:119-121), "Without this, a burst of concurrent  *)
(* requests would all see the same stale remaining" (transport.go:108-110): *)
(* while the cache has an estimate of the current window, the gate lets no  *)
(* more requests through than the server has left.                          *)
Conservative ==
    Enabled /\ cache.ResetIn > 0 =>
        Cardinality(LetThrough) <= budget.remaining

=============================================================================
