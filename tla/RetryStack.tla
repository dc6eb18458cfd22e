----------------------------- MODULE RetryStack ------------------------------
(***************************************************************************)
(* retryTransport (transport.go) around one request, in either stack that  *)
(* New builds (client.go).                                                 *)
(*                                                                         *)
(* Durations are whole ticks in a signed word of 2 * MaxDuration values,   *)
(* as time.Duration is in 64 bits.                                         *)
(***************************************************************************)
EXTENDS Integers

CONSTANTS
    Methods,         \* the methods the caller may use
    RetryAfters,     \* the Retry-After headers, in seconds; -1 stands for an
                     \* absent or malformed one
    Faults,          \* "err": no response, "cancel": the request's context
                     \* ends, "body": the request's body cannot be read
    Enabled,         \* RetryOptions
    MaxRetries,
    InitialBackoff,
    MaxBackoff,
    Second,          \* time.Second
    MaxDuration

ASSUME RetryAssumption ==
    /\ RetryAfters \subseteq Int
    /\ Enabled \in BOOLEAN
    /\ MaxRetries \in Nat /\ InitialBackoff \in Nat /\ MaxBackoff \in Nat
    /\ Second \in Nat /\ MaxDuration \in Nat
    /\ InitialBackoff < MaxDuration
    /\ 2 * MaxBackoff < MaxDuration /\ 2 * InitialBackoff < MaxDuration

VARIABLES
    method,    \* of the request
    ctx,       \* the request's context
    pc,        \* where the goroutine is
    attempt,   \* retries made so far
    body,      \* req.Body: "none", "full" or "read"
    resp,      \* the last attempt's response, or its error
    backoff,
    delay,     \* the sleep before the next attempt
    applied,   \* how often the server has carried out the request
    truncated, \* an attempt was sent without its body
    open,      \* response bodies not yet closed
    waited     \* time slept

vars == <<method, ctx, pc, attempt, body, resp, backoff, delay, applied,
          truncated, open, waited>>

-----------------------------------------------------------------------------
Statuses == {"ok", "4xx", "429", "5xx"}

Response(status, after) == [status |-> status, after |-> after]
None      == Response("none", -1)
Failed    == Response("err", -1)
Cause     == Response("ctx", -1)
BadBody   == Response("body", -1)
Responses == [status : Statuses, after : RetryAfters]

IsResponse(r) == r.status \in Statuses

isIdempotent(m) == m \in {"GET", "HEAD", "OPTIONS", "PUT", "DELETE"}

(* Variant: a failed exchange is retried whatever the method. *)
shouldRetryAny == resp.status \in {"err", "429", "5xx"}

shouldRetry ==
    \/ resp.status = "429"
    \/ resp.status \in {"err", "5xx"} /\ isIdempotent(method)

(* int64 arithmetic *)
Wrap(n) == ((n + MaxDuration) % (2 * MaxDuration)) - MaxDuration

retryAfter(r) == IF r.after < 0 THEN 0 ELSE Wrap(r.after * Second)

AtMost(n, m) == IF n > m THEN m ELSE n

(* Variant: Retry-After is honoured whatever it says. *)
DelayUncapped ==
    IF retryAfter(resp) > backoff THEN retryAfter(resp) ELSE backoff

(* Variant: a Retry-After that is present replaces the backoff. *)
DelayOverride ==
    AtMost(IF resp.after >= 0 THEN retryAfter(resp) ELSE backoff, MaxBackoff)

(* The longer of the backoff and Retry-After, capped. *)
Delay ==
    AtMost(IF retryAfter(resp) > backoff THEN retryAfter(resp) ELSE backoff,
           MaxBackoff)

-----------------------------------------------------------------------------
Init ==
    /\ method \in Methods
    /\ ctx = "live"
    /\ pc = "start"
    /\ attempt = 0
    /\ body \in {"none", "full"}
    /\ resp = None
    /\ backoff = InitialBackoff
    /\ delay = 0
    /\ applied = 0
    /\ truncated = FALSE
    /\ open = 0
    /\ waited = 0

(* readBody reads the body into a buffer, which may fail. *)
Start ==
    /\ pc = "start"
    /\ body' = IF Enabled /\ body = "full" THEN "read" ELSE body
    /\ \/ pc' = "send" /\ UNCHANGED resp
       \/ /\ body' = "read" /\ "body" \in Faults
          /\ pc' = "done"
          /\ resp' = BadBody
    /\ UNCHANGED <<method, ctx, attempt, backoff, delay, applied, truncated,
                   open, waited>>

(* Variant: the buffered body is put back once, before the loop. *)
AttemptBodyOnce == IF Enabled /\ body # "none" /\ attempt = 0 THEN "full"
                                                              ELSE body

(* The body an attempt is sent with: each gets a reader of its own. *)
AttemptBody == IF Enabled /\ body # "none" THEN "full" ELSE body

(* The server carries out what it answers with success, may have carried    *)
(* out what it answers with 5xx or does not answer, and nothing else.       *)
Effects(r) == IF r.status = "ok" THEN {1}
              ELSE IF r.status \in {"5xx", "err"} THEN {0, 1} ELSE {0}

(* One attempt. *)
Attempt ==
    /\ pc = "send"
    /\ truncated' = (truncated \/ AttemptBody = "read")
    /\ body' = IF body = "none" THEN "none" ELSE "read"
    /\ \E r \in Responses \cup (IF "err" \in Faults \/ ctx # "live"
                                THEN {Failed} ELSE {}) :
          /\ resp' = r
          /\ \E n \in Effects(r) : applied' = applied + n
          /\ open' = IF IsResponse(r) THEN open + 1 ELSE open
    /\ pc' = "decide"
    /\ UNCHANGED <<method, ctx, attempt, backoff, delay, waited>>

(* Variant: the response of a retried attempt is closed after the sleep. *)
CloseLate == UNCHANGED open

(* drainClose before the sleep. *)
drainClose == open' = IF IsResponse(resp) THEN open - 1 ELSE open

(* Out of retries, or nothing to retry: return.  Otherwise sleep. *)
Decide ==
    /\ pc = "decide"
    /\ IF ~Enabled \/ attempt >= MaxRetries \/ ~shouldRetry
       THEN pc' = "done" /\ UNCHANGED <<delay, open>>
       ELSE pc' = "sleep" /\ delay' = Delay /\ drainClose
    /\ UNCHANGED <<method, ctx, attempt, body, resp, backoff, applied,
                   truncated, waited>>

(* clock.sleep runs to its end; the backoff doubles up to MaxBackoff. *)
Slept ==
    /\ pc = "sleep"
    /\ waited' = waited + delay
    /\ backoff' = AtMost(Wrap(backoff * 2), MaxBackoff)
    /\ attempt' = attempt + 1
    /\ pc' = "send"
    /\ resp' = None
    /\ delay' = 0
    /\ UNCHANGED <<method, ctx, body, applied, truncated, open>>

(* The context ends the sleep: its cause is returned, without a response. *)
SleepCut ==
    /\ pc = "sleep"
    /\ ctx # "live"
    /\ resp' = Cause
    /\ delay' = 0
    /\ pc' = "done"
    /\ UNCHANGED <<method, ctx, attempt, body, backoff, applied, truncated,
                   open, waited>>

ContextEnds ==
    /\ "cancel" \in Faults
    /\ ctx = "live" /\ pc # "done"
    /\ ctx' = "ended"
    /\ UNCHANGED <<method, pc, attempt, body, resp, backoff, delay, applied,
                   truncated, open, waited>>

RoundTrip == Start \/ Attempt \/ Decide \/ Slept \/ SleepCut

Next == RoundTrip \/ ContextEnds

Spec == Init /\ [][Next]_vars

-----------------------------------------------------------------------------
(* Properties. *)

(* The type invariant: the waits and the attempts stay within their bounds. *)
TypeOK ==
    /\ method \in Methods
    /\ ctx \in {"live", "ended"}
    /\ pc \in {"start", "send", "decide", "sleep", "done"}
    /\ attempt \in 0 .. MaxRetries
    /\ body \in {"none", "full", "read"}
    /\ resp \in Responses \cup {None, Failed, Cause, BadBody}
    /\ backoff \in Nat
    /\ delay \in 0 .. MaxBackoff
    /\ applied \in Nat /\ open \in Nat
    /\ truncated \in BOOLEAN
    /\ waited \in Nat

(* "Silently re-sending [a failed POST] could double-create a resource"     *)
(* (transport.go:166-169): a request whose method is not idempotent is      *)
(* carried out at most once, whichever attempts fail and how.               *)
AtMostOnce == ~isIdempotent(method) => applied <= 1

(* Every attempt carries the request's whole body, although the first one   *)
(* has consumed it, and no response body is left open but the one handed to *)
(* the caller, also when the context ends between two attempts.             *)
BodiesIntact ==
    /\ ~truncated
    /\ pc \in {"start", "send", "sleep"} => open = 0
    /\ pc = "done" => open = IF IsResponse(resp) THEN 1 ELSE 0

(* Whatever a Retry-After says, in the range of a duration or beyond it, a  *)
(* retry waits at most MaxBackoff and, up to that, at least the backoff and *)
(* at least what the header asks: a value whose duration overflows cannot   *)
(* shorten a wait, and no mix of headers adds up to less than one initial   *)
(* backoff or to more than one MaxBackoff for each retry.                   *)
WaitBounded ==
    /\ pc = "sleep" =>
          /\ delay <= MaxBackoff
          /\ AtMost(backoff, MaxBackoff) <= delay
          /\ resp.after * Second < MaxDuration =>
                AtMost(resp.after * Second, MaxBackoff) <= delay
    /\ waited <= attempt * MaxBackoff
    /\ attempt * AtMost(InitialBackoff, MaxBackoff) <= waited

=============================================================================
