-------------------------- MODULE RetryStackProofs ---------------------------
(***************************************************************************)
(* Proofs about RetryStack, for any retry options, Retry-After headers and *)
(* faults.                                                                 *)
(*                                                                         *)
(* Inv is the inductive invariant: besides the types it says in which      *)
(* parts of the loop a response is open (Bodies), when the server may have *)
(* carried out the request (Applications), that a body is gone before an   *)
(* attempt only if retry is off and the attempt was the last (Replays),    *)
(* and that doubling the backoff cannot overflow and never brings it below *)
(* the first one (Waits).                                                  *)
(***************************************************************************)
EXTENDS RetryStack, TLAPS

Bodies ==
    /\ pc \in {"start", "send", "sleep"} => open = 0
    /\ pc \in {"decide", "done"} =>
          open = IF IsResponse(resp) THEN 1 ELSE 0

(* A request that must not be repeated has been carried out at most once,   *)
(* and not at all as long as it can still be sent again.                    *)
Applications ==
    ~isIdempotent(method) =>
        /\ applied <= 1
        /\ pc \in {"start", "send", "sleep"} => applied = 0
        /\ pc = "decide" /\ resp.status = "429" => applied = 0

Replays ==
    /\ ~truncated
    /\ ~Enabled => /\ pc # "sleep"
                   /\ pc \in {"start", "send"} => body # "read"

Waits ==
    /\ 2 * backoff < MaxDuration
    /\ AtMost(InitialBackoff, MaxBackoff) <= backoff
    /\ waited <= attempt * MaxBackoff
    /\ attempt * AtMost(InitialBackoff, MaxBackoff) <= waited
    /\ pc = "sleep" => attempt < MaxRetries

(* A sleep is as long as the backoff and Retry-After ask, up to the cap. *)
Sleeps ==
    pc = "sleep" =>
        /\ AtMost(backoff, MaxBackoff) <= delay
        /\ resp.after * Second < MaxDuration =>
              AtMost(resp.after * Second, MaxBackoff) <= delay

Inv == TypeOK /\ Bodies /\ Applications /\ Replays /\ Waits /\ Sleeps

-----------------------------------------------------------------------------
(* Durations that fit are not changed by the width of the word. *)
LEMMA WrapFits ==
    ASSUME NEW n \in Nat, n < MaxDuration
    PROVE  Wrap(n) = n
<1>1. MaxDuration \in Nat /\ MaxDuration > 0
  BY RetryAssumption
<1>2. n + MaxDuration \in 0 .. 2 * MaxDuration - 1
  BY <1>1
<1>3. \A a, b \in Nat : a < b => a % b = a
  OBVIOUS
<1> QED  BY <1>1, <1>2, <1>3 DEF Wrap

(* Whatever a Retry-After header says, its duration is an integer. *)
LEMMA RetryAfterIsInt ==
    ASSUME NEW r, r.after \in Int
    PROVE  retryAfter(r) \in Int
<1>1. MaxDuration \in Nat /\ MaxDuration > 0 /\ Second \in Nat
  BY RetryAssumption
<1>2. \A a \in Int, b \in Nat \ {0} : a % b \in Int
  OBVIOUS
<1>3. r.after * Second \in Int
  BY <1>1
<1>4. (r.after * Second + MaxDuration) % (2 * MaxDuration) \in Int
  BY <1>1, <1>2, <1>3
<1> QED  BY <1>1, <1>4 DEF retryAfter, Wrap

(* The delay before a retry is never negative, and at most MaxBackoff. *)
LEMMA DelayBounded ==
    ASSUME resp.after \in Int, backoff \in Nat
    PROVE  Delay \in 0 .. MaxBackoff
  BY RetryAfterIsInt, RetryAssumption DEF Delay, AtMost

(* What an attempt can come back with has a Retry-After of some kind. *)
LEMMA ResponseTypes ==
    ASSUME NEW r \in Responses \cup {None, Failed, Cause, BadBody}
    PROVE  r.after \in Int
<1>1. CASE r \in Responses
  BY <1>1, RetryAssumption DEF Responses
<1>2. -1 \in Int
  OBVIOUS
<1>3. CASE r \in {None, Failed, Cause, BadBody}
  BY <1>2, <1>3 DEF None, Failed, Cause, BadBody, Response
<1> QED  BY <1>1, <1>3

(* Neither an overflow nor the cap makes the delay shorter than the backoff *)
(* or than a Retry-After that is a duration, up to MaxBackoff.              *)
LEMMA DelayLongEnough ==
    ASSUME resp.after \in Int, backoff \in Nat
    PROVE  /\ AtMost(backoff, MaxBackoff) <= Delay
           /\ resp.after * Second < MaxDuration =>
                 AtMost(resp.after * Second, MaxBackoff) <= Delay
<1>1. retryAfter(resp) \in Int
  BY RetryAfterIsInt
<1>2. AtMost(backoff, MaxBackoff) <= Delay
  BY <1>1, RetryAssumption DEF Delay, AtMost
<1>3. ASSUME resp.after * Second < MaxDuration
      PROVE  AtMost(resp.after * Second, MaxBackoff) <= Delay
  <2>1. CASE resp.after < 0
    <3>1. \A a \in Int, b \in Nat : a < 0 => a * b \in Int /\ a * b <= 0
      OBVIOUS
    <3>2. resp.after * Second \in Int /\ resp.after * Second <= 0
      BY <2>1, <3>1, RetryAssumption
    <3>3. Delay \in 0 .. MaxBackoff
      BY DelayBounded
    <3> QED  BY <3>2, <3>3, RetryAssumption DEF AtMost
  <2>2. CASE resp.after >= 0
    <3>1. \A a, b \in Nat : a * b \in Nat
      OBVIOUS
    <3>2. resp.after * Second \in Nat
      BY <2>2, <3>1, RetryAssumption
    <3>3. retryAfter(resp) = resp.after * Second
      BY <1>3, <2>2, <3>2, WrapFits DEF retryAfter
    <3> QED  BY <3>2, <3>3, RetryAssumption DEF Delay, AtMost
  <2> QED  BY <2>1, <2>2
<1> QED  BY <1>2, <1>3

(* The invariant holds when RoundTrip is entered. *)
LEMMA InvInit == Init => Inv
<1> SUFFICES ASSUME Init PROVE Inv
  OBVIOUS
<1>1. TypeOK
  <2>1. method \in Methods /\ body \in {"none", "full", "read"}
    BY DEF Init
  <2>2. ctx \in {"live", "ended"} /\ resp = None
    BY DEF Init
  <2>3. /\ attempt \in 0 .. MaxRetries /\ delay \in 0 .. MaxBackoff
        /\ backoff \in Nat /\ applied \in Nat /\ open \in Nat
        /\ waited \in Nat
    BY RetryAssumption DEF Init
  <2>4. truncated \in BOOLEAN /\ pc = "start"
    BY DEF Init
  <2> QED  BY <2>1, <2>2, <2>3, <2>4 DEF TypeOK
<1>2. Bodies /\ Applications
  BY DEF Init, Bodies, Applications
<1>3. Replays /\ Sleeps
  BY DEF Init, Replays, Sleeps
<1>4. Waits
  BY RetryAssumption DEF Init, Waits, AtMost
<1> QED  BY <1>1, <1>2, <1>3, <1>4 DEF Inv

(* One step of the loop, or the end of the context, keeps the types. *)
LEMMA TypeStep == Inv /\ [Next]_vars => TypeOK'
<1> SUFFICES ASSUME Inv, [Next]_vars PROVE TypeOK'
  OBVIOUS
<1> USE DEF Inv, TypeOK
<1>1. CASE Start
  BY <1>1 DEF Start
<1>2. CASE Attempt
  BY <1>2 DEF Attempt, Effects
<1>3. CASE Decide
  <2>1. Delay \in 0 .. MaxBackoff
    BY DelayBounded, ResponseTypes
  <2>2. open' \in Nat
    BY <1>3 DEF Decide, drainClose, Bodies
  <2> QED  BY <1>3, <2>1, <2>2 DEF Decide
<1>4. CASE Slept
  <2>1. Wrap(backoff * 2) = backoff * 2
    BY WrapFits DEF Waits
  <2>2. backoff' \in Nat
    BY <1>4, <2>1, RetryAssumption DEF Slept, AtMost
  <2>3. attempt' \in 0 .. MaxRetries
    BY <1>4, RetryAssumption DEF Slept, Waits
  <2>4. delay' \in 0 .. MaxBackoff /\ waited' \in Nat
    BY <1>4, RetryAssumption DEF Slept
  <2> QED  BY <1>4, <2>2, <2>3, <2>4 DEF Slept
<1>5. CASE SleepCut
  BY <1>5, RetryAssumption DEF SleepCut
<1>6. CASE ContextEnds
  BY <1>6 DEF ContextEnds
<1>7. CASE UNCHANGED vars
  BY <1>7 DEF vars
<1> QED  BY <1>1, <1>2, <1>3, <1>4, <1>5, <1>6, <1>7 DEF Next, RoundTrip

(* drainClose runs before every sleep, so that no response is left open. *)
LEMMA BodiesStep == Inv /\ [Next]_vars => Bodies'
<1> SUFFICES ASSUME Inv, [Next]_vars PROVE Bodies'
  OBVIOUS
<1> USE DEF Inv, TypeOK, Bodies, IsResponse, Statuses
<1>1. CASE Start
  BY <1>1 DEF Start, BadBody, Response
<1>2. CASE Attempt
  BY <1>2 DEF Attempt
<1>3. CASE Decide
  BY <1>3 DEF Decide, drainClose
<1>4. CASE Slept
  BY <1>4 DEF Slept
<1>5. CASE SleepCut
  BY <1>5 DEF SleepCut, Cause, Response
<1>6. CASE ContextEnds
  BY <1>6 DEF ContextEnds
<1>7. CASE UNCHANGED vars
  BY <1>7 DEF vars
<1> QED  BY <1>1, <1>2, <1>3, <1>4, <1>5, <1>6, <1>7 DEF Next, RoundTrip

(* Only a 429, which the server did not carry out, is retried for a method  *)
(* that is not idempotent.                                                  *)
LEMMA ApplicationsStep == Inv /\ [Next]_vars => Applications'
<1> SUFFICES ASSUME Inv, [Next]_vars PROVE Applications'
  OBVIOUS
<1>0. method' = method
  BY DEF Next, RoundTrip, Start, Attempt, Decide, Slept, SleepCut,
     ContextEnds, vars
<1> SUFFICES ASSUME ~isIdempotent(method)
             PROVE  /\ applied' <= 1
                    /\ pc' \in {"start", "send", "sleep"} => applied' = 0
                    /\ pc' = "decide" /\ resp'.status = "429" => applied' = 0
  BY <1>0 DEF Applications, isIdempotent
<1> USE DEF Inv, TypeOK, Applications
<1>1. CASE Start
  BY <1>1 DEF Start
<1>2. CASE Attempt
  BY <1>2 DEF Attempt, Effects
<1>3. CASE Decide
  BY <1>3 DEF Decide, shouldRetry
<1>4. CASE Slept
  BY <1>4 DEF Slept
<1>5. CASE SleepCut
  BY <1>5 DEF SleepCut
<1>6. CASE ContextEnds
  BY <1>6 DEF ContextEnds
<1>7. CASE UNCHANGED vars
  BY <1>7 DEF vars
<1> QED  BY <1>1, <1>2, <1>3, <1>4, <1>5, <1>6, <1>7 DEF Next, RoundTrip

(* readBody kept the body, and every attempt gets a reader of its own. *)
LEMMA ReplaysStep == Inv /\ [Next]_vars => Replays'
<1> SUFFICES ASSUME Inv, [Next]_vars PROVE Replays'
  OBVIOUS
<1> USE DEF Inv, TypeOK, Replays
<1>1. CASE Start
  BY <1>1 DEF Start
<1>2. CASE Attempt
  <2>1. AttemptBody # "read"
    BY <1>2 DEF Attempt, AttemptBody
  <2> QED  BY <1>2, <2>1 DEF Attempt
<1>3. CASE Decide
  BY <1>3 DEF Decide
<1>4. CASE Slept
  BY <1>4 DEF Slept
<1>5. CASE SleepCut
  BY <1>5 DEF SleepCut
<1>6. CASE ContextEnds
  BY <1>6 DEF ContextEnds
<1>7. CASE UNCHANGED vars
  BY <1>7 DEF vars
<1> QED  BY <1>1, <1>2, <1>3, <1>4, <1>5, <1>6, <1>7 DEF Next, RoundTrip

(* A sleep adds at most MaxBackoff, and at least the first backoff, to what *)
(* has been waited.                                                         *)
LEMMA WaitsStep == Inv /\ [Next]_vars => Waits'
<1> SUFFICES ASSUME Inv, [Next]_vars PROVE Waits'
  OBVIOUS
<1> USE DEF Inv, TypeOK, Waits
<1>1. CASE Start
  BY <1>1 DEF Start
<1>2. CASE Attempt
  BY <1>2 DEF Attempt
<1>3. CASE Decide
  BY <1>3, RetryAssumption DEF Decide
<1>4. CASE Slept
  <2>1. Wrap(backoff * 2) = backoff * 2
    BY WrapFits
  <2>2. 2 * backoff' < MaxDuration
    BY <1>4, <2>1, RetryAssumption DEF Slept, AtMost
  <2> DEFINE Least == AtMost(InitialBackoff, MaxBackoff)
  <2>0. Least \in Nat /\ Least <= delay /\ Least <= backoff'
    BY <1>4, <2>1, RetryAssumption DEF Slept, Sleeps, AtMost
  <2> HIDE DEF Least
  <2>3. /\ (attempt + 1) * MaxBackoff = attempt * MaxBackoff + MaxBackoff
        /\ (attempt + 1) * Least = attempt * Least + Least
    BY <2>0, RetryAssumption
  <2>4. waited' <= attempt' * MaxBackoff
    <3>1. waited' = waited + delay /\ attempt' = attempt + 1
      BY <1>4 DEF Slept
    <3>2. attempt * MaxBackoff \in Nat
      BY RetryAssumption
    <3> QED  BY <3>1, <3>2, <2>3, RetryAssumption
  <2>5. attempt' * Least <= waited'
    <3>1. waited' = waited + delay /\ attempt' = attempt + 1
      BY <1>4 DEF Slept
    <3>2. attempt * Least \in Nat /\ attempt * Least <= waited
      BY <2>0, RetryAssumption DEF Least
    <3> QED  BY <3>1, <3>2, <2>0, <2>3
  <2> QED  BY <1>4, <2>0, <2>2, <2>4, <2>5 DEF Slept, Least
<1>5. CASE SleepCut
  BY <1>5 DEF SleepCut
<1>6. CASE ContextEnds
  BY <1>6 DEF ContextEnds
<1>7. CASE UNCHANGED vars
  BY <1>7 DEF vars
<1> QED  BY <1>1, <1>2, <1>3, <1>4, <1>5, <1>6, <1>7 DEF Next, RoundTrip

(* Decide computes the delay from the backoff and the answer that the       *)
(* sleep leaves as they are.                                                *)
LEMMA SleepsStep == Inv /\ [Next]_vars => Sleeps'
<1> SUFFICES ASSUME Inv, [Next]_vars PROVE Sleeps'
  OBVIOUS
<1> USE DEF Inv, TypeOK, Sleeps
<1>1. CASE Decide
  <2>1. /\ AtMost(backoff, MaxBackoff) <= Delay
        /\ resp.after * Second < MaxDuration =>
              AtMost(resp.after * Second, MaxBackoff) <= Delay
    BY DelayLongEnough, ResponseTypes
  <2> QED  BY <1>1, <2>1 DEF Decide
<1>2. CASE Start \/ Attempt \/ Slept \/ SleepCut
  BY <1>2 DEF Start, Attempt, Slept, SleepCut
<1>3. CASE ContextEnds
  BY <1>3 DEF ContextEnds
<1>4. CASE UNCHANGED vars
  BY <1>4 DEF vars
<1> QED  BY <1>1, <1>2, <1>3, <1>4 DEF Next, RoundTrip

(* Inv holds in every reachable state. *)
LEMMA Invariance == Spec => []Inv
<1>1. Inv /\ [Next]_vars => Inv'
  BY TypeStep, BodiesStep, ApplicationsStep, ReplaysStep, WaitsStep, SleepsStep
     DEF Inv
<1> QED  BY <1>1, InvInit, PTL DEF Spec

-----------------------------------------------------------------------------
(* The waits and the attempts of retryTransport stay within their bounds,   *)
(* whatever the durations that Retry-After headers wrap around to.          *)
THEOREM TypeCorrect == Spec => []TypeOK
<1>1. Inv => TypeOK
  BY DEF Inv
<1> QED  BY <1>1, Invariance, PTL

(* A request whose method is not idempotent is carried out at most once,    *)
(* for any number of retries.                                               *)
THEOREM CarriedOutOnce == Spec => []AtMostOnce
<1>1. Inv => AtMostOnce
  BY DEF Inv, Applications, AtMostOnce
<1> QED  BY <1>1, Invariance, PTL

(* retryTransport sends the whole body of the request with every attempt,   *)
(* and closes every response it does not return.                            *)
THEOREM NoBodyLost == Spec => []BodiesIntact
<1>1. Inv => BodiesIntact
  BY DEF Inv, Replays, Bodies, BodiesIntact
<1> QED  BY <1>1, Invariance, PTL

(* For each retry a request waits at most MaxBackoff and at least as long   *)
(* as the backoff and Retry-After ask, whatever durations wrap around to.   *)
THEOREM WaitsAreBounded == Spec => []WaitBounded
<1>1. Inv => WaitBounded
  <2> SUFFICES ASSUME Inv PROVE WaitBounded
    OBVIOUS
  <2>1. pc = "sleep" => delay <= MaxBackoff
    BY RetryAssumption DEF Inv, TypeOK
  <2> QED  BY <2>1 DEF Inv, Waits, Sleeps, WaitBounded
<1> QED  BY <1>1, Invariance, PTL

=============================================================================
