------------------------------ MODULE AppTokens ------------------------------
(***************************************************************************)
(* GitHub App credentials (appauth/): concurrent requests that share one   *)
(* InstallationTokenSource, which mints and caches an installation token,  *)
(* and one AppAuthTransport, which signs and caches the app's JWT.         *)
(*                                                                         *)
(* Every instant is kept as the time left until it on the local clock, 0   *)
(* once it has passed; the server's clock is skew ahead of the local one.  *)
(* A zero instant (time.Time{}) is one that has passed, so "no token yet"  *)
(* and "token past its good" read the same, as they do in the code.        *)
(***************************************************************************)
EXTENDS Integers, FiniteSets

CONSTANTS
    Requests,           \* goroutines that issue one request after another
    Kinds,              \* of {"repo", "apps"}: which API they talk to
    Lifetimes,          \* lifetimes GitHub may give a token, 0: none stated
    Skews,              \* server clock minus local clock
    Latency,            \* bound: ticks a message may spend on its way
    JWTCap,             \* how far ahead GitHub lets the exp of a JWT be
    jwtTTL, jwtBackdate, tokenRefreshLead

ASSUME TokensAssumption ==
    /\ "none" \notin Requests
    /\ Kinds \subseteq {"repo", "apps"}
    /\ Lifetimes \subseteq Nat
    /\ Skews \subseteq Int
    /\ Latency \in Nat
    /\ jwtBackdate \in Nat /\ tokenRefreshLead \in Nat
    /\ jwtTTL \in Nat /\ jwtTTL > jwtBackdate + tokenRefreshLead
    /\ JWTCap \in Nat /\ jwtTTL <= JWTCap

VARIABLES
    skew,       \* server clock minus local clock, fixed for a behaviour
    jwt,        \* AppAuthTransport: exp of the cached JWT and jwtGood
    token,      \* InstallationTokenSource: expiry of the token and good
    holder,     \* who holds InstallationTokenSource.mu
    pc,         \* where each request is
    kind,       \* the API it talks to
    carried,    \* time left on the credential it carries or is handed
    minted,     \* whether it minted the token it carries
    waited      \* ticks its current message has been on its way

vars == <<skew, jwt, token, holder, pc, kind, carried, minted, waited>>

None == "none"
Empty == -1         \* GitHub's answer held no token

Passed == [exp |-> 0, good |-> 0]

InFlight == {"ask", "answer", "send"}

(***************************************************************************)
(* The instants the code computes, relative to the clock it reads.         *)
(***************************************************************************)

\* Sign: the claims of a JWT signed now. iat = exp - jwtTTL - jwtBackdate.
Sign == jwtTTL

\* Variant: a JWT is reused until the very end of its life.
jwtValidUntilExp == jwtTTL

\* jwtValidUntil.
jwtValidUntil == jwtTTL - jwtBackdate - tokenRefreshLead

\* Variant: no refresh lead.
GoodUntilExpiry(left) == left

\* Variant: a short-lived token is not trusted "until now" but until an
\* instant before now.
GoodUntilPast(left) == left - tokenRefreshLead

\* good of a token with `left' until its expiry: a lead before it, or now
\* when that instant has already passed.
GoodUntil(left) == IF left > tokenRefreshLead THEN left - tokenRefreshLead ELSE 0

\* GitHub's rules for the claims of a JWT with `left' until its exp: iat is
\* not in the future, exp is in the future and at most JWTCap away.
Accepts(left) ==
    LET exp == left - skew
    IN  /\ exp > 0
        /\ exp <= JWTCap
        /\ exp - jwtTTL - jwtBackdate <= 0

Elapse(left) == IF left > 0 THEN left - 1 ELSE left

-----------------------------------------------------------------------------

Init ==
    /\ skew \in Skews
    /\ jwt = Passed
    /\ token = Passed
    /\ holder = None
    /\ pc = [r \in Requests |-> "idle"]
    /\ kind \in [Requests -> Kinds]
    /\ carried = [r \in Requests |-> 0]
    /\ minted = [r \in Requests |-> FALSE]
    /\ waited = [r \in Requests |-> 0]

Goto(r, l) ==
    /\ pc' = [pc EXCEPT ![r] = l]
    /\ waited' = [waited EXCEPT ![r] = 0]

Carry(r, left) == carried' = [carried EXCEPT ![r] = left]

\* The deferred s.mu.Unlock(), on every return of Token.
Unlock(r) == holder' = IF holder = r THEN None ELSE holder

\* RoundTrip is called: InstallationTokenTransport asks the source for a
\* token, AppAuthTransport for a JWT.
Call(r, k) ==
    /\ pc[r] = "idle"
    /\ kind' = [kind EXCEPT ![r] = k]
    /\ minted' = [minted EXCEPT ![r] = FALSE]
    /\ Carry(r, 0)
    /\ Goto(r, IF k = "repo" THEN "lock" ELSE "sign")
    /\ UNCHANGED <<skew, jwt, token, holder>>

\* Token takes the mutex and finds the cached token good: hand it out.
Reuse(r) ==
    /\ pc[r] = "lock"
    /\ holder = None
    /\ token.good > 0
    /\ Carry(r, token.exp)
    /\ Goto(r, "send")
    /\ UNCHANGED <<skew, jwt, token, holder, kind, minted>>

\* Variant: the mutex guards the cache but is not held across the mint.
MintUnheld(r) ==
    /\ pc[r] = "lock"
    /\ holder = None
    /\ token.good = 0
    /\ Goto(r, "sign")
    /\ UNCHANGED <<skew, jwt, token, holder, kind, carried, minted>>

\* Token takes the mutex, finds no good token, and calls
\* CreateInstallationToken with the mutex held.
Mint(r) ==
    /\ pc[r] = "lock"
    /\ holder = None
    /\ token.good = 0
    /\ holder' = r
    /\ Goto(r, "sign")
    /\ UNCHANGED <<skew, jwt, token, kind, carried, minted>>

\* AppAuthTransport.currentJWT: the cached JWT, or a new one.
currentJWT(r) ==
    /\ pc[r] = "sign"
    /\ jwt' = IF jwt.good > 0 THEN jwt ELSE [exp |-> Sign, good |-> jwtValidUntil]
    /\ Carry(r, jwt'.exp)
    /\ Goto(r, "ask")
    /\ UNCHANGED <<skew, token, holder, kind, minted>>

\* GitHub receives a mint request with a JWT it accepts, and answers with a
\* token or without one.
Grant(r, left) ==
    /\ pc[r] = "ask" /\ kind[r] = "repo"
    /\ Accepts(carried[r])
    /\ Carry(r, left)
    /\ Goto(r, "answer")
    /\ UNCHANGED <<skew, jwt, token, holder, kind, minted>>

\* Token stores the answer and returns the new token.
Store(r) ==
    /\ pc[r] = "answer"
    /\ carried[r] # Empty
    /\ token' = [exp |-> carried[r], good |-> GoodUntil(carried[r])]
    /\ minted' = [minted EXCEPT ![r] = TRUE]
    /\ Unlock(r)
    /\ Goto(r, "send")
    /\ UNCHANGED <<skew, jwt, kind, carried>>

\* Variant: the error paths of Token forget the mutex.
FailLocked(r) ==
    /\ \/ pc[r] \in {"sign", "ask"}
       \/ pc[r] = "answer" /\ carried[r] = Empty
    /\ Goto(r, "idle")
    /\ UNCHANGED <<skew, jwt, token, holder, kind, carried, minted>>

\* Token, or the Apps request, returns an error and changes no cache: the
\* JWT cannot be signed, the request fails, is cancelled or is refused, or
\* the answer holds no token.
Fail(r) ==
    /\ \/ pc[r] \in {"sign", "ask"}
       \/ pc[r] = "answer" /\ carried[r] = Empty
    /\ Unlock(r)
    /\ Goto(r, "idle")
    /\ UNCHANGED <<skew, jwt, token, kind, carried, minted>>

\* The clone of the request, with its Authorization header, reaches GitHub
\* and RoundTrip returns.
Sent(r) ==
    /\ \/ pc[r] = "send"
       \/ pc[r] = "ask" /\ kind[r] = "apps"
    /\ Goto(r, "idle")
    /\ UNCHANGED <<skew, jwt, token, holder, kind, carried, minted>>

\* Time passes; no message stays on its way longer than Latency.
Tick ==
    /\ \A r \in Requests : pc[r] \in InFlight => waited[r] < Latency
    /\ jwt' = [exp |-> Elapse(jwt.exp), good |-> Elapse(jwt.good)]
    /\ token' = [exp |-> Elapse(token.exp), good |-> Elapse(token.good)]
    /\ carried' = [r \in Requests |-> Elapse(carried[r])]
    /\ waited' = [r \in Requests |->
                    IF pc[r] \in InFlight THEN waited[r] + 1 ELSE waited[r]]
    /\ UNCHANGED <<skew, holder, pc, kind, minted>>

Acquire(r) == Reuse(r) \/ Mint(r)

Answer(r) == (\E left \in Lifetimes \cup {Empty} : Grant(r, left)) \/ Store(r)

Next ==
    \/ \E r \in Requests :
        \/ \E k \in Kinds : Call(r, k)
        \/ Acquire(r) \/ currentJWT(r) \/ Answer(r) \/ Fail(r) \/ Sent(r)
    \/ Tick

Spec == Init /\ [][Next]_vars

-----------------------------------------------------------------------------

CachedOK(c) == c \in [exp : Nat, good : Nat]

\* Type invariant.
TypeOK ==
    /\ skew \in Skews
    /\ CachedOK(jwt) /\ CachedOK(token)
    /\ holder \in Requests \cup {None}
    /\ pc \in [Requests -> {"idle", "lock", "sign"} \cup InFlight]
    /\ kind \in [Requests -> Kinds]
    /\ carried \in [Requests -> Nat \cup {Empty}]
    /\ minted \in [Requests -> BOOLEAN]
    /\ waited \in [Requests -> 0..Latency]

Minting == {r \in Requests : kind[r] = "repo" /\ pc[r] \in {"sign", "ask", "answer"}}

(***************************************************************************)
(* Token mints at most one token at a time, and never while the cached one *)
(* is still good: a request that waited for another's mint shares its      *)
(* token instead of minting again (Token holds mu across the mint).  And   *)
(* the mutex is never left behind: whoever holds it is minting, whichever  *)
(* of its four returns Token has taken before.                             *)
(***************************************************************************)
OneMint ==
    /\ Cardinality(Minting) <= 1
    /\ Minting # {} => token.good = 0
    /\ holder # None => holder \in Minting

(***************************************************************************)
(* A request that shares a cached token reaches GitHub while the token is  *)
(* still valid on GitHub's clock, although the clock kept running between  *)
(* Token's check and the send: what tokenRefreshLead is for. A token just  *)
(* minted is used whatever its lifetime.                                   *)
(***************************************************************************)
SharedTokenValid ==
    \A r \in Requests :
        pc[r] = "send" /\ ~minted[r] => carried[r] - skew > 0

(***************************************************************************)
(* Every JWT that reaches GitHub is one GitHub accepts, cached ones and    *)
(* clock skew included: what jwtBackdate and jwtValidUntil are for.        *)
(***************************************************************************)
JWTAccepted ==
    \A r \in Requests : pc[r] = "ask" => Accepts(carried[r])

=============================================================================
