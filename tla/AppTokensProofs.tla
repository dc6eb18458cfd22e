--------------------------- MODULE AppTokensProofs ---------------------------
(***************************************************************************)
(* Proofs about AppTokens, for any number of requests and any lifetimes.   *)
(*                                                                         *)
(* Inv is the inductive invariant: the mutex is held by exactly the        *)
(* request that mints, and only while no good token is cached (Exclusion); *)
(* a cached credential that is still good has its margin left (Margins);   *)
(* and a request gives up at most one tick of that margin for every tick   *)
(* its message has been on its way (Spent).                                *)
(***************************************************************************)
EXTENDS AppTokens, FiniteSetTheorems, TLAPS

Mints(r) == kind[r] = "repo" /\ pc[r] \in {"sign", "ask", "answer"}

Exclusion ==
    /\ \A r \in Requests : Mints(r) <=> holder = r
    /\ holder # None => token.good = 0
    /\ \A r \in Requests : pc[r] \in {"lock", "answer"} => kind[r] = "repo"

jwtMargin == jwtBackdate + tokenRefreshLead

Margins ==
    /\ token.good > 0 => token.exp = token.good + tokenRefreshLead
    /\ jwt.good > 0 => jwt.exp = jwt.good + jwtMargin
    /\ jwt.exp <= jwtTTL

Spent ==
    /\ \A r \in Requests : pc[r] = "send" /\ ~minted[r] =>
          carried[r] + waited[r] > tokenRefreshLead
    /\ \A r \in Requests : pc[r] = "ask" =>
          carried[r] + waited[r] > jwtMargin /\ carried[r] <= jwtTTL

Inv == TypeOK /\ Exclusion /\ Margins /\ Spent

-----------------------------------------------------------------------------
(* Letting time pass keeps an instant, and never makes it later. *)
LEMMA ElapseType ==
    ASSUME NEW n \in Nat \cup {Empty}
    PROVE  /\ Elapse(n) \in Nat \cup {Empty}
           /\ n \in Nat => Elapse(n) \in Nat
           /\ Elapse(n) <= n /\ Elapse(n) + 1 >= n
           /\ n > 0 => Elapse(n) = n - 1
           /\ n = 0 => Elapse(n) = 0
  BY DEF Elapse, Empty

(* The invariant holds before the first request. *)
LEMMA InvInit == Init => Inv
<1> SUFFICES ASSUME Init PROVE Inv
  OBVIOUS
<1>1. TypeOK
  BY TokensAssumption DEF Init, TypeOK, CachedOK, Passed, InFlight, None
<1>2. Exclusion
  BY TokensAssumption DEF Init, Exclusion, Mints, None, Passed
<1>3. Margins
  BY TokensAssumption DEF Init, Margins, Passed
<1>4. Spent
  BY DEF Init, Spent
<1> QED  BY <1>1, <1>2, <1>3, <1>4 DEF Inv

(* Every step keeps the types. *)
LEMMA TypeStep == Inv /\ [Next]_vars => TypeOK'
<1> SUFFICES ASSUME Inv, [Next]_vars PROVE TypeOK'
  OBVIOUS
<1> USE TokensAssumption DEF Inv, TypeOK, CachedOK, InFlight, None
<1>1. ASSUME NEW r \in Requests, NEW k \in Kinds, Call(r, k) PROVE TypeOK'
  BY <1>1 DEF Call, Goto, Carry, Unlock
<1>2. ASSUME NEW r \in Requests, Reuse(r) PROVE TypeOK'
  BY <1>2 DEF Reuse, Goto, Carry, Unlock
<1>3. ASSUME NEW r \in Requests, Mint(r) PROVE TypeOK'
  BY <1>3 DEF Mint, Goto, Carry, Unlock
<1>4. ASSUME NEW r \in Requests, currentJWT(r) PROVE TypeOK'
  BY <1>4 DEF currentJWT, Goto, Carry, Sign, jwtValidUntil
<1>5. ASSUME NEW r \in Requests, NEW left \in Lifetimes \cup {Empty}, Grant(r, left) PROVE TypeOK'
  BY <1>5 DEF Grant, Goto, Carry, Empty
<1>6. ASSUME NEW r \in Requests, Store(r) PROVE TypeOK'
  <2>1. carried[r] \in Nat
    BY <1>6 DEF Store
  <2>2. GoodUntil(carried[r]) \in Nat
    BY <2>1 DEF GoodUntil
  <2> QED  BY <1>6, <2>1, <2>2 DEF Store, Goto, Unlock
<1>7. ASSUME NEW r \in Requests, Fail(r) PROVE TypeOK'
  BY <1>7 DEF Fail, Goto, Carry, Unlock
<1>8. ASSUME NEW r \in Requests, Sent(r) PROVE TypeOK'
  BY <1>8 DEF Sent, Goto, Carry, Unlock
<1>9. CASE Tick
  <2>1. CachedOK(jwt)' /\ CachedOK(token)'
    BY <1>9, ElapseType DEF Tick
  <2>2. carried' \in [Requests -> Nat \cup {Empty}]
    BY <1>9, ElapseType DEF Tick
  <2>3. waited' \in [Requests -> 0..Latency]
    BY <1>9 DEF Tick
  <2> QED  BY <1>9, <2>1, <2>2, <2>3 DEF Tick
<1>10. CASE UNCHANGED vars
  BY <1>10 DEF vars
<1> QED
  BY <1>1, <1>2, <1>3, <1>4, <1>5, <1>6, <1>7, <1>8, <1>9, <1>10
     DEF Next, Acquire, Answer

(* The mutex: Mint takes it, Store and Fail give it back. *)
LEMMA ExclusionStep == Inv /\ [Next]_vars => Exclusion'
<1> SUFFICES ASSUME Inv, [Next]_vars PROVE Exclusion'
  OBVIOUS
<1> USE TokensAssumption DEF Inv, TypeOK, CachedOK, Exclusion, Mints, InFlight, None
<1>1. ASSUME NEW r \in Requests, NEW k \in Kinds, Call(r, k) PROVE Exclusion'
  BY <1>1 DEF Call, Goto, Carry, Unlock
<1>2. ASSUME NEW r \in Requests, Reuse(r) PROVE Exclusion'
  BY <1>2 DEF Reuse, Goto, Carry, Unlock
<1>3. ASSUME NEW r \in Requests, Mint(r) PROVE Exclusion'
  BY <1>3 DEF Mint, Goto, Carry, Unlock
<1>4. ASSUME NEW r \in Requests, currentJWT(r) PROVE Exclusion'
  BY <1>4 DEF currentJWT, Goto, Carry, Unlock
<1>5. ASSUME NEW r \in Requests, NEW left \in Lifetimes \cup {Empty}, Grant(r, left) PROVE Exclusion'
  BY <1>5 DEF Grant, Goto, Carry, Unlock
<1>6. ASSUME NEW r \in Requests, Store(r) PROVE Exclusion'
  BY <1>6 DEF Store, Goto, Carry, Unlock
<1>7. ASSUME NEW r \in Requests, Fail(r) PROVE Exclusion'
  BY <1>7 DEF Fail, Goto, Carry, Unlock
<1>8. ASSUME NEW r \in Requests, Sent(r) PROVE Exclusion'
  BY <1>8 DEF Sent, Goto, Carry, Unlock
<1>9. CASE Tick
  <2>1. token.good = 0 => token'.good = 0
    BY <1>9, ElapseType DEF Tick
  <2> QED  BY <1>9, <2>1 DEF Tick
<1>10. CASE UNCHANGED vars
  BY <1>10 DEF vars
<1> QED
  BY <1>1, <1>2, <1>3, <1>4, <1>5, <1>6, <1>7, <1>8, <1>9, <1>10
     DEF Next, Acquire, Answer

(* good is set a margin before the expiry, and both come closer together. *)
LEMMA MarginsStep == Inv /\ [Next]_vars => Margins'
<1> SUFFICES ASSUME Inv, [Next]_vars PROVE Margins'
  OBVIOUS
<1> USE TokensAssumption DEF Inv, TypeOK, CachedOK, Margins, jwtMargin
<1>1. ASSUME NEW r \in Requests, NEW k \in Kinds, Call(r, k) PROVE Margins'
  BY <1>1 DEF Call, Goto, Carry, Unlock
<1>2. ASSUME NEW r \in Requests, Reuse(r) PROVE Margins'
  BY <1>2 DEF Reuse, Goto, Carry, Unlock
<1>3. ASSUME NEW r \in Requests, Mint(r) PROVE Margins'
  BY <1>3 DEF Mint, Goto, Carry, Unlock
<1>4. ASSUME NEW r \in Requests, currentJWT(r) PROVE Margins'
  BY <1>4 DEF currentJWT, Sign, jwtValidUntil
<1>5. ASSUME NEW r \in Requests, NEW left \in Lifetimes \cup {Empty}, Grant(r, left) PROVE Margins'
  BY <1>5 DEF Grant, Goto, Carry, Unlock
<1>6. ASSUME NEW r \in Requests, Store(r) PROVE Margins'
  BY <1>6 DEF Store, GoodUntil, Empty
<1>7. ASSUME NEW r \in Requests, Fail(r) PROVE Margins'
  BY <1>7 DEF Fail, Goto, Carry, Unlock
<1>8. ASSUME NEW r \in Requests, Sent(r) PROVE Margins'
  BY <1>8 DEF Sent, Goto, Carry, Unlock
<1>9. CASE Tick
  BY <1>9 DEF Tick, Elapse
<1>10. CASE UNCHANGED vars
  BY <1>10 DEF vars
<1> QED
  BY <1>1, <1>2, <1>3, <1>4, <1>5, <1>6, <1>7, <1>8, <1>9, <1>10
     DEF Next, Acquire, Answer

(* A credential is handed out with its margin, which its way to GitHub uses up. *)
LEMMA SpentStep == Inv /\ [Next]_vars => Spent'
<1> SUFFICES ASSUME Inv, [Next]_vars PROVE Spent'
  OBVIOUS
<1> USE TokensAssumption DEF Inv, TypeOK, CachedOK, Margins, Spent, jwtMargin, InFlight
<1>1. ASSUME NEW r \in Requests, NEW k \in Kinds, Call(r, k) PROVE Spent'
  BY <1>1 DEF Call, Goto, Carry, Unlock
<1>2. ASSUME NEW r \in Requests, Reuse(r) PROVE Spent'
  BY <1>2 DEF Reuse, Goto, Carry, Unlock
<1>3. ASSUME NEW r \in Requests, Mint(r) PROVE Spent'
  BY <1>3 DEF Mint, Goto, Carry, Unlock
<1>4. ASSUME NEW r \in Requests, currentJWT(r) PROVE Spent'
  <2>1. jwt'.exp > jwtMargin /\ jwt'.exp <= jwtTTL
    BY <1>4 DEF currentJWT, Sign
  <2>2. carried'[r] = jwt'.exp /\ waited'[r] = 0 /\ pc'[r] = "ask"
    BY <1>4 DEF currentJWT, Goto, Carry
  <2>3. jwt'.exp + 0 > jwtMargin
    BY <2>1, <1>4 DEF currentJWT, Sign
  <2>4. \A q \in Requests \ {r} : /\ pc'[q] = pc[q] /\ carried'[q] = carried[q]
                                 /\ waited'[q] = waited[q] /\ minted'[q] = minted[q]
    BY <1>4 DEF currentJWT, Goto, Carry
  <2> QED  BY <2>1, <2>2, <2>3, <2>4
<1>5. ASSUME NEW r \in Requests, NEW left \in Lifetimes \cup {Empty}, Grant(r, left) PROVE Spent'
  BY <1>5 DEF Grant, Goto, Carry, Unlock
<1>6. ASSUME NEW r \in Requests, Store(r) PROVE Spent'
  BY <1>6 DEF Store, Goto, Carry, Unlock
<1>7. ASSUME NEW r \in Requests, Fail(r) PROVE Spent'
  BY <1>7 DEF Fail, Goto, Carry, Unlock
<1>8. ASSUME NEW r \in Requests, Sent(r) PROVE Spent'
  BY <1>8 DEF Sent, Goto, Carry, Unlock
<1>9. CASE Tick
  <2>1. \A r \in Requests : pc[r] \in InFlight =>
           /\ carried'[r] + waited'[r] >= carried[r] + waited[r]
           /\ carried'[r] <= carried[r]
    <3> TAKE r \in Requests
    <3> HAVE pc[r] \in InFlight
    <3>1. carried'[r] = Elapse(carried[r]) /\ waited'[r] = waited[r] + 1
      BY <1>9 DEF Tick
    <3>2. carried[r] \in Nat \cup {Empty} /\ waited[r] \in Nat
      OBVIOUS
    <3> QED  BY <3>1, <3>2, ElapseType DEF Empty
  <2>2. pc' = pc /\ minted' = minted
    BY <1>9 DEF Tick
  <2>3. \A r \in Requests : /\ carried[r] \in Int /\ carried'[r] \in Int
                            /\ waited[r] \in Int /\ waited'[r] \in Int
    BY <1>9, ElapseType DEF Tick, Empty
  <2> QED  BY <2>1, <2>2, <2>3
<1>10. CASE UNCHANGED vars
  BY <1>10 DEF vars
<1> QED
  BY <1>1, <1>2, <1>3, <1>4, <1>5, <1>6, <1>7, <1>8, <1>9, <1>10
     DEF Next, Acquire, Answer

(* Inv holds in every reachable state. *)
LEMMA Invariance == Spec => []Inv
<1>1. Inv /\ [Next]_vars => Inv'
  BY TypeStep, ExclusionStep, MarginsStep, SpentStep DEF Inv
<1> QED  BY <1>1, InvInit, PTL DEF Spec

-----------------------------------------------------------------------------
(* The caches of the token source and of the JWT transport keep their types. *)
THEOREM TypeCorrect == Spec => []TypeOK
<1>1. Inv => TypeOK
  BY DEF Inv
<1> QED  BY <1>1, Invariance, PTL

(* Token mints one token at a time, only when the cached one is no longer   *)
(* good, and leaves its mutex locked behind none of its returns, for any    *)
(* number of concurrent requests and in whatever order they fail.           *)
THEOREM MintsOneAtATime == Spec => []OneMint
<1>1. Inv => OneMint
  <2> SUFFICES ASSUME Inv PROVE OneMint
    OBVIOUS
  <2>1. Minting \subseteq {holder}
    BY DEF Inv, Exclusion, Mints, Minting
  <2>2. IsFiniteSet({holder}) /\ Cardinality({holder}) = 1
    BY FS_Singleton
  <2>3. Cardinality(Minting) <= 1
    BY <2>1, <2>2, FS_Subset
  <2>4. Minting # {} => token.good = 0
    BY TokensAssumption DEF Inv, Exclusion, Mints, Minting, None
  <2>5. holder # None => holder \in Minting
    BY DEF Inv, TypeOK, Exclusion, Mints, Minting
  <2> QED  BY <2>3, <2>4, <2>5 DEF OneMint
<1> QED  BY <1>1, Invariance, PTL

(* A shared token is valid on arrival as long as clock skew and latency     *)
(* together stay within tokenRefreshLead.                                   *)
THEOREM SharedTokensValid ==
    ASSUME \A s \in Skews : s + Latency <= tokenRefreshLead
    PROVE  Spec => []SharedTokenValid
<1>1. Inv => SharedTokenValid
  <2> SUFFICES ASSUME Inv, NEW r \in Requests, pc[r] = "send", ~minted[r]
               PROVE  carried[r] - skew > 0
    BY DEF SharedTokenValid
  <2>1. /\ carried[r] + waited[r] > tokenRefreshLead
        /\ carried[r] \in Int /\ waited[r] \in 0 .. Latency
        /\ skew \in Int /\ skew + Latency <= tokenRefreshLead
    BY TokensAssumption DEF Inv, TypeOK, Spent, Empty
  <2> QED  BY <2>1, TokensAssumption
<1> QED  BY <1>1, Invariance, PTL

(* GitHub accepts every JWT as long as its clock is not behind ours, and    *)
(* ahead of it by no more than the margin jwtValidUntil keeps.              *)
THEOREM JWTsAccepted ==
    ASSUME \A s \in Skews : s >= 0 /\ s + Latency <= jwtMargin
    PROVE  Spec => []JWTAccepted
<1>1. Inv => JWTAccepted
  <2> SUFFICES ASSUME Inv, NEW r \in Requests, pc[r] = "ask"
               PROVE  Accepts(carried[r])
    BY DEF JWTAccepted
  <2>1. /\ carried[r] + waited[r] > jwtMargin /\ carried[r] <= jwtTTL
        /\ carried[r] \in Int /\ waited[r] \in 0 .. Latency
        /\ skew \in Int /\ skew >= 0 /\ skew + Latency <= jwtMargin
    BY TokensAssumption DEF Inv, TypeOK, Spent, Empty
  <2>2. jwtMargin \in Nat
    BY TokensAssumption DEF jwtMargin
  <2> QED  BY <2>1, <2>2, TokensAssumption DEF Accepts
<1> QED  BY <1>1, Invariance, PTL

=============================================================================
