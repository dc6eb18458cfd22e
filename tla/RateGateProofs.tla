--------------------------- MODULE RateGateProofs ----------------------------
(***************************************************************************)
(* Proofs about RateGate, for any finite set of callers and any settings.  *)
(*                                                                         *)
(* Inv is the inductive invariant.  Besides the types, sharpened by what   *)
(* an answer carries (Types, Statuses), it says that the deadline of a     *)
(* live probe of a gate passes before the cooldown it started, which makes *)
(* it the only one (Probes).                                               *)
(*                                                                         *)
(* InStep, inductive relative to Inv, says of every reading of a reset     *)
(* that any number of callers hold: whoever read it, it counts down to     *)
(* zero together with the server's window, as far from it as the clocks    *)
(* are apart.                                                              *)
(***************************************************************************)
EXTENDS RateGate, FiniteSetTheorems, TLAPS

(* What the headers of a response can say. *)
Readings == [Limit : {0, Limit}, Remaining : 0 .. Limit, ResetIn : 0 .. MaxReset]

(* What a call can have as its answer. *)
AnswerType == [status : {"none", "ok", "limited", "status"}, snapshot : Readings]

(* The invariant of the types, with every answer one that can be cached. *)
Types ==
    /\ budget \in [remaining : 0 .. Limit, resetIn : 1 .. Window]
    /\ stray \in 0 .. MaxStray
    /\ cache \in Readings
    /\ cooldown \in 0 .. probeCooldown
    /\ pc \in [Calls -> States]
    /\ kind \in [Calls -> Kinds]
    /\ snapshot \in [Calls -> Snapshots]
    /\ answer \in [Calls -> AnswerType]
    /\ sleep \in [Calls -> 0 .. MaxWait]
    /\ timeout \in [Calls -> 0 .. Timeout]
    /\ attempts \in [Calls -> Nat]
    /\ outcome \in [Calls -> Outcomes]

(* Feed returns the status of an answer of the API. *)
Statuses == \A r \in Calls : pc[r] = "feed" => answer[r].status \in {"ok", "limited"}

(* The gates that wait for the answer of a probe. *)
Live(r) == pc[r] = "probing" /\ kind[r] = "api" /\ timeout[r] > 0

Probes ==
    Timeout <= probeCooldown =>
        /\ \A r \in Calls : Live(r) => timeout[r] <= cooldown
        /\ \A q, r \in Calls : Live(q) /\ Live(r) => q = r

Inv == setup \in Setups /\ Types /\ Statuses /\ Probes

-----------------------------------------------------------------------------
(* The settings are of their types. *)
LEMMA SettingTypes ==
    ASSUME setup \in Setups
    PROVE  /\ Kinds \subseteq {"api", "rate_limit", "refresh"}
           /\ Limit \in Nat \ {0} /\ Window \in Nat \ {0}
           /\ MaxWait \in Nat /\ probeCooldown \in Nat /\ Timeout \in Nat \ {0}
           /\ MaxStray \in Nat
           /\ Ahead \in Int /\ -Window <= Ahead
           /\ MaxReset \in Nat /\ Window <= MaxReset /\ Window - Ahead <= MaxReset
<1>1. SetupAssumption(setup)
  BY GateAssumption
<1> QED  BY <1>1 DEF SetupAssumption, Kinds, Limit, Window, MaxWait, probeCooldown,
                     Timeout, MaxStray, Ahead, MaxReset

(* No step changes the settings. *)
LEMMA SettingsFixed ==
    ASSUME [Next]_vars
    PROVE  /\ setup' = setup
           /\ Limit' = Limit /\ Window' = Window /\ MaxWait' = MaxWait
           /\ probeCooldown' = probeCooldown /\ Timeout' = Timeout
           /\ Kinds' = Kinds /\ MaxStray' = MaxStray
           /\ Ahead' = Ahead /\ MaxReset' = MaxReset
<1>1. setup' = setup
  BY DEF Next, Call, Step, awaitBudget, probe, Serve, GateRead, GateDecide,
         GateWake, GateSpend, ProbeEnter, ProbeCached, ProbeFails, ProbeFeed,
         ProbeRead, ProbeAnswered, Answered, Retried, Unanswered, Feed, Tick,
         CountStray, others, vars
<1> QED  BY <1>1 DEF Limit, Window, MaxWait, probeCooldown, Timeout, Kinds,
                     MaxStray, Ahead, MaxReset

(* What the server's headers say can be cached. *)
LEMMA HeadersRead ==
    ASSUME setup \in Setups,
           NEW b \in [remaining : 0 .. Limit, resetIn : 1 .. Window],
           NEW s \in Headers(b)
    PROVE  s \in Readings
<1>1. /\ Limit \in Nat /\ Window \in Nat /\ Ahead \in Int
      /\ MaxReset \in Nat /\ Window - Ahead <= MaxReset
  BY SettingTypes
<1> DEFINE left    == b.resetIn - Ahead
           resetIn == IF left > 0 THEN left ELSE 0
<1>2. /\ b.remaining \in 0 .. Limit /\ resetIn \in 0 .. MaxReset
      /\ 0 \in 0 .. Limit /\ 0 \in 0 .. MaxReset
  BY <1>1
<1> HIDE DEF resetIn
<1>3. s \in {[Limit |-> Limit, Remaining |-> b.remaining, ResetIn |-> resetIn],
             Unknown, [Limit |-> Limit, Remaining |-> b.remaining, ResetIn |-> 0]}
  BY DEF Headers, resetIn
<1> QED  BY <1>2, <1>3 DEF Unknown, Readings

(* A reading is a snapshot. *)
LEMMA ReadingIsSnapshot ==
    ASSUME setup \in Setups
    PROVE  Readings \subseteq Snapshots /\ Unknown \in Readings
<1>1. Limit \in Nat /\ MaxReset \in Nat
  BY SettingTypes
<1> QED  BY <1>1 DEF Readings, Snapshots, Unknown

(* The server's budget stays within its limit. *)
LEMMA ChargeTypes ==
    ASSUME setup \in Setups,
           NEW b \in [remaining : 0 .. Limit, resetIn : 1 .. Window], NEW k
    PROVE  /\ Charge(b, k) \in [remaining : 0 .. Limit, resetIn : 1 .. Window]
           /\ Charge(b, k).resetIn = b.resetIn
           /\ k # "api" => Charge(b, k) = b
           /\ Charge(b, k).remaining >= b.remaining - 1
<1>1. Limit \in Nat /\ Window \in Nat
  BY SettingTypes
<1> QED  BY <1>1 DEF Charge

(* The types are those of the type invariant. *)
LEMMA TypesAreOK ==
    ASSUME setup \in Setups, Types
    PROVE  TypeOK
<1>1. Readings \subseteq Snapshots
  BY ReadingIsSnapshot
<1>2. AnswerType \subseteq [status : {"none", "ok", "limited", "status"},
                            snapshot : Snapshots]
  BY <1>1 DEF AnswerType
<1>3. answer \in [Calls -> [status : {"none", "ok", "limited", "status"},
                            snapshot : Snapshots]]
  BY <1>2 DEF Types
<1> QED  BY <1>3 DEF Types, TypeOK, Readings

(* The invariant holds before the first call. *)
LEMMA TypesInit == Init => setup \in Setups /\ Types
<1> SUFFICES ASSUME Init PROVE setup \in Setups /\ Types
  OBVIOUS
<1>1. setup \in Setups
  BY DEF Init
<1>2. /\ Limit \in Nat \ {0} /\ Window \in Nat \ {0} /\ MaxWait \in Nat
      /\ Timeout \in Nat /\ probeCooldown \in Nat /\ MaxStray \in Nat
  BY <1>1, SettingTypes
<1>3. /\ budget \in [remaining : 0 .. Limit, resetIn : 1 .. Window]
      /\ stray \in 0 .. MaxStray
  BY <1>2 DEF Init
<1>4. Unknown \in Readings /\ Unknown \in Snapshots
  BY <1>1, ReadingIsSnapshot
<1>5. answer \in [Calls -> AnswerType]
  BY <1>4 DEF Init, NoAnswer, Answer, AnswerType
<1>6. /\ cooldown \in 0 .. probeCooldown /\ sleep \in [Calls -> 0 .. MaxWait]
      /\ timeout \in [Calls -> 0 .. Timeout] /\ attempts \in [Calls -> Nat]
  BY <1>2 DEF Init
<1>7. /\ pc \in [Calls -> States] /\ outcome \in [Calls -> Outcomes]
      /\ kind \in [Calls -> Kinds] /\ snapshot \in [Calls -> Snapshots]
      /\ cache \in Readings
  BY <1>4 DEF Init, States, Outcomes
<1> QED  BY <1>1, <1>3, <1>5, <1>6, <1>7 DEF Types

(* A step keeps the types: no estimate leaves its range, no wait its bound. *)
LEMMA TypesStep ==
    ASSUME setup \in Setups, Types, Statuses, [Next]_vars
    PROVE  Types' /\ Statuses'
<1>0. /\ setup' = setup
      /\ Limit' = Limit /\ Window' = Window /\ MaxWait' = MaxWait
      /\ probeCooldown' = probeCooldown /\ Timeout' = Timeout /\ Kinds' = Kinds
      /\ MaxStray' = MaxStray /\ MaxReset' = MaxReset
  BY SettingsFixed
<1>a. AnswerType' = AnswerType /\ Readings' = Readings
  BY <1>0 DEF AnswerType, Readings
<1>b. /\ Limit \in Nat \ {0} /\ Window \in Nat \ {0} /\ MaxWait \in Nat
      /\ Timeout \in Nat \ {0} /\ probeCooldown \in Nat
      /\ MaxStray \in Nat /\ MaxReset \in Nat
  BY SettingTypes
<1>c. Unknown \in Readings /\ Unknown \in Snapshots /\ cache \in Snapshots
  BY ReadingIsSnapshot DEF Types
<1>d. NoAnswer \in AnswerType
  BY <1>c DEF NoAnswer, Answer, AnswerType
<1>e. \A r \in Calls : /\ answer[r].snapshot \in Readings
                       /\ answer[r].status \in {"none", "ok", "limited", "status"}
  BY DEF Types, AnswerType
<1>1. ASSUME NEW r \in Calls, NEW k \in Kinds, Call(r, k)
      PROVE  Types' /\ Statuses'
  <2>1. pc' \in [Calls -> States] /\ outcome' \in [Calls -> Outcomes]
    BY <1>1 DEF Types, Call, Goto, States, Outcomes
  <2>2. /\ timeout' \in [Calls -> 0 .. Timeout] /\ attempts' \in [Calls -> Nat]
        /\ kind' \in [Calls -> Kinds]
    BY <1>1, <1>b DEF Types, Call
  <2>3. Statuses'
    BY <1>1 DEF Types, Statuses, Call, Goto
  <2> QED  BY <1>0, <1>1, <1>a, <2>1, <2>2, <2>3 DEF Types, Call, server
<1>2. ASSUME NEW r \in Calls, GateRead(r)
      PROVE  Types' /\ Statuses'
  <2>1. pc' \in [Calls -> States]
    BY <1>2 DEF Types, GateRead, Goto, States
  <2>2. snapshot' \in [Calls -> Snapshots]
    BY <1>2, <1>c DEF Types, GateRead
  <2>3. Statuses'
    BY <1>2 DEF Types, Statuses, GateRead, Goto
  <2> QED  BY <1>0, <1>2, <1>a, <2>1, <2>2, <2>3 DEF Types, GateRead, others, server
<1>3. ASSUME NEW r \in Calls, GateDecide(r)
      PROVE  Types' /\ Statuses'
  <2>1. pc' \in [Calls -> States] /\ outcome' \in [Calls -> Outcomes]
    BY <1>3 DEF Types, GateDecide, Goto, Return, States, Outcomes
  <2>2. snapshot' \in [Calls -> Snapshots]
    BY <1>3, <1>c DEF Types, GateDecide
  <2>3. sleep' \in [Calls -> 0 .. MaxWait]
    <3>1. snapshot[r].ResetIn \in Nat
      BY DEF Types, Snapshots
    <3>2. sleep' = sleep \/ (/\ snapshot[r].ResetIn <= MaxWait
                             /\ sleep' = [sleep EXCEPT ![r] = snapshot[r].ResetIn])
      BY <1>3, <1>b, <3>1 DEF GateDecide, SleepFor
    <3> QED  BY <1>b, <3>1, <3>2 DEF Types
  <2>4. Statuses'
    BY <1>3 DEF Types, Statuses, GateDecide, Goto, Return
  <2> QED  BY <1>0, <1>3, <1>a, <2>1, <2>2, <2>3, <2>4 DEF Types, GateDecide, others, server
<1>4. ASSUME NEW r \in Calls, GateWake(r)
      PROVE  Types' /\ Statuses'
  <2>1. pc' \in [Calls -> States] /\ outcome' \in [Calls -> Outcomes]
    BY <1>4 DEF Types, GateWake, Goto, Return, States, Outcomes
  <2>2. sleep' \in [Calls -> 0 .. MaxWait]
    <3>1. sleep' = [sleep EXCEPT ![r] = 0]
      BY <1>4 DEF GateWake
    <3> QED  BY <1>b, <3>1 DEF Types
  <2>3. Statuses'
    BY <1>4 DEF Types, Statuses, GateWake, Goto, Return
  <2> QED  BY <1>0, <1>4, <1>a, <2>1, <2>2, <2>3 DEF Types, GateWake, others, server
<1>5. ASSUME NEW r \in Calls, GateSpend(r)
      PROVE  Types' /\ Statuses'
  <2>1. pc' \in [Calls -> States]
    BY <1>5 DEF Types, GateSpend, Goto, States
  <2>2. cache' \in Readings
    BY <1>5, <1>b DEF Types, GateSpend, Decrement, Readings
  <2>3. Statuses'
    BY <1>5 DEF Types, Statuses, GateSpend, Goto
  <2> QED  BY <1>0, <1>5, <1>a, <2>1, <2>2, <2>3 DEF Types, GateSpend, others, server
<1>6. ASSUME NEW r \in Calls, ProbeEnter(r)
      PROVE  Types' /\ Statuses'
  <2>1. pc' \in [Calls -> States]
    BY <1>6 DEF Types, ProbeEnter, Goto, States
  <2>2. cooldown' \in 0 .. probeCooldown
    BY <1>6, <1>b DEF Types, ProbeEnter
  <2>3. Statuses'
    BY <1>6 DEF Types, Statuses, ProbeEnter, Goto
  <2> QED  BY <1>0, <1>6, <1>a, <2>1, <2>2, <2>3 DEF Types, ProbeEnter, others, server
<1>f. ASSUME NEW r \in Calls, NEW s \in Snapshots, ProbeReturns(r, s)
      PROVE  /\ pc' \in [Calls -> States] /\ outcome' \in [Calls -> Outcomes]
             /\ snapshot' \in [Calls -> Snapshots]
             /\ pc'[r] # "feed" /\ \A x \in Calls \ {r} : pc'[x] = pc[x]
  BY <1>f DEF Types, ProbeReturns, Goto, Return, States, Outcomes
<1>7. ASSUME NEW r \in Calls, ProbeCached(r)
      PROVE  Types' /\ Statuses'
  <2>1. /\ pc' \in [Calls -> States] /\ outcome' \in [Calls -> Outcomes]
        /\ snapshot' \in [Calls -> Snapshots]
        /\ pc'[r] # "feed" /\ \A x \in Calls \ {r} : pc'[x] = pc[x]
    BY <1>7, <1>c, <1>f DEF ProbeCached
  <2>2. Statuses'
    BY <1>7, <2>1 DEF Statuses, ProbeCached
  <2> QED  BY <1>0, <1>7, <1>a, <2>1, <2>2 DEF Types, ProbeCached, others, server
<1>8. ASSUME NEW r \in Calls, ProbeAnswered(r)
      PROVE  Types' /\ Statuses'
  <2>1. pc' \in [Calls -> States]
    BY <1>8 DEF Types, ProbeAnswered, Goto, States
  <2>2. PICK s \in Headers(budget), status \in {"ok"} \cup (Faults \cap {"status"}) :
           answer' = [answer EXCEPT ![r] = Answer(status, s)]
    BY <1>8 DEF ProbeAnswered
  <2>3. Answer(status, s) \in AnswerType
    BY HeadersRead DEF Types, Answer, AnswerType
  <2>4. answer' \in [Calls -> AnswerType]
    BY <2>2, <2>3 DEF Types
  <2>5. Statuses'
    BY <1>8, <2>2 DEF Types, Statuses, ProbeAnswered, Goto
  <2> QED  BY <1>0, <1>8, <1>a, <2>1, <2>4, <2>5 DEF Types, ProbeAnswered, others, server
<1>9. ASSUME NEW r \in Calls, ProbeFails(r)
      PROVE  Types' /\ Statuses'
  <2>1. /\ pc' \in [Calls -> States] /\ outcome' \in [Calls -> Outcomes]
        /\ snapshot' \in [Calls -> Snapshots]
        /\ pc'[r] # "feed" /\ \A x \in Calls \ {r} : pc'[x] = pc[x]
    BY <1>9, <1>c, <1>f DEF ProbeFails
  <2>2. Statuses'
    BY <1>9, <2>1 DEF Statuses, ProbeFails
  <2> QED  BY <1>0, <1>9, <1>a, <2>1, <2>2 DEF Types, ProbeFails, others, server
<1>10. ASSUME NEW r \in Calls, ProbeFeed(r)
       PROVE  Types' /\ Statuses'
  <2>1. /\ pc' \in [Calls -> States] /\ outcome' \in [Calls -> Outcomes]
        /\ snapshot' \in [Calls -> Snapshots]
        /\ pc'[r] # "feed" /\ \A x \in Calls \ {r} : pc'[x] = pc[x]
    <3>1. CASE answer[r].status = "ok"
      BY <1>10, <3>1 DEF Types, ProbeFeed, Goto, States
    <3>2. CASE answer[r].status # "ok"
      BY <1>10, <1>c, <1>f, <3>2 DEF ProbeFeed
    <3> QED  BY <3>1, <3>2
  <2>2. cache' \in Readings
    BY <1>10, <1>e DEF Types, ProbeFeed, Update
  <2>3. answer' \in [Calls -> AnswerType]
    BY <1>10, <1>d DEF Types, ProbeFeed
  <2>4. Statuses'
    BY <1>10, <2>1 DEF Types, Statuses, ProbeFeed
  <2> QED  BY <1>0, <1>10, <1>a, <2>1, <2>2, <2>3, <2>4 DEF Types, ProbeFeed, others, server
<1>11. ASSUME NEW r \in Calls, ProbeRead(r)
       PROVE  Types' /\ Statuses'
  <2>1. /\ pc' \in [Calls -> States] /\ outcome' \in [Calls -> Outcomes]
        /\ snapshot' \in [Calls -> Snapshots]
        /\ pc'[r] # "feed" /\ \A x \in Calls \ {r} : pc'[x] = pc[x]
    BY <1>11, <1>c, <1>f DEF ProbeRead
  <2>2. Statuses'
    BY <1>11, <2>1 DEF Statuses, ProbeRead
  <2> QED  BY <1>0, <1>11, <1>a, <2>1, <2>2 DEF Types, ProbeRead, others, server
<1>12. ASSUME NEW r \in Calls, Answered(r)
       PROVE  Types' /\ Statuses'
  <2>1. pc' \in [Calls -> States]
    BY <1>12 DEF Types, Answered, Goto, States
  <2>2. budget' \in [remaining : 0 .. Limit, resetIn : 1 .. Window]
    BY <1>12, ChargeTypes DEF Types, Answered
  <2>3. PICK s \in Headers(budget'), status \in {"ok", "limited"} :
           answer' = [answer EXCEPT ![r] = Answer(status, s)]
    BY <1>12 DEF Answered
  <2>4. Answer(status, s) \in AnswerType
    BY <2>2, HeadersRead DEF Answer, AnswerType
  <2>5. answer' \in [Calls -> AnswerType]
    BY <2>3, <2>4 DEF Types
  <2>6. Statuses'
    <3>1. answer'[r].status = status
      BY <2>3 DEF Types, Answer
    <3> QED  BY <1>12, <2>3, <3>1 DEF Types, Statuses, Answered, Goto
  <2>7. attempts' \in [Calls -> Nat]
    BY <1>12 DEF Types, Answered
  <2> QED  BY <1>0, <1>12, <1>a, <2>1, <2>2, <2>5, <2>6, <2>7
           DEF Types, Answered, others, server
<1>g. ASSUME NEW r \in Calls, Unheard(r)
      PROVE  /\ budget' \in [remaining : 0 .. Limit, resetIn : 1 .. Window]
             /\ stray' \in 0 .. MaxStray
  BY <1>b, <1>g, ChargeTypes DEF Types, Unheard
<1>13. ASSUME NEW r \in Calls, Retried(r)
       PROVE  Types' /\ Statuses'
  <2>1. /\ budget' \in [remaining : 0 .. Limit, resetIn : 1 .. Window]
        /\ stray' \in 0 .. MaxStray
    BY <1>13, <1>g, ChargeTypes DEF Types, Retried
  <2>2. attempts' \in [Calls -> Nat]
    BY <1>13 DEF Types, Retried
  <2> QED  BY <1>0, <1>13, <1>a, <2>1, <2>2 DEF Types, Statuses, Retried, others, server
<1>14. ASSUME NEW r \in Calls, Unanswered(r)
       PROVE  Types' /\ Statuses'
  <2>1. pc' \in [Calls -> States] /\ outcome' \in [Calls -> Outcomes]
    BY <1>14 DEF Types, Unanswered, Goto, Return, States, Outcomes
  <2>2. /\ budget' \in [remaining : 0 .. Limit, resetIn : 1 .. Window]
        /\ stray' \in 0 .. MaxStray
    BY <1>14, <1>g DEF Unanswered
  <2>3. Statuses'
    BY <1>14 DEF Types, Statuses, Unanswered, Goto, Return
  <2> QED  BY <1>0, <1>14, <1>a, <2>1, <2>2, <2>3 DEF Types, Unanswered, others, server
<1>15. ASSUME NEW r \in Calls, Feed(r)
       PROVE  Types' /\ Statuses'
  <2>1. pc' \in [Calls -> States] /\ outcome' \in [Calls -> Outcomes]
    BY <1>15 DEF Types, Statuses, Feed, Goto, Return, States, Outcomes
  <2>2. cache' \in Readings
    BY <1>15, <1>e DEF Types, Feed, Update
  <2>3. answer' \in [Calls -> AnswerType]
    BY <1>15, <1>d DEF Types, Feed
  <2>4. Statuses'
    BY <1>15 DEF Types, Statuses, Feed, Goto, Return
  <2> QED  BY <1>0, <1>15, <1>a, <2>1, <2>2, <2>3, <2>4 DEF Types, Feed, others, server
<1>16. CASE Tick
  <2>1. budget' \in [remaining : 0 .. Limit, resetIn : 1 .. Window]
    BY <1>16, <1>b DEF Types, Tick
  <2>2. /\ \A s \in Readings : Older(s) \in Readings
        /\ \A s \in Snapshots : Older(s) \in Snapshots
    BY <1>b DEF Older, Before, Readings, Snapshots
  <2>3. cache' \in Readings /\ snapshot' \in [Calls -> Snapshots]
    BY <1>16, <2>2 DEF Types, Tick
  <2>4. answer' \in [Calls -> AnswerType] /\ Statuses'
    <3>1. \A r \in Calls : /\ [answer[r] EXCEPT !.snapshot = Older(@)] \in AnswerType
                           /\ [answer[r] EXCEPT !.snapshot = Older(@)].status
                                 = answer[r].status
      BY <2>2 DEF Types, AnswerType
    <3> QED  BY <1>16, <3>1 DEF Tick, Statuses
  <2>5. /\ sleep' \in [Calls -> 0 .. MaxWait] /\ timeout' \in [Calls -> 0 .. Timeout]
        /\ cooldown' \in 0 .. probeCooldown
    BY <1>16, <1>b DEF Types, Tick, Before
  <2> QED  BY <1>0, <1>16, <1>a, <2>1, <2>3, <2>4, <2>5 DEF Types, Tick
<1>17. CASE CountStray
  <2>1. /\ budget' \in [remaining : 0 .. Limit, resetIn : 1 .. Window]
        /\ stray' \in 0 .. MaxStray
    BY <1>17, <1>b, ChargeTypes DEF Types, CountStray
  <2> QED  BY <1>0, <1>17, <1>a, <2>1 DEF Types, Statuses, CountStray
<1>18. CASE UNCHANGED vars
  BY <1>0, <1>18, <1>a DEF Types, Statuses, vars
<1> QED  BY <1>1, <1>2, <1>3, <1>4, <1>5, <1>6, <1>7, <1>8, <1>9, <1>10, <1>11,
            <1>12, <1>13, <1>14, <1>15, <1>16, <1>17, <1>18
         DEF Next, Step, awaitBudget, probe, Serve

(* The steps of calls that leave the live probes, the cooldown and the      *)
(* deadlines alone: none of them starts a probe.                            *)
LEMMA NoNewProbe ==
    ASSUME Types, Probes, Timeout' = Timeout, probeCooldown' = probeCooldown,
           UNCHANGED <<kind, timeout, cooldown>>,
           \A r \in Calls : pc'[r] = "probing" => pc[r] = "probing"
    PROVE  Probes'
  BY DEF Probes, Live

(* A step keeps the live probe of a gate the only one. *)
LEMMA ProbesStep ==
    ASSUME setup \in Setups, Types, Probes, [Next]_vars
    PROVE  Probes'
<1>0. Timeout' = Timeout /\ probeCooldown' = probeCooldown
  BY SettingsFixed
<1>a. Timeout \in Nat \ {0} /\ probeCooldown \in Nat
  BY SettingTypes
<1>b. /\ pc \in [Calls -> States] /\ kind \in [Calls -> Kinds]
      /\ timeout \in [Calls -> 0 .. Timeout] /\ cooldown \in 0 .. probeCooldown
  BY DEF Types
<1>1. ASSUME NEW r \in Calls, NEW k \in Kinds, Call(r, k)
      PROVE  Probes'
  <2>1. \A x \in Calls : Live(x)' => Live(x) /\ timeout'[x] = timeout[x]
    BY <1>1, <1>b DEF Call, Goto, Live
  <2> QED  BY <1>0, <1>1, <2>1 DEF Probes, Call
<1>2. ASSUME NEW r \in Calls, ProbeEnter(r)
      PROVE  Probes'
  <2>1. CASE cooldown > 0
    <3>1. \A x \in Calls : pc'[x] = "probing" => pc[x] = "probing"
      BY <1>2, <1>b, <2>1 DEF ProbeEnter, Goto
    <3> QED  BY <1>0, <1>2, <2>1, <3>1, NoNewProbe DEF ProbeEnter, others
  <2>2. CASE ~(cooldown > 0)
    <3>1. SUFFICES ASSUME Timeout <= probeCooldown PROVE Probes'
      BY <1>0 DEF Probes
    <3>2. \A x \in Calls : ~Live(x)
      <4>1. \A x \in Calls : timeout[x] \in Nat /\ cooldown \in Nat
        BY <1>a, <1>b
      <4> QED  BY <2>2, <3>1, <4>1 DEF Probes, Live
    <3>3. cooldown' = probeCooldown /\ timeout' = timeout
      BY <1>2, <2>2 DEF ProbeEnter, others
    <3>4. \A x \in Calls : Live(x)' => x = r
      BY <1>2, <1>b, <3>2 DEF ProbeEnter, Goto, others, Live
    <3>5. timeout[r] <= probeCooldown
      BY <1>a, <1>b, <3>1
    <3> QED  BY <3>3, <3>4, <3>5 DEF Probes
  <2> QED  BY <2>1, <2>2
<1>3. CASE Tick
  <2>1. \A x \in Calls : Live(x)' => Live(x) /\ timeout'[x] = timeout[x] - 1
    BY <1>3, <1>a, <1>b DEF Tick, Live, Before
  <2>2. SUFFICES ASSUME Timeout <= probeCooldown PROVE Probes'
    BY <1>0 DEF Probes
  <2>3. ASSUME NEW x \in Calls, Live(x)'
        PROVE  timeout'[x] <= cooldown'
    <3>1. /\ Live(x) /\ timeout'[x] = timeout[x] - 1 /\ timeout[x] <= cooldown
          /\ timeout[x] > 0
      BY <2>1, <2>2, <2>3 DEF Probes, Live
    <3>2. cooldown' = cooldown - 1
      BY <1>3, <1>a, <1>b, <3>1 DEF Tick, Before
    <3> QED  BY <1>a, <1>b, <3>1, <3>2
  <2>4. \A q, x \in Calls : Live(q)' /\ Live(x)' => q = x
    BY <2>1, <2>2 DEF Probes
  <2> QED  BY <2>3, <2>4 DEF Probes
<1>4. CASE CountStray \/ UNCHANGED vars
  BY <1>0, <1>4, NoNewProbe DEF CountStray, vars
<1>5. ASSUME NEW r \in Calls,
             \/ GateRead(r) \/ GateDecide(r) \/ GateWake(r) \/ GateSpend(r)
             \/ ProbeCached(r) \/ ProbeFails(r) \/ ProbeFeed(r) \/ ProbeRead(r)
             \/ ProbeAnswered(r) \/ Answered(r) \/ Retried(r) \/ Unanswered(r)
             \/ Feed(r)
      PROVE  Probes'
  <2>1. UNCHANGED <<kind, timeout, cooldown>>
    BY <1>5 DEF GateRead, GateDecide, GateWake, GateSpend, ProbeCached, ProbeFails,
                ProbeFeed, ProbeRead, ProbeAnswered, Answered, Retried, Unanswered,
                Feed, others
  <2>2. \A x \in Calls : pc'[x] = "probing" => pc[x] = "probing"
    BY <1>5, <1>b
       DEF GateRead, GateDecide, GateWake, GateSpend, ProbeCached, ProbeFails,
           ProbeFeed, ProbeRead, ProbeAnswered, Answered, Retried, Unanswered,
           Feed, ProbeReturns, Return, Goto
  <2> QED  BY <1>0, <2>1, <2>2, NoNewProbe
<1> QED  BY <1>1, <1>2, <1>3, <1>4, <1>5
         DEF Next, Step, awaitBudget, probe, Serve

(* The inductive invariant holds in every reachable state. *)
LEMMA Invariance == Spec => []Inv
<1>1. Init => Inv
  <2> SUFFICES ASSUME Init PROVE Inv
    OBVIOUS
  <2>1. setup \in Setups /\ Types
    BY TypesInit
  <2>2. Statuses /\ Probes
    BY DEF Init, Statuses, Probes, Live
  <2> QED  BY <2>1, <2>2 DEF Inv
<1>2. Inv /\ [Next]_vars => Inv'
  <2> SUFFICES ASSUME Inv, [Next]_vars PROVE Inv'
    OBVIOUS
  <2> USE DEF Inv
  <2>1. setup' = setup /\ setup' \in Setups
    BY SettingsFixed
  <2>2. Types' /\ Statuses'
    BY TypesStep
  <2>3. Probes'
    BY ProbesStep
  <2> QED  BY <2>1, <2>2, <2>3
<1> QED  BY <1>1, <1>2, PTL DEF Spec

-----------------------------------------------------------------------------
(* The types: no estimate of the cache leaves 0 .. Limit, no sleep in the   *)
(* gate exceeds MaxWait.                                                    *)
THEOREM TypeCorrect == Spec => []TypeOK
<1>1. Inv => TypeOK
  BY TypesAreOK DEF Inv
<1> QED  BY <1>1, Invariance, PTL

(* One probe at a time: as long as no probe can outlive the cooldown, the   *)
(* cooldown of rateProber.probe makes a burst of any size wait for one      *)
(* probe.                                                                   *)
THEOREM OneProbe == Spec => []OneProbeAtATime
<1>1. Inv => OneProbeAtATime
  <2> SUFFICES ASSUME Inv, Timeout <= probeCooldown
               PROVE  Cardinality({r \in Calls : pc[r] = "probing" /\ kind[r] = "api"
                                                  /\ ~Expired(r)}) <= 1
    BY DEF OneProbeAtATime
  <2> DEFINE P == {r \in Calls : pc[r] = "probing" /\ kind[r] = "api" /\ ~Expired(r)}
  <2>1. \A r \in P : Live(r)
    <3>1. Timeout \in Nat /\ timeout \in [Calls -> 0 .. Timeout]
      BY SettingTypes DEF Inv, Types
    <3>2. \A r \in Calls : timeout[r] \in Nat
      BY <3>1
    <3> QED  BY <3>2 DEF Live, Expired
  <2>2. \A q, r \in P : q = r
    BY <2>1 DEF Inv, Probes
  <2>3. P = {} \/ \E r : P = {r}
    BY <2>2
  <2>4. Cardinality(P) \in {0, 1}
    BY <2>3, FS_EmptySet, FS_Singleton
  <2> QED  BY <2>4
<1> QED  BY <1>1, Invariance, PTL

-----------------------------------------------------------------------------
(* A reading of a reset that counts down with the server's window. *)
Aligned(s) == s.ResetIn \in Resets

(* Everything the kernel knows of a reset, from whichever answer, does. *)
InStep ==
    /\ Aligned(cache)
    /\ \A r \in Calls :
          /\ Aligned(snapshot[r]) /\ Aligned(answer[r].snapshot)
          /\ sleep[r] \in Resets

(* A step that leaves the server's window alone, and reads no reset but     *)
(* those known, keeps them in step.                                         *)
LEMMA SameWindow ==
    ASSUME InStep, Resets' = Resets,
           cache'.ResetIn \in Resets,
           \A r \in Calls : /\ snapshot'[r].ResetIn \in Resets
                            /\ answer'[r].snapshot.ResetIn \in Resets
                            /\ sleep'[r] \in Resets
    PROVE  InStep'
  BY DEF InStep, Aligned

(* Every step keeps them in step, the end of a window included. *)
LEMMA InStepStep ==
    ASSUME setup \in Setups, Types, InStep, [Next]_vars
    PROVE  InStep'
<1>a. /\ Limit \in Nat \ {0} /\ Window \in Nat \ {0}
      /\ Ahead \in Int /\ -Window <= Ahead
  BY SettingTypes
<1>h. MaxReset \in Nat /\ MaxWait \in Nat
  BY SettingTypes
<1>d. Ahead' = Ahead /\ Window' = Window
  BY SettingsFixed
<1>e. ASSUME budget'.resetIn = budget.resetIn PROVE Resets' = Resets
  BY <1>d, <1>e DEF Resets
<1>f. 0 \in Resets
  BY DEF Resets
<1>g. ASSUME NEW b, b.resetIn = budget.resetIn, NEW s \in Headers(b)
      PROVE  s.ResetIn \in Resets
  BY <1>g DEF Headers, Unknown, Resets
<1>b. /\ budget \in [remaining : 0 .. Limit, resetIn : 1 .. Window]
      /\ cache \in Readings
      /\ pc \in [Calls -> States]
      /\ snapshot \in [Calls -> Snapshots]
      /\ answer \in [Calls -> AnswerType]
      /\ sleep \in [Calls -> 0 .. MaxWait]
  BY DEF Types
<1>c. /\ cache.ResetIn \in Resets
      /\ \A r \in Calls : /\ snapshot[r].ResetIn \in Resets
                           /\ answer[r].snapshot.ResetIn \in Resets
                           /\ sleep[r] \in Resets
  BY DEF InStep, Aligned
<1>1. ASSUME NEW r \in Calls, NEW k \in Kinds, Call(r, k) PROVE InStep'
  BY <1>1, <1>c, <1>e, SameWindow DEF Call, server
<1>2. ASSUME NEW r \in Calls, GateRead(r) PROVE InStep'
  BY <1>2, <1>b, <1>c, <1>e, SameWindow DEF GateRead, server
<1>3. ASSUME NEW r \in Calls, GateDecide(r) PROVE InStep'
  <2>1. \A x \in Calls : snapshot'[x].ResetIn \in Resets
    BY <1>3, <1>b, <1>c, <1>f DEF GateDecide, Unknown
  <2>2. \A x \in Calls : sleep'[x] \in Resets
    BY <1>3, <1>b, <1>c DEF GateDecide, SleepFor
  <2>3. UNCHANGED <<budget, cache, answer>>
    BY <1>3 DEF GateDecide, server
  <2> QED  BY <1>c, <1>e, <2>1, <2>2, <2>3, SameWindow
<1>4. ASSUME NEW r \in Calls, GateWake(r) PROVE InStep'
  BY <1>4, <1>b, <1>c, <1>e, <1>f, SameWindow DEF GateWake, server
<1>5. ASSUME NEW r \in Calls, GateSpend(r) PROVE InStep'
  BY <1>5, <1>b, <1>c, <1>e, SameWindow DEF GateSpend, Decrement, Readings, server
<1>6. ASSUME NEW r \in Calls, ProbeEnter(r) PROVE InStep'
  BY <1>6, <1>c, <1>e, SameWindow DEF ProbeEnter, server
<1>7. ASSUME NEW r \in Calls, ProbeCached(r) \/ ProbeRead(r) PROVE InStep'
  <2>1. \A x \in Calls : snapshot'[x].ResetIn \in Resets
    BY <1>7, <1>b, <1>c DEF ProbeCached, ProbeRead, ProbeReturns
  <2>2. UNCHANGED <<budget, cache, answer, sleep>>
    BY <1>7 DEF ProbeCached, ProbeRead, server
  <2> QED  BY <1>c, <1>e, <2>1, <2>2, SameWindow
<1>8. ASSUME NEW r \in Calls, ProbeFails(r) PROVE InStep'
  <2>1. \A x \in Calls : snapshot'[x].ResetIn \in Resets
    BY <1>8, <1>b, <1>c, <1>f DEF ProbeFails, ProbeReturns, Unknown
  <2>2. UNCHANGED <<budget, cache, answer, sleep>>
    BY <1>8 DEF ProbeFails, server
  <2> QED  BY <1>c, <1>e, <2>1, <2>2, SameWindow
<1>9. ASSUME NEW r \in Calls, ProbeFeed(r) PROVE InStep'
  <2>1. \A x \in Calls : snapshot'[x].ResetIn \in Resets
    BY <1>9, <1>b, <1>c, <1>f DEF ProbeFeed, ProbeReturns, Unknown
  <2>2. cache'.ResetIn \in Resets
    BY <1>9, <1>c DEF ProbeFeed, Update
  <2>3. \A x \in Calls : answer'[x].snapshot.ResetIn \in Resets
    BY <1>9, <1>b, <1>c, <1>f DEF ProbeFeed, NoAnswer, Answer, Unknown
  <2>4. UNCHANGED <<budget, sleep>>
    BY <1>9 DEF ProbeFeed, server
  <2> QED  BY <1>c, <1>e, <2>1, <2>2, <2>3, <2>4, SameWindow
<1>10. ASSUME NEW r \in Calls, ProbeAnswered(r) PROVE InStep'
  <2>1. PICK s \in Headers(budget), status \in {"ok", "status"} :
           answer' = [answer EXCEPT ![r] = Answer(status, s)]
    BY <1>10 DEF ProbeAnswered
  <2>2. s.ResetIn \in Resets
    BY <1>g
  <2>3. \A x \in Calls : answer'[x].snapshot.ResetIn \in Resets
    BY <1>b, <1>c, <2>1, <2>2 DEF Answer
  <2>4. UNCHANGED <<budget, cache, snapshot, sleep>>
    BY <1>10 DEF ProbeAnswered, server
  <2> QED  BY <1>c, <1>e, <2>3, <2>4, SameWindow
<1>11. ASSUME NEW r \in Calls, Answered(r) PROVE InStep'
  <2>0. budget'.resetIn = budget.resetIn
    BY <1>11, <1>b DEF Answered, Charge
  <2>1. PICK s \in Headers(budget'), status \in {"ok", "limited"} :
           answer' = [answer EXCEPT ![r] = Answer(status, s)]
    BY <1>11 DEF Answered
  <2>2. s.ResetIn \in Resets
    BY <1>g, <2>0
  <2>3. \A x \in Calls : answer'[x].snapshot.ResetIn \in Resets
    BY <1>b, <1>c, <2>1, <2>2 DEF Answer
  <2>4. UNCHANGED <<cache, snapshot, sleep>>
    BY <1>11 DEF Answered
  <2> QED  BY <1>c, <1>e, <2>0, <2>3, <2>4, SameWindow
<1>12. ASSUME CountStray \/ \E r \in Calls : Retried(r) \/ Unanswered(r) PROVE InStep'
  <2>1. budget'.resetIn = budget.resetIn
    BY <1>12, <1>b DEF Retried, Unanswered, Unheard, CountStray, Charge
  <2>2. UNCHANGED <<cache, snapshot, answer, sleep>>
    BY <1>12 DEF Retried, Unanswered, CountStray
  <2> QED  BY <1>c, <1>e, <2>1, <2>2, SameWindow
<1>13. ASSUME NEW r \in Calls, Feed(r) PROVE InStep'
  <2>1. cache'.ResetIn \in Resets
    BY <1>13, <1>c DEF Feed, Update
  <2>2. \A x \in Calls : answer'[x].snapshot.ResetIn \in Resets
    BY <1>13, <1>b, <1>c, <1>f DEF Feed, NoAnswer, Answer, Unknown
  <2>3. UNCHANGED <<budget, snapshot, sleep>>
    BY <1>13 DEF Feed, server
  <2> QED  BY <1>c, <1>e, <2>1, <2>2, <2>3, SameWindow
<1>14. CASE Tick
  <2>1. budget.resetIn \in 1 .. Window
    BY <1>b
  <2>2. ASSUME NEW n \in Resets, n \in Nat PROVE Before(n) \in Resets'
    <3>1. CASE budget.resetIn = 1
      <4>1. budget'.resetIn = Window
        BY <1>14, <3>1 DEF Tick
      <4>2. Resets' = {0, Window - Ahead, Window - Ahead - Window}
        BY <1>d, <4>1 DEF Resets
      <4>3. n \in {0, 1 - Ahead, 1 - Ahead - Window}
        BY <3>1, <2>2 DEF Resets
      <4> QED  BY <1>a, <2>2, <4>2, <4>3 DEF Before
    <3>2. CASE budget.resetIn # 1
      <4>1. budget'.resetIn = budget.resetIn - 1
        BY <1>14, <1>b, <3>2 DEF Tick
      <4>2. Resets' = {0, budget.resetIn - 1 - Ahead, budget.resetIn - 1 - Ahead - Window}
        BY <1>d, <4>1 DEF Resets
      <4>3. n \in {0, budget.resetIn - Ahead, budget.resetIn - Ahead - Window}
        BY <2>2 DEF Resets
      <4> QED  BY <1>a, <2>1, <2>2, <4>2, <4>3 DEF Before
    <3> QED  BY <3>1, <3>2
  <2>3. cache'.ResetIn = Before(cache.ResetIn)
    BY <1>14, <1>b DEF Tick, Older, Readings
  <2>4. ASSUME NEW r \in Calls
        PROVE  /\ snapshot'[r].ResetIn = Before(snapshot[r].ResetIn)
               /\ answer'[r].snapshot.ResetIn = Before(answer[r].snapshot.ResetIn)
               /\ sleep'[r] = Before(sleep[r])
    BY <1>14, <1>b DEF Tick, Older, Snapshots, AnswerType, Readings
  <2>5. cache.ResetIn \in Nat
    BY <1>b, <1>h DEF Readings
  <2>6. ASSUME NEW r \in Calls
        PROVE  /\ snapshot[r].ResetIn \in Nat /\ answer[r].snapshot.ResetIn \in Nat
               /\ sleep[r] \in Nat
    <3>1. snapshot[r] \in Snapshots /\ answer[r].snapshot \in Readings
      BY <1>b DEF AnswerType
    <3>2. sleep[r] \in 0 .. MaxWait
      BY <1>b
    <3> QED  BY <1>h, <3>1, <3>2 DEF Snapshots, Readings
  <2> QED  BY <1>c, <2>2, <2>3, <2>4, <2>5, <2>6 DEF InStep, Aligned
<1>15. CASE UNCHANGED vars
  BY <1>15, <1>c, <1>e, SameWindow DEF vars
<1> QED  BY <1>1, <1>2, <1>3, <1>4, <1>5, <1>6, <1>7, <1>8, <1>9, <1>10, <1>11,
            <1>12, <1>13, <1>14, <1>15
         DEF Next, Step, awaitBudget, probe, Serve

(* A call that waits in the gate wakes as far from the end of a window of   *)
(* the server as the clocks are apart, whatever their difference, for any   *)
(* number of callers and whatever answers are lost, incomplete or           *)
(* overtaken.                                                               *)
THEOREM WakeIsReset == Spec => []WakesAtReset
<1>1. Init => InStep
  BY DEF Init, InStep, Aligned, NoAnswer, Answer, Unknown, Resets
<1>2. Inv /\ InStep /\ [Next]_vars => InStep'
  BY InStepStep DEF Inv
<1>3. InStep => WakesAtReset
  BY DEF InStep, WakesAtReset
<1> QED  BY <1>1, <1>2, <1>3, Invariance, PTL DEF Spec

=============================================================================
