----------------------------- MODULE KernelProofs -----------------------------
(***************************************************************************)
(* Proofs about Kernel, for any number of goroutines, any options and any  *)
(* number of calls.                                                        *)
(*                                                                         *)
(* Inv is the inductive invariant.  The options are in order (OptionsInv), *)
(* what New built is the stacks and the token of those options (KernelInv) *)
(* and the shared state is typed (SharedInv).  Of every request, wherever  *)
(* it is: it stands in its stack (Placed); it was sent at most once per    *)
(* attempt, not yet for the current one on its way down, and never when    *)
(* the gate rejected it (Counted); it and the probe it waits for or is     *)
(* carry the kernel's token (Carries); and the error it carries has the    *)
(* sentinel of what happened to it and at most one go-github error, now    *)
(* and after what http.Client and the caller will wrap it in (Told).       *)
(***************************************************************************)
EXTENDS Kernel, ErrorsProofs, TLAPS

(* The fields of the records. *)
OptionFields == {"Token", "TokenEnvVars", "BaseURL", "HTTPClient",
                 "RequestTimeout", "RateLimit", "SecondaryPacing", "Retry", "ETag"}
FrameFields == {"dir", "via", "inner", "at", "method", "auth", "probeAuth",
                "conditional", "attempt", "sent", "answer", "ctx", "fault", "code", "wraps"}
AnswerFields == {"status", "limit", "snapshot", "err"}

(* RateLimitCache: never below what is unknown, and a window that never ends*)
(* in the past.                                                             *)
IsBudget(s) ==
    /\ DOMAIN s = {"remaining", "resetIn"}
    /\ s.remaining \in Int /\ s.remaining >= -1 /\ s.resetIn \in Nat

(* A response or an error, on its way up. *)
IsAnswer(a) ==
    /\ DOMAIN a = AnswerFields /\ IsBudget(a.snapshot) /\ a.status \in Nat
    /\ a.limit \in {"none", "exhausted", "secondary"}

(* The options so far: a number of retries, no pacing or one interval, and  *)
(* names to look up if and only if WithAuthTokenFromEnv was given.          *)
OptionsInv ==
    /\ DOMAIN options = OptionFields
    /\ options.Retry.MaxRetries \in Nat
    /\ options.SecondaryPacing \in {0, Interval}
    /\ options.RequestTimeout \in Int
    /\ options.HTTPClient.timeout \in Int
    /\ "slash" \in DOMAIN options.BaseURL
    /\ LET names == options.TokenEnvVars
       IN  Len(names) \in Nat /\ DOMAIN names = 1 .. Len(names)
    /\ "WithAuthTokenFromEnv" \in given <=> options.TokenEnvVars # <<>>

(* What New has built is the stacks of the options and carries the token    *)
(* that was asked for; without it every goroutine is idle.                  *)
KernelInv ==
    IF kernel.built
    THEN /\ ~kernel.failed /\ kernel.timeout # 0 /\ kernel.base.slash
         /\ kernel.stack = Stack(options)
         /\ kernel.probeStack = ProbeStack(options)
         /\ Asked(kernel.token)
    ELSE /\ kernel.stack = <<>> /\ kernel.probeStack = <<>>
         /\ \A g \in Callers : frame[g] = Idle

(* What the goroutines share. *)
SharedInv ==
    /\ IsBudget(cache)
    /\ cooling \in BOOLEAN /\ stored \subseteq {"client", "probe"}
    /\ reserved \in Nat /\ wait \in [Callers -> Nat]
    /\ late \in [Callers -> 0 .. Lag] /\ quiet \in 0 .. Interval

(* What a request may be doing. *)
Dirs == {"idle", "down", "sleep", "flight", "probe", "up", "returned"}

(* Where a frame is. *)
Placed(f) ==
    /\ DOMAIN f = FrameFields /\ IsAnswer(f.answer)
    /\ f.dir \in Dirs /\ f.via \in {"client", "probe"}
    /\ f.at \in 0 .. Len(Layers(f))
    /\ f.dir \in {"down", "sleep", "flight"} => f.at > 0
    /\ f.ctx \in {"live"} \cup Endings

(* How often it was sent. *)
Counted(f) ==
    /\ f.attempt \in 0 .. options.Retry.MaxRetries
    /\ f.sent \in 0 .. f.attempt + 1
    /\ f.dir = "down" \/ (f.dir = "sleep" /\ ~At(f, "retry")) => f.sent <= f.attempt
    /\ f.dir = "sleep" /\ At(f, "retry") => f.attempt < options.Retry.MaxRetries
    /\ f.dir = "down" /\ f.at = 1 => f.sent = 0
    /\ f.fault = "gate" => f.sent = 0
    /\ f.dir \in {"down", "sleep", "flight"} => f.fault # "gate"

(* A request of the client has the kernel's token in its Authorization, also*)
(* while it waits for a probe, and a probe has it in its own.               *)
Carries(f) ==
    /\ f.dir \notin {"idle", "returned"} /\ (f.via = "client" \/ f.inner) =>
          f.auth = kernel.token
    /\ f.dir \in {"down", "sleep", "flight", "up"} /\ f.via = "probe" =>
          f.probeAuth = kernel.token

(* The sentinel that ClassifyError finds: the documented one, and the       *)
(* prober's own for the errors it makes itself.                             *)
NameOf(f) == IF f.fault = "probe" THEN "ErrAPIUnavailable" ELSE Expected(f)

(* What its answer says fits what happened to it. *)
Told(f) ==
    LET a == f.answer IN
    /\ a.err \in Chains /\ OneSDK(a.err)
    /\ f.dir \in {"up", "returned"} /\ a.err # <<>> => Names(a.err, NameOf(f))
    /\ f.dir = "up" /\ a.err # <<>> =>
          /\ a.limit = "none"
          /\ f.ctx = "live" => Names(<<Layer("url.Error")>> \o a.err, NameOf(f))
    /\ f.dir = "up" /\ a.err = <<>> /\ a.status >= 400 =>
          /\ f.fault = "response" /\ f.code = a.status
          /\ a.limit # "none" => a.status \in {403, 429}

(* What holds of every request. *)
FrameInv(f) == Placed(f) /\ Counted(f) /\ Carries(f) /\ Told(f)

(* The inductive invariant. *)
Inv ==
    /\ OptionsInv /\ KernelInv /\ SharedInv
    /\ DOMAIN frame = Callers /\ \A g \in Callers : FrameInv(frame[g])

(* The stack of a transport ends in the base transport and has it nowhere    *)
(* else; its layers are known.                                              *)
EndsInBase(S, o) ==
    /\ Len(S) \in Nat /\ Len(S) >= 3 /\ DOMAIN S = 1 .. Len(S)
    /\ \A i \in 1 .. Len(S) : S[i] = "base" <=> i = Len(S)
    /\ \A i \in 1 .. Len(S) : S[i] = "pacing" => i = Len(S) - 1 /\ o.SecondaryPacing > 0
    /\ o.SecondaryPacing > 0 => S[Len(S) - 1] = "pacing"

-----------------------------------------------------------------------------
(* The stacks. *)

(* The base transport, under pacing when there is any. *)
IsBaseStack(B, o) ==
    /\ B \in Seq({"base", "pacing"})
    /\ IF o.SecondaryPacing > 0 THEN Len(B) = 2 /\ B[1] = "pacing" /\ B[2] = "base"
       ELSE Len(B) = 1 /\ B[1] = "base"

(* BaseStack makes such a stack. *)
LEMMA BaseStackShape ==
    ASSUME NEW o, NEW B, B = BaseStack(o)
    PROVE  IsBaseStack(B, o)
<1>1. CASE o.SecondaryPacing > 0
  BY <1>1 DEF BaseStack, IsBaseStack
<1>2. CASE ~(o.SecondaryPacing > 0)
  BY <1>2 DEF BaseStack, IsBaseStack
<1>3. QED
  BY <1>1, <1>2

(* The transport of the client ends in the base transport and starts with   *)
(* the gate.                                                                *)
LEMMA ClientStackShape ==
    ASSUME NEW o, NEW S, S = Stack(o)
    PROVE  EndsInBase(S, o) /\ \A i \in 1 .. Len(S) : S[i] = "gate" <=> i = 1
<1>1. PICK B : B = BaseStack(o)
  OBVIOUS
<1>2. IsBaseStack(B, o)
  BY <1>1, BaseStackShape
<1>3. CASE o.ETag
  <2>1. S = <<"gate", "feed", "retry">> \o <<"etag">> \o B
    BY <1>1, <1>3 DEF Stack
  <2>2. /\ Len(S) = 4 + Len(B) /\ DOMAIN S = 1 .. 4 + Len(B)
        /\ S[1] = "gate" /\ S[2] = "feed" /\ S[3] = "retry" /\ S[4] = "etag"
        /\ S[5] = B[1] /\ (Len(B) = 2 => S[6] = B[2])
    BY <1>2, <2>1 DEF IsBaseStack
  <2>3. CASE Len(B) = 1
    <3>1. Len(S) = 5 /\ \A i \in 1 .. 5 : i = 1 \/ i = 2 \/ i = 3 \/ i = 4 \/ i = 5
      BY <2>2, <2>3
    <3>2. QED
      BY <1>2, <2>2, <2>3, <3>1 DEF EndsInBase, IsBaseStack
  <2>4. CASE Len(B) = 2
    <3>1. Len(S) = 6 /\ \A i \in 1 .. 6 : i = 1 \/ i = 2 \/ i = 3 \/ i = 4 \/ i = 5 \/ i = 6
      BY <2>2, <2>4
    <3>2. QED
      BY <1>2, <2>2, <2>4, <3>1 DEF EndsInBase, IsBaseStack
  <2>5. QED
    BY <1>2, <2>3, <2>4 DEF IsBaseStack
<1>4. CASE ~o.ETag
  <2>1. S = <<"gate", "feed", "retry">> \o <<>> \o B
    BY <1>1, <1>4 DEF Stack
  <2>2. /\ Len(S) = 3 + Len(B) /\ DOMAIN S = 1 .. 3 + Len(B)
        /\ S[1] = "gate" /\ S[2] = "feed" /\ S[3] = "retry"
        /\ S[4] = B[1] /\ (Len(B) = 2 => S[5] = B[2])
    BY <1>2, <2>1 DEF IsBaseStack
  <2>3. CASE Len(B) = 1
    <3>1. Len(S) = 4 /\ \A i \in 1 .. 4 : i = 1 \/ i = 2 \/ i = 3 \/ i = 4
      BY <2>2, <2>3
    <3>2. QED
      BY <1>2, <2>2, <2>3, <3>1 DEF EndsInBase, IsBaseStack
  <2>4. CASE Len(B) = 2
    <3>1. Len(S) = 5 /\ \A i \in 1 .. 5 : i = 1 \/ i = 2 \/ i = 3 \/ i = 4 \/ i = 5
      BY <2>2, <2>4
    <3>2. QED
      BY <1>2, <2>2, <2>4, <3>1 DEF EndsInBase, IsBaseStack
  <2>5. QED
    BY <1>2, <2>3, <2>4 DEF IsBaseStack
<1>5. QED
  BY <1>3, <1>4

(* The transport of the prober ends in the base transport and has neither   *)
(* gate nor ETag cache.                                                     *)
LEMMA ProbeStackShape ==
    ASSUME NEW o, NEW S, S = ProbeStack(o)
    PROVE  EndsInBase(S, o) /\ \A i \in 1 .. Len(S) : S[i] \notin {"gate", "etag"}
<1>1. PICK B : B = BaseStack(o)
  OBVIOUS
<1>2. IsBaseStack(B, o)
  BY <1>1, BaseStackShape
<1>3. S = <<"retry", "feed">> \o B
  BY <1>1 DEF ProbeStack
<1>4. /\ Len(S) = 2 + Len(B) /\ DOMAIN S = 1 .. 2 + Len(B)
      /\ S[1] = "retry" /\ S[2] = "feed"
      /\ S[3] = B[1] /\ (Len(B) = 2 => S[4] = B[2])
  BY <1>2, <1>3 DEF IsBaseStack
<1>5. CASE Len(B) = 1
  <2>1. Len(S) = 3 /\ \A i \in 1 .. 3 : i = 1 \/ i = 2 \/ i = 3
    BY <1>4, <1>5
  <2>2. QED
    BY <1>2, <1>4, <1>5, <2>1 DEF EndsInBase, IsBaseStack
<1>6. CASE Len(B) = 2
  <2>1. Len(S) = 4 /\ \A i \in 1 .. 4 : i = 1 \/ i = 2 \/ i = 3 \/ i = 4
    BY <1>4, <1>6
  <2>2. QED
    BY <1>2, <1>4, <1>6, <2>1 DEF EndsInBase, IsBaseStack
<1>7. QED
  BY <1>2, <1>5, <1>6 DEF IsBaseStack

(* The same of the stacks of a kernel that is built. *)
LEMMA StackShape ==
    ASSUME KernelInv, kernel.built, NEW f, f.via \in {"client", "probe"}
    PROVE  /\ EndsInBase(Layers(f), options)
           /\ f.via = "probe" => \A i \in 1 .. Len(Layers(f)) :
                                    Layers(f)[i] \notin {"gate", "etag"}
           /\ f.via = "client" => \A i \in 1 .. Len(Layers(f)) :
                                    Layers(f)[i] = "gate" <=> i = 1
<1>1. f.via = "client" => Layers(f) = Stack(options)
  BY DEF Layers, KernelInv
<1>2. f.via = "probe" => Layers(f) = ProbeStack(options)
  BY DEF Layers, KernelInv
<1>3. QED
  BY <1>1, <1>2, ClientStackShape, ProbeStackShape

(* A request that stands at a layer is in a kernel that is built, above the *)
(* base transport unless it is there.                                       *)
LEMMA AtBelow ==
    ASSUME KernelInv, NEW f, Placed(f), NEW layer, At(f, layer)
    PROVE  /\ kernel.built /\ f.at \in 1 .. Len(Layers(f))
           /\ layer # "base" => f.at < Len(Layers(f))
           /\ layer = "gate" => f.at = 1 /\ f.via = "client"
           /\ layer = "etag" => f.via = "client"
<1>1. f.via \in {"client", "probe"}
  BY DEF Placed
<1>2. f.at \in DOMAIN Layers(f) /\ Layers(f)[f.at] = layer
  BY DEF At
<1>3. kernel.built
  <2>1. CASE ~kernel.built
    <3>1. Layers(f) = <<>> /\ DOMAIN <<>> = {}
      BY <2>1 DEF Layers, KernelInv
    <3>2. QED
      BY <1>2, <3>1
  <2>2. QED
    BY <2>1
<1>4. QED
  BY <1>1, <1>2, <1>3, StackShape DEF EndsInBase

-----------------------------------------------------------------------------
(* How a frame moves. *)

(* NoAnswer is an answer without an error. *)
LEMMA Nothing ==
    /\ IsAnswer(NoAnswer) /\ NoAnswer.err = <<>>
    /\ NoAnswer.status = 0 /\ NoAnswer.limit = "none"
    /\ <<>> \in Chains /\ OneSDK(<<>>)
<1>1. <<>> \in Chains
  BY DEF Chains
<1>2. OneSDK(<<>>)
  BY OneSDKTip
<1>3. QED
  BY <1>1, <1>2 DEF NoAnswer, IsAnswer, AnswerFields, IsBudget, NoSnapshot

(* Where a request stands depends on its stack and its place only. *)
LEMMA SameLayers ==
    ASSUME NEW f, NEW n, n.via = f.via
    PROVE  /\ Layers(n) = Layers(f)
           /\ n.at = f.at => \A layer : At(n, layer) <=> At(f, layer)
BY DEF Layers, At

(* A request that has not been sent satisfies the invariant. *)
LEMMA FreshFrame ==
    ASSUME OptionsInv, KernelInv, NEW n, DOMAIN n = FrameFields,
           n.via \in {"client", "probe"}, n.at \in {0, 1},
           \/ n.dir = "idle" /\ n.at = 0
           \/ n.dir = "probe" /\ kernel.built
           \/ n.dir = "down" /\ n.at = 1 /\ kernel.built,
           n.attempt = 0, n.sent = 0, n.answer = NoAnswer,
           n.dir # "idle" /\ (n.via = "client" \/ n.inner) => n.auth = kernel.token,
           n.dir = "down" /\ n.via = "probe" => n.probeAuth = kernel.token,
           n.fault = "none", n.ctx \in {"live"} \cup Endings
    PROVE  FrameInv(n)
<1>1. n.at \in 0 .. Len(Layers(n))
  <2>1. CASE kernel.built
    BY <2>1, StackShape DEF EndsInBase
  <2>2. CASE ~kernel.built
    <3>1. Layers(n) = <<>> /\ Len(<<>>) = 0
      BY <2>2 DEF Layers, KernelInv
    <3>2. QED
      BY <2>2, <3>1
  <2>3. QED
    BY <2>1, <2>2
<1>2. Placed(n)
  BY <1>1, Nothing DEF Placed, Dirs
<1>3. options.Retry.MaxRetries \in Nat
  BY DEF OptionsInv
<1>4. Counted(n)
  BY <1>3 DEF Counted
<1>5. Carries(n) /\ Told(n)
  BY Nothing DEF Carries, Told
<1>6. QED
  BY <1>2, <1>4, <1>5 DEF FrameInv

(* What Down leaves alone. *)
LEMMA DownFields ==
    ASSUME NEW f, DOMAIN f = FrameFields, NEW n, n = Down(f)
    PROVE  /\ DOMAIN n = FrameFields /\ n.dir = "down" /\ n.via = f.via /\ n.at = f.at + 1
           /\ n.inner = f.inner /\ n.auth = f.auth /\ n.probeAuth = f.probeAuth
           /\ n.attempt = f.attempt /\ n.sent = f.sent /\ n.answer = f.answer
           /\ n.ctx = f.ctx /\ n.fault = f.fault /\ n.code = f.code /\ n.wraps = f.wraps
BY DEF Down, FrameFields

(* What Up leaves alone. *)
LEMMA UpFields ==
    ASSUME NEW f, DOMAIN f = FrameFields, NEW a, NEW n, n = Up(f, a)
    PROVE  /\ DOMAIN n = FrameFields /\ n.dir = "up" /\ n.via = f.via /\ n.at = f.at - 1
           /\ n.inner = f.inner /\ n.auth = f.auth /\ n.probeAuth = f.probeAuth
           /\ n.attempt = f.attempt /\ n.sent = f.sent /\ n.answer = a
           /\ n.ctx = f.ctx /\ n.fault = f.fault /\ n.code = f.code /\ n.wraps = f.wraps
BY DEF Up, FrameFields

(* A request that enters the next layer keeps the invariant. *)
LEMMA GoesDown ==
    ASSUME OptionsInv, KernelInv, NEW f, FrameInv(f), NEW n, DOMAIN n = FrameFields,
           NEW layer, At(f, layer), layer # "base",
           n.dir = "down", n.via = f.via, n.at = f.at + 1, n.answer = f.answer,
           n.ctx = f.ctx, n.fault = f.fault, f.fault # "gate",
           f.dir \in {"down", "sleep"}, n.inner = f.inner, n.auth = f.auth,
           n.probeAuth = f.probeAuth,
           n.sent = f.sent, n.attempt \in 0 .. options.Retry.MaxRetries,
           f.sent <= n.attempt
    PROVE  FrameInv(n)
<1>1. /\ f.at \in 1 .. Len(Layers(f)) /\ f.at < Len(Layers(f))
      /\ Len(Layers(f)) \in Nat
  BY AtBelow, StackShape DEF FrameInv, Placed, EndsInBase
<1>2. n.at \in 0 .. Len(Layers(n)) /\ n.at > 1
  BY <1>1, SameLayers
<1>3. Placed(n)
  BY <1>2 DEF FrameInv, Placed, Dirs
<1>4. Counted(n)
  BY <1>2 DEF FrameInv, Counted, OptionsInv
<1>5. Carries(n) /\ Told(n)
  BY DEF FrameInv, Carries, Told
<1>6. QED
  BY <1>3, <1>4, <1>5 DEF FrameInv

(* An answer that leaves a layer keeps its place, its counts and its        *)
(* token.                                                                   *)
LEMMA GoesUp ==
    ASSUME OptionsInv, KernelInv, NEW f, FrameInv(f), NEW n, DOMAIN n = FrameFields,
           f.at > 0, n.dir = "up", n.via = f.via, n.at = f.at - 1, IsAnswer(n.answer),
           f.dir \in {"down", "sleep", "flight", "up"}, n.inner = f.inner,
           n.auth = f.auth, n.probeAuth = f.probeAuth,
           n.attempt = f.attempt, n.sent = f.sent, n.ctx = f.ctx,
           n.fault = "gate" => f.sent = 0
    PROVE  Placed(n) /\ Counted(n) /\ Carries(n)
<1>1. n.at \in 0 .. Len(Layers(n))
  <2>1. f.at \in 0 .. Len(Layers(f)) /\ Layers(n) = Layers(f)
    BY SameLayers DEF FrameInv, Placed
  <2>2. Len(Layers(f)) \in Nat
    <3>1. CASE kernel.built
      BY <3>1, StackShape DEF EndsInBase, FrameInv, Placed
    <3>2. CASE ~kernel.built
      <4>1. Layers(f) = <<>> /\ Len(<<>>) = 0
        BY <3>2 DEF Layers, KernelInv
      <4>2. QED
        BY <4>1
    <3>3. QED
      BY <3>1, <3>2
  <2>3. QED
    BY <2>1, <2>2
<1>2. Placed(n)
  BY <1>1 DEF FrameInv, Placed, Dirs
<1>3. Counted(n)
  BY DEF FrameInv, Counted
<1>4. Carries(n)
  BY DEF FrameInv, Carries
<1>5. QED
  BY <1>2, <1>3, <1>4

(* So does a request that stays where it is, asleep, in flight or with the  *)
(* prober.                                                                  *)
LEMMA Stays ==
    ASSUME OptionsInv, KernelInv, NEW f, FrameInv(f), NEW n, DOMAIN n = FrameFields,
           NEW layer, At(f, layer), n.dir \in {"sleep", "flight", "probe"},
           n.via = f.via, n.at = f.at, f.dir \in {"down", "up"},
           f.via = "client" \/ n.inner = f.inner,
           n.auth = f.auth, n.probeAuth = f.probeAuth,
           n.answer \in {f.answer, NoAnswer},
           n.attempt = f.attempt, n.ctx = f.ctx,
           n.fault # "gate",
           n.sent \in 0 .. n.attempt + 1,
           n.dir = "sleep" /\ layer # "retry" => n.sent <= n.attempt,
           n.dir = "sleep" /\ layer = "retry" => n.attempt < options.Retry.MaxRetries
    PROVE  FrameInv(n)
<1>1. f.at \in 1 .. Len(Layers(f)) /\ Layers(n) = Layers(f)
  BY AtBelow, SameLayers DEF FrameInv
<1>2. IsAnswer(n.answer) /\ n.answer.err \in Chains /\ OneSDK(n.answer.err)
  BY Nothing DEF FrameInv, Placed, Told
<1>3. Placed(n)
  BY <1>1, <1>2 DEF FrameInv, Placed, Dirs
<1>4. At(n, "retry") <=> layer = "retry"
  BY SameLayers DEF At
<1>5. Counted(n)
  BY <1>4 DEF FrameInv, Counted
<1>6. Carries(n) /\ Told(n)
  BY <1>2 DEF FrameInv, Carries, Told
<1>7. QED
  BY <1>3, <1>5, <1>6 DEF FrameInv

(* What is expected of an error depends on what happened, not on the layer. *)
LEMMA SameExpected ==
    ASSUME NEW f, NEW n, n.fault = f.fault, n.code = f.code,
           n.answer.limit = f.answer.limit
    PROVE  NameOf(n) = NameOf(f)
BY DEF NameOf, Expected

(* An answer passed on as it is says the same. *)
LEMMA UpSame ==
    ASSUME NEW f, Told(f), f.dir = "up", NEW n, n.dir = "up",
           n.fault = f.fault, n.code = f.code,
           n.ctx \in {f.ctx, "Canceled", "DeadlineExceeded", "timeout"},
           n.answer.err = f.answer.err, n.answer.limit = f.answer.limit,
           n.answer.status = f.answer.status \/ n.answer.status = 200
    PROVE  Told(n)
<1>1. NameOf(n) = NameOf(f)
  BY SameExpected
<1>2. ~(200 >= 400)
  OBVIOUS
<1>3. QED
  BY <1>1, <1>2 DEF Told

(* Pacing wraps an error, which then says the same. *)
LEMMA UpWrapped ==
    ASSUME NEW f, Told(f), f.dir = "up", f.answer.err # <<>>, NEW n, n.dir = "up",
           n.fault = f.fault, n.code = f.code, n.ctx = f.ctx,
           n.answer.err = Wrapped(f.answer.err), n.answer.limit = f.answer.limit
    PROVE  Told(n)
<1>1. NameOf(n) = NameOf(f)
  BY SameExpected
<1>2. /\ f.answer.err \in Chains /\ OneSDK(f.answer.err)
      /\ Names(f.answer.err, NameOf(f)) /\ f.answer.limit = "none"
      /\ f.ctx = "live" => Names(<<Layer("url.Error")>> \o f.answer.err, NameOf(f))
  BY DEF Told
<1>3. /\ Wrapped(f.answer.err) \in Chains /\ Wrapped(f.answer.err) # <<>>
      /\ OneSDK(Wrapped(f.answer.err))
  BY <1>2, WrappedType, OneSDKWrapped
<1>4. Names(Wrapped(f.answer.err), NameOf(f))
  BY <1>2, NamesWrapped
<1>5. f.ctx = "live" => Names(<<Layer("url.Error")>> \o Wrapped(f.answer.err), NameOf(f))
  BY <1>2, NamesSentWrapped
<1>6. QED
  BY <1>1, <1>2, <1>3, <1>4, <1>5 DEF Told

(* An error that starts its way up says what it should. *)
LEMMA UpFailed ==
    ASSUME NEW n, n.dir = "up", NEW err \in Chains, err # <<>>, OneSDK(err),
           n.answer.err = err, n.answer.limit = "none",
           Names(err, NameOf(n)),
           n.ctx = "live" => Names(<<Layer("url.Error")>> \o err, NameOf(n))
    PROVE  Told(n)
BY DEF Told

(* context.Cause says that the deadline passed, or nothing of the service   *)
(* when the caller has canceled.                                            *)
LEMMA CauseNamed ==
    ASSUME NEW f, f.ctx \in Endings, NEW n, n.fault = f.ctx
    PROVE  /\ Cause(f) \in Chains /\ Cause(f) # <<>> /\ OneSDK(Cause(f))
           /\ Names(Cause(f), NameOf(n))
<1>1. f.ctx \in {"Canceled", "DeadlineExceeded", "timeout"}
  BY KernelAssumption
<1>2. CASE f.ctx = "Canceled"
  <2>1. Cause(f) = <<Layer("Canceled")>> /\ NameOf(n) = "none"
    BY <1>2 DEF Cause, NameOf, Expected
  <2>2. /\ Layer("Canceled") \in ErrorLayers /\ Layer("Canceled").sentinel = "none"
        /\ Layer("Canceled").type = "Canceled"
    BY LayerType DEF Layer, ErrorTypes
  <2>3. Names(<<Layer("Canceled")>>, "none")
    BY <2>2, NamesBare
  <2>4. <<Layer("Canceled")>> \in Chains /\ <<Layer("Canceled")>> # <<>>
    BY <2>2 DEF Chains
  <2>5. QED
    BY <2>1, <2>3, <2>4, OneSDKTip
<1>3. CASE f.ctx # "Canceled"
  <2>1. Cause(f) = <<Layer("DeadlineExceeded")>> /\ NameOf(n) = "ErrAPIUnavailable"
    BY <1>1, <1>3 DEF Cause, NameOf, Expected
  <2>2. Layer("DeadlineExceeded") \in ErrorLayers
    BY LayerType DEF ErrorTypes
  <2>3. Names(<<Layer("DeadlineExceeded")>>, "ErrAPIUnavailable")
    BY NamesNet
  <2>4. <<Layer("DeadlineExceeded")>> \in Chains /\ <<Layer("DeadlineExceeded")>> # <<>>
    BY <2>2 DEF Chains
  <2>5. QED
    BY <2>1, <2>3, <2>4, OneSDKTip
<1>4. QED
  BY <1>2, <1>3

-----------------------------------------------------------------------------
(* The steps. *)

(* The invariant of a frame does not depend on the others, only on the      *)
(* kernel.                                                                  *)
LEMMA FrameStep ==
    ASSUME UNCHANGED construction, NEW h \in Callers, NEW m, frame'[h] = m, FrameInv(m)
    PROVE  FrameInv(frame[h])'
<1>1. Layers(frame[h])' = Layers(m)
  BY DEF Layers, construction
<1>2. \A layer : At(frame[h], layer)' <=> At(m, layer)
  BY <1>1 DEF At
<1>3. Placed(frame[h])'
  BY <1>1 DEF FrameInv, Placed
<1>4. Counted(frame[h])'
  BY <1>2 DEF FrameInv, Counted, construction
<1>5. Carries(frame[h])' /\ Told(frame[h])'
  <2>1. Carries(frame[h])'
    BY DEF FrameInv, Carries, construction
  <2>2. NameOf(frame[h])' = NameOf(m)
    BY DEF NameOf, Expected
  <2>3. QED
    BY <2>1, <2>2 DEF FrameInv, Told
<1>6. QED
  BY <1>3, <1>4, <1>5 DEF FrameInv

(* A step of one goroutine keeps the invariant when its new frame does. *)
LEMMA Moves ==
    ASSUME Inv, kernel.built, NEW g \in Callers, NEW n, FrameInv(n), Move(g, n),
           UNCHANGED construction, SharedInv'
    PROVE  Inv'
<1>1. DOMAIN frame' = Callers /\ frame'[g] = n
      /\ \A h \in Callers \ {g} : frame'[h] = frame[h]
  BY DEF Inv, Move
<1>2. ASSUME NEW h \in Callers PROVE FrameInv(frame[h])'
  <2>1. CASE h = g
    BY <1>1, <2>1, FrameStep
  <2>2. CASE h # g
    BY <1>1, <2>2, FrameStep DEF Inv
  <2>3. QED
    BY <2>1, <2>2
<1>3. OptionsInv' /\ KernelInv'
  BY DEF Inv, OptionsInv, KernelInv, Asked, construction
<1>4. QED
  BY <1>1, <1>2, <1>3 DEF Inv

(* A goroutine that does anything has a kernel. *)
LEMMA AtBuilt ==
    ASSUME Inv, NEW g \in Callers, frame[g].dir # "idle"
    PROVE  kernel.built
<1>1. ~kernel.built => frame[g] = Idle
  BY DEF Inv, KernelInv
<1>2. Idle.dir = "idle"
  BY DEF Idle
<1>3. QED
  BY <1>1, <1>2

(* A step that leaves the shared state alone. *)
LEMMA SharedSame ==
    ASSUME Inv, UNCHANGED <<shared, pacing>>
    PROVE  SharedInv'
BY DEF Inv, SharedInv, shared, pacing, IsBudget

(* A request or RefreshRateLimit starts. *)
LEMMA EnterStep ==
    ASSUME Inv, NEW g \in Callers, Enter(g)
    PROVE  Inv'
<1>1. ASSUME RefreshRateLimit(g) PROVE Inv'
  <2> DEFINE n == [Idle EXCEPT !.dir = "probe", !.via = "probe"]
  <2>1. kernel.built /\ Move(g, n) /\ UNCHANGED <<construction, shared, pacing>>
    BY <1>1 DEF RefreshRateLimit
  <2>2. FrameInv(n)
    <3>1. /\ DOMAIN n = FrameFields /\ n.dir = "probe" /\ n.via = "probe" /\ n.at = 0
          /\ n.attempt = 0 /\ n.sent = 0 /\ n.answer = NoAnswer
          /\ ~n.inner /\ n.fault = "none" /\ n.ctx = "live"
      BY DEF Idle, FrameFields
    <3> HIDE DEF n
    <3>2. QED
      BY <2>1, <3>1, FreshFrame DEF Inv
  <2> HIDE DEF n
  <2>3. QED
    BY <2>1, <2>2, Moves, SharedSame
<1>2. ASSUME NEW m \in Methods, Call(g, m) PROVE Inv'
  <2> DEFINE n == [Idle EXCEPT !.dir = "down", !.at = 1, !.method = m,
                            !.auth = kernel.token]
  <2>1. kernel.built /\ Move(g, n) /\ UNCHANGED <<construction, shared, pacing>>
    BY <1>2 DEF Call
  <2>2. FrameInv(n)
    <3>1. /\ DOMAIN n = FrameFields /\ n.dir = "down" /\ n.via = "client" /\ n.at = 1
          /\ n.attempt = 0 /\ n.sent = 0 /\ n.answer = NoAnswer
          /\ n.auth = kernel.token /\ n.fault = "none" /\ n.ctx = "live"
      BY DEF Idle, FrameFields
    <3> HIDE DEF n
    <3>2. QED
      BY <2>1, <3>1, FreshFrame DEF Inv
  <2> HIDE DEF n
  <2>3. QED
    BY <2>1, <2>2, Moves, SharedSame
<1>3. QED
  BY <1>1, <1>2 DEF Enter

(* Decrement keeps a budget a budget. *)
LEMMA SpentBudget ==
    ASSUME SharedInv
    PROVE  IsBudget(Spent)
BY DEF SharedInv, IsBudget, Spent

(* A request that fails at its layer. *)
FailedWith(f, err, fault) == [Failed(f, err) EXCEPT !.fault = fault]

(* What such a failure leaves alone. *)
LEMMA FailedFields ==
    ASSUME NEW f, DOMAIN f = FrameFields, NEW err, NEW fault,
           NEW n, n = FailedWith(f, err, fault)
    PROVE  /\ DOMAIN n = FrameFields /\ n.dir = "up" /\ n.via = f.via /\ n.at = f.at - 1
           /\ n.inner = f.inner /\ n.auth = f.auth /\ n.probeAuth = f.probeAuth
           /\ n.attempt = f.attempt
           /\ n.sent = f.sent /\ n.ctx = f.ctx /\ n.fault = fault /\ n.code = f.code
           /\ IsAnswer(n.answer) /\ n.answer.err = err
           /\ n.answer.limit = "none"
<1>1. /\ DOMAIN n = FrameFields /\ n.dir = "up" /\ n.via = f.via /\ n.at = f.at - 1
      /\ n.inner = f.inner /\ n.auth = f.auth /\ n.probeAuth = f.probeAuth
      /\ n.attempt = f.attempt
      /\ n.sent = f.sent /\ n.ctx = f.ctx /\ n.fault = fault /\ n.code = f.code
      /\ n.answer = [NoAnswer EXCEPT !.err = err]
  BY DEF FailedWith, Failed, Up, FrameFields
<1>2. /\ IsAnswer(n.answer) /\ n.answer.err = err
      /\ n.answer.limit = "none"
  BY <1>1 DEF NoAnswer, IsAnswer, AnswerFields, IsBudget, NoSnapshot
<1>3. QED
  BY <1>1, <1>2

(* And what an ended context leaves alone. *)
LEMMA CutFields ==
    ASSUME NEW f, DOMAIN f = FrameFields, NEW n, n = Cut(f)
    PROVE  /\ DOMAIN n = FrameFields /\ n.dir = "up" /\ n.via = f.via /\ n.at = f.at - 1
           /\ n.inner = f.inner /\ n.auth = f.auth /\ n.probeAuth = f.probeAuth
           /\ n.attempt = f.attempt
           /\ n.sent = f.sent /\ n.ctx = f.ctx /\ n.fault = f.ctx /\ n.code = f.code
           /\ IsAnswer(n.answer) /\ n.answer.err = Cause(f)
           /\ n.answer.limit = "none"
<1>1. n = FailedWith(f, Cause(f), f.ctx)
  BY DEF Cut, FailedWith
<1>2. QED
  BY <1>1, FailedFields

(* A wait or an exchange that an ended context cuts short keeps the         *)
(* invariant.                                                               *)
LEMMA CutFrame ==
    ASSUME OptionsInv, KernelInv, NEW f, FrameInv(f), f.at > 0,
           f.dir \in {"sleep", "flight"}, f.ctx # "live", NEW n, n = Cut(f)
    PROVE  FrameInv(n)
<1>1. DOMAIN f = FrameFields /\ f.ctx \in Endings
  BY DEF FrameInv, Placed
<1>2. /\ DOMAIN n = FrameFields /\ n.dir = "up" /\ n.via = f.via /\ n.at = f.at - 1
      /\ n.inner = f.inner /\ n.auth = f.auth /\ n.probeAuth = f.probeAuth
      /\ n.attempt = f.attempt
      /\ n.sent = f.sent /\ n.ctx = f.ctx /\ n.fault = f.ctx /\ n.code = f.code
      /\ IsAnswer(n.answer) /\ n.answer.err = Cause(f)
      /\ n.answer.limit = "none"
  BY <1>1, CutFields
<1>4. n.fault # "gate"
  BY <1>1, <1>2, KernelAssumption
<1>5. Placed(n) /\ Counted(n) /\ Carries(n)
  BY <1>2, <1>4, GoesUp
<1>6. Told(n)
  BY <1>1, <1>2, CauseNamed, UpFailed
<1>7. QED
  BY <1>5, <1>6 DEF FrameInv

(* So does a request that goes down unchanged. *)
LEMMA GoingDown ==
    ASSUME Inv, NEW f, FrameInv(f), NEW layer, At(f, layer), layer # "base",
           f.dir = "down" \/ (f.dir = "sleep" /\ layer # "retry")
    PROVE  FrameInv(Down(f))
<1> DEFINE n == Down(f)
<1>1. DOMAIN f = FrameFields
  BY DEF FrameInv, Placed
<1>2. /\ DOMAIN n = FrameFields /\ n.dir = "down" /\ n.via = f.via /\ n.at = f.at + 1
      /\ n.inner = f.inner /\ n.auth = f.auth /\ n.probeAuth = f.probeAuth
      /\ n.attempt = f.attempt /\ n.sent = f.sent
      /\ n.answer = f.answer /\ n.ctx = f.ctx /\ n.fault = f.fault
  BY <1>1, DownFields
<1>3. ~(f.dir = "sleep" /\ At(f, "retry"))
  BY DEF At
<1>4. f.fault # "gate" /\ f.sent <= f.attempt /\ f.attempt \in 0 .. options.Retry.MaxRetries
  BY <1>3 DEF FrameInv, Counted
<1> HIDE DEF n
<1>5. FrameInv(n)
  BY <1>2, <1>4, GoesDown DEF Inv
<1>6. QED
  BY <1>5 DEF n

(* The error of the gate. *)
TooFar == StatusError("ErrRateLimited", 0, <<Layer("resetTooFarError")>>)

(* It is a rate limit, also through the wrapping of http.Client. *)
LEMMA TooFarNamed ==
    /\ TooFar \in Chains /\ TooFar # <<>> /\ OneSDK(TooFar)
    /\ Names(TooFar, "ErrRateLimited")
    /\ Names(<<Layer("url.Error")>> \o TooFar, "ErrRateLimited")
<1> DEFINE l == Layer("resetTooFarError")
           c == <<l>>
<1>1. l \in ErrorLayers /\ l.sentinel = "none"
  BY LayerType DEF Layer, ErrorTypes
<1>2. TooFar = StatusError("ErrRateLimited", 0, c)
  BY DEF TooFar
<1> HIDE DEF l
<1>3. c \in Chains /\ \A s \in KitSentinels : ~Is(c, s)
  BY <1>1, Tip DEF KitSentinels
<1>4. OneSDK(c)
  BY OneSDKTip
<1>5. "ErrRateLimited" \in KitSentinels /\ "ErrRateLimited" \in SentinelNames
  BY DEF KitSentinels, SentinelNames
<1> HIDE DEF c
<1>6. /\ Names(TooFar, "ErrRateLimited")
      /\ Names(<<Layer("url.Error")>> \o TooFar, "ErrRateLimited")
  BY <1>2, <1>3, <1>5, NamesStatus
<1>7. TooFar \in Chains /\ OneSDK(TooFar)
  BY <1>2, <1>3, <1>4, <1>5, StatusErrorType, OneSDKStatus
<1>8. TooFar # <<>>
  <2>1. Len(TooFar) = Len(c) + 1
    BY <1>3 DEF TooFar, StatusError, Chains, c, l
  <2>2. Len(c) \in Nat
    BY <1>3 DEF Chains
  <2>3. Len(<<>>) = 0
    OBVIOUS
  <2>4. Len(TooFar) # 0
    BY <2>1, <2>2
  <2>5. QED
    BY <2>3, <2>4
<1>9. QED
  BY <1>6, <1>7, <1>8

(* A request let through or not. *)
LEMMA SpentShared ==
    ASSUME Inv, cache' = Spent \/ cache' = cache, UNCHANGED <<stored, pacing>>,
           cooling' \in BOOLEAN
    PROVE  SharedInv'
<1>1. IsBudget(cache')
  BY SpentBudget DEF Inv, SharedInv
<1>2. IsBudget(cache)'
  BY <1>1 DEF IsBudget
<1>3. QED
  BY <1>2 DEF Inv, SharedInv, pacing

(* The decision of the gate. *)
LEMMA DecideStep ==
    ASSUME Inv, kernel.built, NEW g \in Callers, NEW f, FrameInv(f), f.dir = "down",
           At(f, "gate"), NEW s, GateDecide(g, f, s),
           UNCHANGED <<construction, stored, pacing>>, cooling' \in BOOLEAN
    PROVE  Inv'
<1>0. /\ DOMAIN f = FrameFields /\ OptionsInv /\ KernelInv
      /\ f.at = 1 /\ f.sent = 0 /\ f.via = "client" /\ f.fault # "gate"
      /\ f.attempt \in 0 .. options.Retry.MaxRetries
  BY AtBelow DEF FrameInv, Placed, Counted, Inv
<1>a. SharedInv'
  BY SpentShared DEF GateDecide
<1>1. CASE Move(g, Down(f))
  BY <1>a, <1>1, GoingDown, Moves
<1>2. CASE Move(g, FailedWith(f, TooFar, "gate"))
  <2> DEFINE n == FailedWith(f, TooFar, "gate")
  <2>1. /\ DOMAIN n = FrameFields /\ n.dir = "up" /\ n.via = f.via /\ n.at = f.at - 1
        /\ n.inner = f.inner /\ n.auth = f.auth /\ n.probeAuth = f.probeAuth
        /\ n.attempt = f.attempt
        /\ n.sent = f.sent /\ n.ctx = f.ctx /\ n.fault = "gate" /\ n.code = f.code
        /\ IsAnswer(n.answer) /\ n.answer.err = TooFar
        /\ n.answer.limit = "none"
    BY <1>0, FailedFields
  <2> HIDE DEF n
  <2>2. Placed(n) /\ Counted(n) /\ Carries(n)
    BY <1>0, <2>1, GoesUp
  <2>3. NameOf(n) = "ErrRateLimited"
    BY <2>1 DEF NameOf, Expected
  <2>4. Told(n)
    BY <2>1, <2>3, TooFarNamed, UpFailed
  <2>5. FrameInv(n)
    BY <2>2, <2>4 DEF FrameInv
  <2>6. QED
    BY <1>a, <1>2, <2>5, Moves DEF n
<1>3. CASE Move(g, [f EXCEPT !.dir = "sleep"])
  <2> DEFINE n == [f EXCEPT !.dir = "sleep"]
  <2>1. /\ DOMAIN n = FrameFields /\ n.dir = "sleep" /\ n.via = f.via /\ n.at = f.at
        /\ n.inner = f.inner /\ n.auth = f.auth /\ n.probeAuth = f.probeAuth
        /\ n.attempt = f.attempt /\ n.sent = f.sent
        /\ n.answer = f.answer /\ n.ctx = f.ctx /\ n.fault = f.fault
    BY <1>0 DEF FrameFields
  <2> HIDE DEF n
  <2>2. FrameInv(n)
    BY <1>0, <2>1, Stays
  <2>3. QED
    BY <1>a, <1>3, <2>2, Moves DEF n
<1>4. QED
  BY <1>1, <1>2, <1>3 DEF GateDecide, FailedWith, TooFar

(* A request reaches the gate. *)
LEMMA GateStep ==
    ASSUME Inv, NEW g \in Callers, Gate(g)
    PROVE  Inv'
<1> DEFINE f == frame[g]
<1>0. /\ f.dir = "down" /\ At(f, "gate") /\ FrameInv(f) /\ OptionsInv /\ KernelInv
      /\ UNCHANGED <<construction, cooling, stored, pacing>>
  BY DEF Gate, Inv
<1>1. kernel.built /\ cooling' \in BOOLEAN
  BY <1>0, AtBuilt DEF Inv, SharedInv
<1>2. CASE Move(g, Down(f)) /\ UNCHANGED cache
  <2>1. SharedInv'
    BY <1>0, <1>1, <1>2, SpentShared
  <2> HIDE DEF f
  <2>2. QED
    BY <1>0, <1>1, <1>2, <2>1, GoingDown, Moves
<1>3. CASE GateDecide(g, f, cache)
  BY <1>0, <1>1, <1>3, DecideStep
<1>4. CASE Move(g, [f EXCEPT !.dir = "probe", !.inner = TRUE]) /\ UNCHANGED cache
  <2> DEFINE n == [f EXCEPT !.dir = "probe", !.inner = TRUE]
  <2>0. DOMAIN f = FrameFields
    BY <1>0 DEF FrameInv, Placed
  <2>1. /\ DOMAIN n = FrameFields /\ n.dir = "probe" /\ n.via = f.via /\ n.at = f.at
        /\ n.auth = f.auth /\ n.probeAuth = f.probeAuth /\ n.attempt = f.attempt /\ n.sent = f.sent
        /\ n.answer = f.answer /\ n.ctx = f.ctx /\ n.fault = f.fault
    BY <2>0 DEF FrameFields
  <2>2. f.fault # "gate" /\ f.sent \in 0 .. f.attempt + 1
    BY <1>0 DEF FrameInv, Counted
  <2>a. SharedInv'
    BY <1>0, <1>1, <1>4, SpentShared
  <2>b. Move(g, n)
    BY <1>4
  <2> HIDE DEF n, f
  <2>c. f.via = "client"
    BY <1>0, AtBelow DEF FrameInv
  <2>3. FrameInv(n)
    BY <1>0, <2>1, <2>2, <2>c, Stays
  <2>4. QED
    BY <1>0, <1>1, <2>a, <2>b, <2>3, Moves
<1>5. QED
  BY <1>2, <1>3, <1>4 DEF Gate

(* The sleep of the gate ends, or is cut short. *)
LEMMA GateSleepStep ==
    ASSUME Inv, NEW g \in Callers, GateSleep(g)
    PROVE  Inv'
<1> DEFINE f == frame[g]
<1>0. /\ f.dir = "sleep" /\ At(f, "gate") /\ FrameInv(f) /\ OptionsInv /\ KernelInv
      /\ UNCHANGED <<construction, cooling, stored, pacing>>
      /\ cache' = Spent \/ cache' = cache
      /\ Move(g, Down(f)) \/ (f.ctx # "live" /\ Move(g, Cut(f)))
  BY DEF GateSleep, Inv
<1>1. kernel.built /\ cooling' \in BOOLEAN
  BY <1>0, AtBuilt DEF Inv, SharedInv
<1>2. SharedInv'
  BY <1>0, <1>1, SpentShared
<1>3. f.at > 0
  BY <1>0 DEF FrameInv, Placed
<1> HIDE DEF f
<1>4. FrameInv(Down(f)) /\ (f.ctx # "live" => FrameInv(Cut(f)))
  BY <1>0, <1>3, GoingDown, CutFrame
<1>5. QED
  BY <1>0, <1>1, <1>2, <1>4, Moves

(* The gate is the first layer, so that probe returns to it. *)
LEMMA GateOnTop ==
    ASSUME KernelInv, kernel.built
    PROVE  /\ SelectInSeq(kernel.stack, LAMBDA layer : layer = "gate") = 1
           /\ \A n : n.via = "client" /\ n.at = 1 => At(n, "gate")
<1> DEFINE S == kernel.stack
           I == {i \in 1 .. Len(S) : S[i] = "gate"}
<1>1. S = Stack(options)
  BY DEF KernelInv
<1> HIDE DEF S
<1>2. /\ Len(S) \in Nat /\ Len(S) >= 3 /\ DOMAIN S = 1 .. Len(S)
      /\ \A i \in 1 .. Len(S) : S[i] = "gate" <=> i = 1
  BY <1>1, ClientStackShape DEF EndsInBase
<1>3. I = {1}
  BY <1>2
<1>4. SelectInSeq(S, LAMBDA layer : layer = "gate") = IF I # {} THEN Min(I) ELSE 0
  BY DEF SelectInSeq
<1>5. Min(I) = 1
  <2>1. I \in SUBSET Nat /\ I # {}
    BY <1>3
  <2>2. QED
    BY <1>3, <2>1, MinIsLeast
<1>6. SelectInSeq(S, LAMBDA layer : layer = "gate") = 1
  BY <1>3, <1>4, <1>5
<1>7. ASSUME NEW n, n.via = "client", n.at = 1 PROVE At(n, "gate")
  BY <1>2, <1>7 DEF At, Layers, S
<1>8. QED
  BY <1>6, <1>7 DEF S

(* The frame with which probe comes back to the gate. *)
Resumed(f) ==
    [Idle EXCEPT !.dir = "down", !.at = 1, !.method = f.method, !.auth = f.auth,
                 !.ctx = f.ctx]

(* What RefreshRateLimit returns. *)
Refreshed(f, err, fault) ==
    [Idle EXCEPT !.dir = "returned", !.fault = fault, !.code = f.code,
                 !.answer = [NoAnswer EXCEPT !.err = err]]

(* What probe returns to: RefreshRateLimit, or the gate. *)
LEMMA ProbeReturnsIs ==
    ASSUME KernelInv, kernel.built, NEW g, NEW err, NEW fault, ProbeReturns(g, err, fault)
    PROVE  \/ Move(g, Refreshed(frame[g], err, fault)) /\ UNCHANGED cache
           \/ /\ frame[g].inner /\ err = <<>>
              /\ GateDecide(g, Resumed(frame[g]), cache)
           \/ /\ frame[g].inner
              /\ Move(g, Down(Resumed(frame[g]))) /\ cache' = Spent
<1> DEFINE gate == SelectInSeq(kernel.stack, LAMBDA layer : layer = "gate")
           f == [Idle EXCEPT !.dir = "down", !.at = gate,
                             !.method = frame[g].method, !.auth = frame[g].auth,
                             !.ctx = frame[g].ctx]
<1>1. IF ~frame[g].inner
      THEN Move(g, Refreshed(frame[g], err, fault)) /\ UNCHANGED cache
      ELSE IF err = <<>> THEN GateDecide(g, f, cache)
      ELSE Move(g, Down(f)) /\ cache' = Spent
  BY DEF ProbeReturns, Refreshed
<1>2. gate = 1
  BY GateOnTop
<1> HIDE DEF gate
<1>3. f = Resumed(frame[g])
  BY <1>2 DEF Resumed
<1> HIDE DEF f
<1>4. QED
  BY <1>1, <1>3

(* The request that waited for a probe is back at the gate. *)
LEMMA ResumedFrame ==
    ASSUME OptionsInv, KernelInv, kernel.built, NEW f, FrameInv(f), f.inner,
           f.dir \in {"probe", "up"}
    PROVE  /\ FrameInv(Resumed(f)) /\ Resumed(f).dir = "down"
           /\ At(Resumed(f), "gate")
<1> DEFINE n == Resumed(f)
<1>0. f.ctx \in {"live"} \cup Endings /\ f.auth = kernel.token
  BY DEF FrameInv, Placed, Carries
<1>1. /\ DOMAIN n = FrameFields /\ n.dir = "down" /\ n.via = "client" /\ n.at = 1
      /\ n.attempt = 0 /\ n.sent = 0 /\ n.answer = NoAnswer
      /\ n.auth = f.auth /\ n.fault = "none" /\ n.ctx = f.ctx
  BY DEF Resumed, Idle, FrameFields
<1> HIDE DEF n
<1>2. FrameInv(n) /\ At(n, "gate")
  BY <1>0, <1>1, FreshFrame, GateOnTop
<1>3. QED
  BY <1>1, <1>2 DEF n

(* A frame that has returned an error that says what it should. *)
LEMMA ReturnedFrame ==
    ASSUME OptionsInv, KernelInv, NEW n, DOMAIN n = FrameFields,
           n.dir = "returned", n.via = "client", n.at = 0, n.attempt = 0, n.sent = 0,
           n.ctx = "live", IsAnswer(n.answer),
           n.answer.err \in Chains, OneSDK(n.answer.err),
           n.answer.err # <<>> => Names(n.answer.err, NameOf(n))
    PROVE  FrameInv(n)
<1>1. 0 \in 0 .. Len(Layers(n))
  <2>1. CASE kernel.built
    BY <2>1, StackShape DEF EndsInBase
  <2>2. CASE ~kernel.built
    <3>1. Layers(n) = <<>> /\ Len(<<>>) = 0
      BY <2>2 DEF Layers, KernelInv
    <3>2. QED
      BY <3>1
  <2>3. QED
    BY <2>1, <2>2
<1>2. Placed(n)
  BY <1>1 DEF Placed, Dirs
<1>3. Counted(n) /\ Carries(n)
  BY DEF Counted, Carries, OptionsInv
<1>4. Told(n)
  BY DEF Told
<1>5. QED
  BY <1>2, <1>3, <1>4 DEF FrameInv

(* So does RefreshRateLimit. *)
LEMMA RefreshedFrame ==
    ASSUME OptionsInv, KernelInv, NEW f, FrameInv(f), NEW fault,
           NEW err \in Chains, OneSDK(err),
           err # <<>> => \E n : /\ n.fault = fault /\ n.code = f.code
                                /\ n.answer.limit = "none" /\ Names(err, NameOf(n))
    PROVE  FrameInv(Refreshed(f, err, fault))
<1> DEFINE n == Refreshed(f, err, fault)
<1>1. /\ DOMAIN n = FrameFields /\ n.dir = "returned" /\ n.via = "client" /\ n.at = 0
      /\ n.attempt = 0 /\ n.sent = 0
      /\ n.fault = fault /\ n.ctx = "live" /\ n.code = f.code
      /\ n.answer = [NoAnswer EXCEPT !.err = err]
  BY DEF Refreshed, Idle, FrameFields
<1>2. IsAnswer(n.answer) /\ n.answer.err = err /\ n.answer.limit = "none"
  BY <1>1 DEF NoAnswer, IsAnswer, AnswerFields, IsBudget, NoSnapshot
<1> HIDE DEF n
<1>3. ASSUME err # <<>> PROVE Names(err, NameOf(n))
  <2>1. PICK m : /\ m.fault = fault /\ m.code = f.code
                 /\ m.answer.limit = "none" /\ Names(err, NameOf(m))
    BY <1>3
  <2>2. NameOf(n) = NameOf(m)
    BY <1>1, <1>2, <2>1 DEF NameOf, Expected
  <2>3. QED
    BY <2>1, <2>2
<1>4. FrameInv(n)
  BY <1>1, <1>2, <1>3, ReturnedFrame
<1>5. QED
  BY <1>4 DEF n

(* A probe without an answer is an unavailable API. *)
LEMMA UnavailableNamed ==
    /\ Unavailable \in Chains /\ Unavailable # <<>> /\ OneSDK(Unavailable)
    /\ Names(Unavailable, "ErrAPIUnavailable")
<1> DEFINE l == [Layer("sentinel") EXCEPT !.sentinel = "ErrAPIUnavailable"]
           c == <<l>>
<1>1. l \in ErrorLayers /\ l.type = "sentinel" /\ l.sentinel = "ErrAPIUnavailable"
  <2> DEFINE bare == Layer("sentinel")
  <2>1. bare \in ErrorLayers /\ bare.type = "sentinel"
    BY LayerType DEF Layer, ErrorTypes
  <2> HIDE DEF bare
  <2>2. /\ [bare EXCEPT !.sentinel = "ErrAPIUnavailable"] \in ErrorLayers
        /\ [bare EXCEPT !.sentinel = "ErrAPIUnavailable"].type = "sentinel"
        /\ [bare EXCEPT !.sentinel = "ErrAPIUnavailable"].sentinel = "ErrAPIUnavailable"
    BY <2>1 DEF ErrorLayers, SentinelNames
  <2>3. QED
    BY <2>2 DEF bare
<1>2. Unavailable = Wrapped(c)
  BY DEF Unavailable
<1> HIDE DEF l
<1>3. Names(c, "ErrAPIUnavailable")
  BY <1>1, NamesBare
<1>4. c \in Chains /\ c # <<>>
  BY <1>1 DEF Chains
<1>5. OneSDK(c)
  BY OneSDKTip
<1> HIDE DEF c
<1>6. QED
  BY <1>2, <1>3, <1>4, <1>5, WrappedType, OneSDKWrapped, NamesWrapped

(* The prober returns. *)
LEMMA ProbeReturnsStep ==
    ASSUME Inv, kernel.built, NEW g \in Callers, NEW fault,
           NEW err \in Chains, OneSDK(err),
           err # <<>> => \E n : /\ n.fault = fault /\ n.code = frame[g].code
                                /\ n.answer.limit = "none" /\ Names(err, NameOf(n)),
           frame[g].dir \in {"probe", "up"}, ProbeReturns(g, err, fault),
           UNCHANGED <<construction, stored, pacing>>, cooling' \in BOOLEAN
    PROVE  Inv'
<1> DEFINE f == frame[g]
<1>0. OptionsInv /\ KernelInv /\ FrameInv(f)
  BY DEF Inv
<1>1. \/ Move(g, Refreshed(f, err, fault)) /\ UNCHANGED cache
      \/ f.inner /\ GateDecide(g, Resumed(f), cache)
      \/ f.inner /\ Move(g, Down(Resumed(f))) /\ cache' = Spent
  BY <1>0, ProbeReturnsIs
<1>2. FrameInv(Refreshed(f, err, fault))
  BY <1>0, RefreshedFrame
<1>a. f.dir \in {"probe", "up"}
  OBVIOUS
<1> HIDE DEF f
<1>3. f.inner => /\ FrameInv(Resumed(f)) /\ Resumed(f).dir = "down"
                 /\ At(Resumed(f), "gate")
  BY <1>0, <1>a, ResumedFrame
<1>4. CASE Move(g, Refreshed(f, err, fault)) /\ UNCHANGED cache
  <2>1. SharedInv'
    BY <1>4, SpentShared
  <2>2. QED
    BY <1>2, <1>4, <2>1, Moves
<1>5. CASE f.inner /\ GateDecide(g, Resumed(f), cache)
  BY <1>3, <1>5, DecideStep
<1>6. CASE f.inner /\ Move(g, Down(Resumed(f))) /\ cache' = Spent
  <2>1. SharedInv'
    BY <1>6, SpentShared
  <2>2. FrameInv(Down(Resumed(f)))
    BY <1>3, <1>6, GoingDown
  <2>3. QED
    BY <1>6, <2>1, <2>2, Moves
<1>7. QED
  BY <1>1, <1>4, <1>5, <1>6

(* The prober answers from the cache, or starts a probe. *)
LEMMA ProbeStep ==
    ASSUME Inv, NEW g \in Callers, Probe(g)
    PROVE  Inv'
<1> DEFINE f == frame[g]
<1>0. /\ f.dir = "probe" /\ FrameInv(f) /\ OptionsInv /\ KernelInv
      /\ UNCHANGED <<construction, stored, pacing>> /\ cooling \in BOOLEAN
  BY DEF Probe, Inv, SharedInv
<1>1. kernel.built
  BY <1>0, AtBuilt
<1>2. CASE cooling /\ UNCHANGED cooling /\ ProbeReturns(g, <<>>, "none")
  BY <1>0, <1>1, <1>2, Nothing, ProbeReturnsStep
<1>3. CASE cooling /\ UNCHANGED cooling /\ ProbeReturns(g, Unavailable, "probe")
  <2>1. PICK n : n.fault = "probe" /\ n.code = f.code /\ n.answer.limit = "none"
    <3> DEFINE n == Refreshed(f, <<>>, "probe")
    <3>1. n.fault = "probe" /\ n.code = f.code /\ n.answer = [NoAnswer EXCEPT !.err = <<>>]
      BY DEF Refreshed, Idle
    <3>2. n.answer.limit = "none"
      BY <3>1 DEF NoAnswer
    <3>3. QED
      BY <3>1, <3>2
  <2>2. NameOf(n) = "ErrAPIUnavailable"
    BY <2>1 DEF NameOf, Expected
  <2>3. Unavailable \in Chains /\ OneSDK(Unavailable) /\ Names(Unavailable, NameOf(n))
    BY <2>2, UnavailableNamed
  <2>4. QED
    BY <1>0, <1>1, <1>3, <2>1, <2>3, ProbeReturnsStep
<1>4. CASE Move(g, ProbeRequest(f)) /\ cooling' = TRUE /\ UNCHANGED cache
  <2> DEFINE n == ProbeRequest(f)
  <2>1. /\ DOMAIN n = FrameFields /\ n.dir = "down" /\ n.via = "probe" /\ n.at = 1
        /\ n.attempt = 0 /\ n.sent = 0 /\ n.answer = NoAnswer
        /\ n.inner = f.inner /\ n.auth = f.auth /\ n.probeAuth = kernel.token
        /\ n.fault = "none" /\ n.ctx = f.ctx
    BY DEF ProbeRequest, Idle, FrameFields
  <2>2. f.ctx \in {"live"} \cup Endings /\ (f.inner => f.auth = kernel.token)
    BY <1>0 DEF FrameInv, Placed, Carries
  <2>3. Move(g, n)
    BY <1>4
  <2>4. SharedInv'
    BY <1>0, <1>4, SpentShared
  <2> HIDE DEF n, f
  <2>5. FrameInv(n)
    BY <1>0, <1>1, <2>1, <2>2, FreshFrame
  <2>6. QED
    BY <1>0, <1>1, <2>3, <2>4, <2>5, Moves
<1>5. QED
  BY <1>2, <1>3, <1>4 DEF Probe

(* A probe comes back. *)
LEMMA ProbeAnsweredStep ==
    ASSUME Inv, NEW g \in Callers, ProbeAnswered(g)
    PROVE  Inv'
<1> DEFINE f == frame[g]
           err == f.answer.err
<1>0. /\ f.dir = "up" /\ f.via = "probe" /\ f.at = 0
      /\ FrameInv(f) /\ OptionsInv /\ KernelInv
      /\ UNCHANGED <<construction, cooling, stored, pacing>> /\ cooling \in BOOLEAN
      /\ \/ err # <<>> /\ ProbeReturns(g, Wrapped(err), f.fault)
         \/ ProbeReturns(g, Unavailable, "probe")
         \/ ProbeReturns(g, <<>>, "none")
  BY DEF ProbeAnswered, Inv, SharedInv
<1>1. kernel.built
  BY <1>0, AtBuilt
<1>2. CASE ProbeReturns(g, <<>>, "none")
  BY <1>0, <1>1, <1>2, Nothing, ProbeReturnsStep
<1>3. CASE ProbeReturns(g, Unavailable, "probe")
  <2>1. PICK n : n.fault = "probe" /\ n.code = f.code /\ n.answer.limit = "none"
    <3> DEFINE n == Refreshed(f, <<>>, "probe")
    <3>1. n.fault = "probe" /\ n.code = f.code /\ n.answer = [NoAnswer EXCEPT !.err = <<>>]
      BY DEF Refreshed, Idle
    <3>2. n.answer.limit = "none"
      BY <3>1 DEF NoAnswer
    <3>3. QED
      BY <3>1, <3>2
  <2>2. NameOf(n) = "ErrAPIUnavailable"
    BY <2>1 DEF NameOf, Expected
  <2>3. Unavailable \in Chains /\ OneSDK(Unavailable) /\ Names(Unavailable, NameOf(n))
    BY <2>2, UnavailableNamed
  <2>4. QED
    BY <1>0, <1>1, <1>3, <2>1, <2>3, ProbeReturnsStep
<1>4. CASE err # <<>> /\ ProbeReturns(g, Wrapped(err), f.fault)
  <2>1. /\ err \in Chains /\ OneSDK(err) /\ Names(err, NameOf(f))
        /\ f.answer.limit = "none"
    BY <1>0, <1>4 DEF FrameInv, Told
  <2>2. Wrapped(err) \in Chains /\ OneSDK(Wrapped(err)) /\ Names(Wrapped(err), NameOf(f))
    BY <1>4, <2>1, WrappedType, OneSDKWrapped, NamesWrapped
  <2>3. QED
    BY <1>0, <1>1, <1>4, <2>1, <2>2, ProbeReturnsStep
<1>5. QED
  BY <1>0, <1>2, <1>3, <1>4

(* A request passes feed, retry or the ETag cache. *)
LEMMA DescendStep ==
    ASSUME Inv, NEW g \in Callers, Descend(g)
    PROVE  Inv'
<1> DEFINE f == frame[g]
<1>0. /\ f.dir = "down" /\ FrameInv(f) /\ OptionsInv /\ KernelInv
      /\ UNCHANGED <<construction, shared, pacing>>
  BY DEF Descend, Inv
<1>1. kernel.built /\ SharedInv'
  BY <1>0, AtBuilt, SharedSame
<1>2. ASSUME NEW layer \in {"feed", "retry"}, At(f, layer), Move(g, Down(f))
      PROVE  Inv'
  <2>1. FrameInv(Down(f))
    <3> HIDE DEF f
    <3>1. QED
      BY <1>0, <1>2, GoingDown
  <2>2. QED
    BY <1>0, <1>1, <1>2, <2>1, Moves
<1>3. ASSUME At(f, "etag"), NEW c, Move(g, [Down(f) EXCEPT !.conditional = c])
      PROVE  Inv'
  <2> DEFINE n == [Down(f) EXCEPT !.conditional = c]
  <2>0. DOMAIN f = FrameFields
    BY <1>0 DEF FrameInv, Placed
  <2>1. /\ DOMAIN n = FrameFields /\ n.dir = "down" /\ n.via = f.via /\ n.at = f.at + 1
        /\ n.inner = f.inner /\ n.auth = f.auth /\ n.probeAuth = f.probeAuth
        /\ n.attempt = f.attempt /\ n.sent = f.sent /\ n.answer = f.answer
        /\ n.ctx = f.ctx /\ n.fault = f.fault
    BY <2>0 DEF Down, FrameFields
  <2>3. f.fault # "gate" /\ f.sent <= f.attempt /\ f.attempt \in 0 .. options.Retry.MaxRetries
    BY <1>0 DEF FrameInv, Counted
  <2>4. Move(g, n)
    BY <1>3
  <2> HIDE DEF n, f
  <2>5. FrameInv(n)
    BY <1>0, <1>3, <2>1, <2>3, GoesDown
  <2>6. QED
    BY <1>0, <1>1, <2>4, <2>5, Moves
<1>4. QED
  BY <1>2, <1>3 DEF Descend

(* An answer that goes up with the same error keeps the invariant. *)
LEMMA AscendingSame ==
    ASSUME OptionsInv, KernelInv, NEW f, FrameInv(f), f.dir = "up", f.at > 0,
           NEW a, IsAnswer(a), a.err = f.answer.err, a.limit = f.answer.limit,
           a.status = f.answer.status \/ a.status = 200
    PROVE  FrameInv(Up(f, a))
<1> DEFINE n == Up(f, a)
<1>0. DOMAIN f = FrameFields /\ (f.fault = "gate" => f.sent = 0)
  BY DEF FrameInv, Placed, Counted
<1>1. /\ DOMAIN n = FrameFields /\ n.dir = "up" /\ n.via = f.via /\ n.at = f.at - 1
      /\ n.inner = f.inner /\ n.auth = f.auth /\ n.probeAuth = f.probeAuth
      /\ n.attempt = f.attempt /\ n.sent = f.sent
      /\ n.answer = a /\ n.ctx = f.ctx /\ n.fault = f.fault /\ n.code = f.code
  BY <1>0, UpFields
<1> HIDE DEF n
<1>2. Placed(n) /\ Counted(n) /\ Carries(n)
  BY <1>0, <1>1, GoesUp
<1>3. Told(n)
  BY <1>1, UpSame DEF FrameInv
<1>4. QED
  BY <1>2, <1>3 DEF FrameInv, n

(* Its own answer, in particular. *)
LEMMA OwnAnswer ==
    ASSUME OptionsInv, KernelInv, NEW f, FrameInv(f), f.dir = "up",
           NEW layer, At(f, layer)
    PROVE  /\ FrameInv(Up(f, f.answer)) /\ f.at > 0
           /\ IsAnswer(f.answer)
<1>1. f.at > 0 /\ IsAnswer(f.answer)
  BY AtBelow DEF FrameInv, Placed
<1>2. QED
  BY <1>1, AscendingSame

(* feed updates the cache. *)
LEMMA FeedStep ==
    ASSUME Inv, NEW g \in Callers, Feed(g)
    PROVE  Inv'
<1> DEFINE f == frame[g]
<1>0. /\ f.dir = "up" /\ At(f, "feed") /\ FrameInv(f) /\ OptionsInv /\ KernelInv
      /\ UNCHANGED <<construction, cooling, stored, pacing>>
      /\ cache' \in {f.answer.snapshot, cache} /\ Move(g, Up(f, f.answer))
  BY DEF Feed, Inv
<1>1. kernel.built
  BY <1>0, AtBuilt
<1>2. IsBudget(cache') /\ IsBudget(cache)
  BY <1>0 DEF Inv, SharedInv, FrameInv, Placed, IsAnswer
<1>3. IsBudget(cache)'
  BY <1>2 DEF IsBudget
<1>4. SharedInv'
  BY <1>0, <1>3 DEF Inv, SharedInv, pacing
<1> HIDE DEF f
<1>5. QED
  BY <1>0, <1>1, <1>4, OwnAnswer, Moves

(* The ETag cache answers a 304 and stores a 200. *)
LEMMA ETagStep ==
    ASSUME Inv, NEW g \in Callers, ETag(g)
    PROVE  Inv'
<1> DEFINE f == frame[g]
           hit == [f.answer EXCEPT !.status = 200]
<1>0. /\ f.dir = "up" /\ At(f, "etag") /\ FrameInv(f) /\ OptionsInv /\ KernelInv
      /\ UNCHANGED <<construction, cache, cooling, pacing>>
      /\ stored' \in {stored, stored \cup {f.via}}
      /\ Move(g, Up(f, hit)) \/ Move(g, Up(f, f.answer))
  BY DEF ETag, Inv
<1>1. kernel.built
  BY <1>0, AtBuilt
<1>2. /\ f.via = "client" /\ DOMAIN f.answer = AnswerFields /\ IsBudget(f.answer.snapshot)
      /\ f.answer.limit \in {"none", "exhausted", "secondary"}
  BY <1>0, AtBelow DEF FrameInv, Placed, IsAnswer
<1>3. IsBudget(cache)'
  BY <1>0 DEF Inv, SharedInv, IsBudget
<1>4. SharedInv'
  BY <1>0, <1>2, <1>3 DEF Inv, SharedInv, pacing
<1>5. /\ DOMAIN hit = AnswerFields /\ hit.snapshot = f.answer.snapshot
      /\ hit.err = f.answer.err /\ hit.limit = f.answer.limit /\ hit.status = 200
  BY <1>2 DEF AnswerFields
<1> HIDE DEF f, hit
<1>6. IsAnswer(hit)
  BY <1>2, <1>5 DEF IsAnswer
<1>7. FrameInv(Up(f, f.answer)) /\ f.at > 0
  BY <1>0, OwnAnswer
<1>8. FrameInv(Up(f, hit))
  BY <1>0, <1>2, <1>5, <1>6, <1>7, AscendingSame
<1>9. QED
  BY <1>0, <1>1, <1>4, <1>7, <1>8, Moves

(* retry sleeps only while it has retries left. *)
LEMMA RetryStep ==
    ASSUME Inv, NEW g \in Callers, Retry(g)
    PROVE  Inv'
<1> DEFINE f == frame[g]
<1>0. /\ f.dir = "up" /\ At(f, "retry") /\ FrameInv(f) /\ OptionsInv /\ KernelInv
      /\ UNCHANGED <<construction, shared, pacing>>
  BY DEF Retry, Inv
<1>1. kernel.built /\ SharedInv'
  BY <1>0, AtBuilt, SharedSame
<1>2. CASE /\ RetriesLeft(f)
           /\ Move(g, [f EXCEPT !.dir = "sleep", !.answer = NoAnswer,
                                !.fault = "none", !.code = 0])
  <2> DEFINE n == [f EXCEPT !.dir = "sleep", !.answer = NoAnswer,
                            !.fault = "none", !.code = 0]
  <2>0. DOMAIN f = FrameFields
    BY <1>0 DEF FrameInv, Placed
  <2>1. /\ DOMAIN n = FrameFields /\ n.dir = "sleep" /\ n.via = f.via /\ n.at = f.at
        /\ n.inner = f.inner /\ n.auth = f.auth /\ n.probeAuth = f.probeAuth
        /\ n.attempt = f.attempt /\ n.sent = f.sent
        /\ n.answer = NoAnswer /\ n.ctx = f.ctx /\ n.fault = "none"
    BY <2>0 DEF FrameFields
  <2>2. f.sent \in 0 .. f.attempt + 1 /\ f.attempt < options.Retry.MaxRetries
    BY <1>0, <1>2 DEF FrameInv, Counted, RetriesLeft
  <2>3. Move(g, n)
    BY <1>2
  <2> HIDE DEF n, f
  <2>4. FrameInv(n)
    BY <1>0, <2>1, <2>2, Stays
  <2>5. QED
    BY <1>0, <1>1, <2>3, <2>4, Moves
<1>3. CASE Move(g, Up(f, f.answer))
  <2> HIDE DEF f
  <2>1. QED
    BY <1>0, <1>1, <1>3, OwnAnswer, Moves
<1>4. QED
  BY <1>2, <1>3 DEF Retry

(* It makes one attempt more, or is cut short. *)
LEMMA RetrySleepStep ==
    ASSUME Inv, NEW g \in Callers, RetrySleep(g)
    PROVE  Inv'
<1> DEFINE f == frame[g]
           n == [Down(f) EXCEPT !.attempt = @ + 1]
<1>0. /\ f.dir = "sleep" /\ At(f, "retry") /\ FrameInv(f) /\ OptionsInv /\ KernelInv
      /\ UNCHANGED <<construction, shared, pacing>>
      /\ Move(g, n) \/ (f.ctx # "live" /\ Move(g, Cut(f)))
  BY DEF RetrySleep, Inv
<1>1. kernel.built /\ SharedInv'
  BY <1>0, AtBuilt, SharedSame
<1>2. DOMAIN f = FrameFields /\ f.at > 0
  BY <1>0 DEF FrameInv, Placed
<1>3. /\ DOMAIN n = FrameFields /\ n.dir = "down" /\ n.via = f.via /\ n.at = f.at + 1
      /\ n.inner = f.inner /\ n.auth = f.auth /\ n.probeAuth = f.probeAuth
      /\ n.attempt = f.attempt + 1
      /\ n.sent = f.sent /\ n.answer = f.answer /\ n.ctx = f.ctx /\ n.fault = f.fault
  BY <1>2 DEF Down, FrameFields
<1>4. /\ f.attempt + 1 \in 0 .. options.Retry.MaxRetries /\ f.sent <= f.attempt + 1
      /\ f.fault # "gate"
  BY <1>0 DEF FrameInv, Counted, OptionsInv
<1> HIDE DEF n, f
<1>5. FrameInv(n)
  BY <1>0, <1>3, <1>4, GoesDown
<1>6. f.ctx # "live" => FrameInv(Cut(f))
  BY <1>0, <1>2, CutFrame
<1>7. QED
  BY <1>0, <1>1, <1>5, <1>6, Moves

(* Pacing reserves a slot. *)
LEMMA PaceStep ==
    ASSUME Inv, NEW g \in Callers, Pace(g)
    PROVE  Inv'
<1> DEFINE f == frame[g]
           n == [f EXCEPT !.dir = "sleep"]
<1>0. /\ f.dir = "down" /\ At(f, "pacing") /\ FrameInv(f) /\ OptionsInv /\ KernelInv
      /\ UNCHANGED <<construction, shared, late, quiet>>
      /\ wait' = [wait EXCEPT ![g] = reserved]
      /\ reserved' = reserved + options.SecondaryPacing
      /\ Move(g, n) \/ Move(g, Down(f))
  BY DEF Pace, Inv
<1>1. kernel.built
  BY <1>0, AtBuilt
<1>2. options.SecondaryPacing \in Nat
  BY KernelAssumption DEF Inv, OptionsInv
<1>3. IsBudget(cache)'
  BY <1>0 DEF Inv, SharedInv, IsBudget, shared
<1>4. SharedInv'
  BY <1>0, <1>2, <1>3 DEF Inv, SharedInv, shared
<1>5. DOMAIN f = FrameFields
  BY <1>0 DEF FrameInv, Placed
<1>6. /\ DOMAIN n = FrameFields /\ n.dir = "sleep" /\ n.via = f.via /\ n.at = f.at
      /\ n.inner = f.inner /\ n.auth = f.auth /\ n.probeAuth = f.probeAuth
      /\ n.attempt = f.attempt /\ n.sent = f.sent
      /\ n.answer = f.answer /\ n.ctx = f.ctx /\ n.fault = f.fault
  BY <1>5 DEF FrameFields
<1>7. f.sent \in 0 .. f.attempt + 1 /\ f.sent <= f.attempt /\ f.fault # "gate"
  BY <1>0 DEF FrameInv, Counted
<1> HIDE DEF n, f
<1>8. FrameInv(n) /\ FrameInv(Down(f))
  BY <1>0, <1>6, <1>7, Stays, GoingDown
<1>9. QED
  BY <1>0, <1>1, <1>4, <1>8, Moves

(* The wait for the slot ends, or is cut short. *)
LEMMA PaceSleepStep ==
    ASSUME Inv, NEW g \in Callers, PaceSleep(g)
    PROVE  Inv'
<1> DEFINE f == frame[g]
           cut == Cut(f)
           n == [cut EXCEPT !.answer.err = Wrapped(@)]
<1>0. /\ f.dir = "sleep" /\ At(f, "pacing") /\ FrameInv(f) /\ OptionsInv /\ KernelInv
      /\ UNCHANGED <<construction, shared, reserved, quiet>>
      /\ wait' \in {wait, [wait EXCEPT ![g] = 0]}
      /\ late' \in {late, [late EXCEPT ![g] = 0]}
      /\ Move(g, Down(f)) \/ (f.ctx # "live" /\ Move(g, n))
  BY DEF PaceSleep, Inv
<1>1. kernel.built
  BY <1>0, AtBuilt
<1>2. IsBudget(cache)'
  BY <1>0 DEF Inv, SharedInv, IsBudget, shared
<1>a. wait' \in [Callers -> Nat]
  BY <1>0 DEF Inv, SharedInv
<1>b. late' \in [Callers -> 0 .. Lag]
  <2> DEFINE L == 0 .. Lag
  <2>1. late \in [Callers -> L] /\ 0 \in L
    BY KernelAssumption DEF Inv, SharedInv
  <2>2. late' = late \/ late' = [late EXCEPT ![g] = 0]
    BY <1>0
  <2> HIDE DEF L
  <2>3. late' \in [Callers -> L]
    BY <2>1, <2>2
  <2>4. QED
    BY <2>3 DEF L
<1>3. SharedInv'
  BY <1>0, <1>2, <1>a, <1>b DEF Inv, SharedInv, shared
<1>4. f.at > 0 /\ DOMAIN f = FrameFields
  BY <1>0 DEF FrameInv, Placed
<1>5. ASSUME f.ctx # "live" PROVE FrameInv(n)
  <2>1. FrameInv(cut)
    BY <1>0, <1>4, <1>5, CutFrame
  <2>2. DOMAIN cut = FrameFields /\ cut.dir = "up" /\ cut.answer.err = Cause(f)
    BY <1>4, CutFields
  <2>a. cut.answer.err # <<>>
    <3>1. f.ctx \in Endings
      BY <1>0, <1>5 DEF FrameInv, Placed
    <3>2. PICK m : m.fault = f.ctx
      BY <1>4, CutFields
    <3>3. QED
      BY <2>2, <3>1, <3>2, CauseNamed
  <2> HIDE DEF cut
  <2>3. IsAnswer(cut.answer)
    BY <2>1 DEF FrameInv, Placed
  <2>4. /\ DOMAIN n = FrameFields /\ n.dir = cut.dir /\ n.via = cut.via /\ n.at = cut.at
        /\ n.inner = cut.inner /\ n.auth = cut.auth /\ n.probeAuth = cut.probeAuth
        /\ n.attempt = cut.attempt
        /\ n.sent = cut.sent /\ n.ctx = cut.ctx /\ n.fault = cut.fault
        /\ n.code = cut.code
        /\ n.answer = [cut.answer EXCEPT !.err = Wrapped(cut.answer.err)]
    BY <2>2 DEF FrameFields
  <2>5. /\ IsAnswer(n.answer) /\ n.answer.err = Wrapped(cut.answer.err)
        /\ n.answer.limit = cut.answer.limit
    BY <2>3, <2>4 DEF IsAnswer, AnswerFields
  <2> HIDE DEF n
  <2>6. Told(n)
    BY <2>1, <2>2, <2>a, <2>4, <2>5, UpWrapped DEF FrameInv
  <2>7. Layers(n) = Layers(cut) /\ (\A layer : At(n, layer) <=> At(cut, layer))
    BY <2>4, SameLayers
  <2>8. Placed(n)
    BY <2>1, <2>4, <2>5, <2>7 DEF FrameInv, Placed
  <2>9. Counted(n)
    BY <2>1, <2>4, <2>7 DEF FrameInv, Counted
  <2>10. Carries(n)
    BY <2>1, <2>4, <2>5 DEF FrameInv, Carries
  <2>11. QED
    BY <2>6, <2>8, <2>9, <2>10 DEF FrameInv
<1> HIDE DEF n, f
<1>6. FrameInv(Down(f))
  BY <1>0, GoingDown
<1>7. QED
  BY <1>0, <1>1, <1>3, <1>5, <1>6, Moves

(* An answer passes the gate or pacing. *)
LEMMA AscendStep ==
    ASSUME Inv, NEW g \in Callers, Ascend(g)
    PROVE  Inv'
<1> DEFINE f == frame[g]
           a == f.answer
           b == [a EXCEPT !.err = Wrapped(@)]
           n == Up(f, b)
<1>0. /\ f.dir = "up" /\ FrameInv(f) /\ OptionsInv /\ KernelInv
      /\ UNCHANGED <<construction, shared, pacing>>
      /\ At(f, "gate") \/ At(f, "pacing")
      /\ Move(g, Up(f, a)) \/ (a.err # <<>> /\ Move(g, n))
  BY DEF Ascend, Inv
<1>1. kernel.built /\ SharedInv'
  BY <1>0, AtBuilt, SharedSame
<1>2. /\ FrameInv(Up(f, a)) /\ f.at > 0 /\ IsAnswer(a) /\ DOMAIN f = FrameFields
  <2> HIDE DEF f
  <2>1. QED
    BY <1>0, OwnAnswer DEF FrameInv, Placed
<1>3. IsAnswer(b) /\ b.err = Wrapped(a.err) /\ b.limit = a.limit
  BY <1>2 DEF IsAnswer, AnswerFields
<1> HIDE DEF b
<1>4. /\ DOMAIN n = FrameFields /\ n.dir = "up" /\ n.via = f.via /\ n.at = f.at - 1
      /\ n.inner = f.inner /\ n.auth = f.auth /\ n.probeAuth = f.probeAuth
      /\ n.attempt = f.attempt /\ n.sent = f.sent
      /\ n.answer = b /\ n.ctx = f.ctx /\ n.fault = f.fault /\ n.code = f.code
  BY <1>2, UpFields
<1>5. f.fault = "gate" => f.sent = 0
  BY <1>0 DEF FrameInv, Counted
<1> HIDE DEF n, f
<1>6. Placed(n) /\ Counted(n) /\ Carries(n)
  BY <1>0, <1>2, <1>3, <1>4, <1>5, GoesUp
<1>7. ASSUME a.err # <<>> PROVE Told(n)
  BY <1>0, <1>3, <1>4, <1>7, UpWrapped DEF FrameInv
<1>8. QED
  BY <1>0, <1>1, <1>2, <1>6, <1>7, Moves DEF FrameInv

(* An attempt goes out. *)
LEMMA BaseStep ==
    ASSUME Inv, NEW g \in Callers, Base(g)
    PROVE  Inv'
<1> DEFINE f == frame[g]
           n == [f EXCEPT !.dir = "flight", !.sent = @ + 1]
<1>0. /\ f.dir = "down" /\ At(f, "base") /\ FrameInv(f) /\ OptionsInv /\ KernelInv
      /\ UNCHANGED <<construction, shared, reserved, wait>>
      /\ quiet' \in {0, quiet} /\ late' \in {late, [late EXCEPT ![g] = 0]}
      /\ Move(g, n)
  BY DEF Base, Inv
<1>1. kernel.built
  BY <1>0, AtBuilt
<1>2. IsBudget(cache)'
  BY <1>0 DEF Inv, SharedInv, IsBudget, shared
<1>3. SharedInv'
  BY <1>0, <1>2, KernelAssumption DEF Inv, SharedInv, shared
<1>4. DOMAIN f = FrameFields
  BY <1>0 DEF FrameInv, Placed
<1>5. /\ DOMAIN n = FrameFields /\ n.dir = "flight" /\ n.via = f.via /\ n.at = f.at
      /\ n.inner = f.inner /\ n.auth = f.auth /\ n.probeAuth = f.probeAuth
      /\ n.attempt = f.attempt
      /\ n.sent = f.sent + 1 /\ n.answer = f.answer /\ n.ctx = f.ctx
      /\ n.fault = f.fault
  BY <1>4 DEF FrameFields
<1>6. f.fault # "gate" /\ f.sent + 1 \in 0 .. f.attempt + 1
  BY <1>0 DEF FrameInv, Counted, OptionsInv
<1> HIDE DEF n, f
<1>7. FrameInv(n)
  BY <1>0, <1>5, <1>6, Stays
<1>8. QED
  BY <1>0, <1>1, <1>3, <1>7, Moves

(* The server answers. *)
LEMMA AnsweredStep ==
    ASSUME Inv, NEW g \in Callers, Answered(g)
    PROVE  Inv'
<1> DEFINE f == frame[g]
<1>0. /\ f.dir = "flight" /\ FrameInv(f) /\ OptionsInv /\ KernelInv
      /\ UNCHANGED <<construction, shared, pacing>>
  BY DEF Answered, Inv
<1>1. kernel.built /\ SharedInv'
  BY <1>0, AtBuilt, SharedSame
<1>2. PICK s \in Snapshots \cup {NoSnapshot},
           status \in Statuses \cup (IF f.conditional THEN {304} ELSE {}),
           limit \in {"none", "exhausted", "secondary"} :
          /\ limit # "none" => status \in {403, 429}
          /\ limit = "exhausted" <=> status \in {403, 429} /\ s.remaining = 0
          /\ Move(g, [Up(f, [NoAnswer EXCEPT !.status = status, !.limit = limit,
                                             !.snapshot = s])
                         EXCEPT !.fault = "response", !.code = status])
  BY Zenon DEF Answered
<1> DEFINE a == [NoAnswer EXCEPT !.status = status, !.limit = limit, !.snapshot = s]
           n == [Up(f, a) EXCEPT !.fault = "response", !.code = status]
<1>3. IsBudget(s)
  <2>1. CASE s = NoSnapshot
    BY <2>1 DEF IsBudget, NoSnapshot
  <2>2. CASE s \in Snapshots
    BY <2>2, KernelAssumption DEF IsBudget
  <2>3. QED
    BY <2>1, <2>2
<1>4. /\ DOMAIN a = AnswerFields /\ a.snapshot = s /\ a.status = status /\ a.limit = limit
      /\ a.err = <<>>
  BY DEF NoAnswer, AnswerFields
<1> HIDE DEF a
<1>5. DOMAIN f = FrameFields /\ f.at > 0
  BY <1>0 DEF FrameInv, Placed
<1>6. /\ DOMAIN n = FrameFields /\ n.dir = "up" /\ n.via = f.via /\ n.at = f.at - 1
      /\ n.inner = f.inner /\ n.auth = f.auth /\ n.probeAuth = f.probeAuth
      /\ n.attempt = f.attempt /\ n.sent = f.sent
      /\ n.answer = a /\ n.ctx = f.ctx /\ n.fault = "response" /\ n.code = status
  BY <1>5 DEF Up, FrameFields
<1>7. Move(g, n)
  BY <1>2 DEF a
<1> HIDE DEF n, f
<1>8. IsAnswer(a)
  <2>1. status \in Nat
    BY <1>2, KernelAssumption
  <2>2. QED
    BY <1>3, <1>4, <2>1 DEF IsAnswer
<1>9. Placed(n) /\ Counted(n) /\ Carries(n)
  BY <1>0, <1>5, <1>6, <1>8, GoesUp
<1>10. Told(n)
  BY <1>2, <1>4, <1>6, Nothing DEF Told
<1>11. FrameInv(n)
  BY <1>9, <1>10 DEF FrameInv
<1>12. QED
  BY <1>0, <1>1, <1>7, <1>11, Moves

(* A token source that cannot mint fails with the sentinel of its status. *)
LEMMA MintNamed ==
    ASSUME NEW status \in MintStatuses, NEW n, n.fault = "mint", n.code = status,
           n.answer.limit = "none",
           NEW err, err = Wrapped(<<ResponseLayer("ErrorResponse", status, FALSE)>>)
    PROVE  /\ err \in Chains /\ err # <<>> /\ OneSDK(err)
           /\ Names(err, NameOf(n))
           /\ Names(<<Layer("url.Error")>> \o err, NameOf(n))
<1> DEFINE l == ResponseLayer("ErrorResponse", status, FALSE)
           c == <<l>>
<1>0. status \in Int /\ status # 0
  BY KernelAssumption
<1>1. l \in ErrorLayers /\ l.status = status /\ l.exhausted = FALSE
  BY <1>0, LayerType DEF ResponseLayer, ErrorTypes, SDKTypes
<1>2. Names(c, SentinelOf(l)) /\ Names(<<Layer("url.Error")>> \o c, SentinelOf(l))
  <2>1. FALSE \in BOOLEAN
    OBVIOUS
  <2>2. l = ResponseLayer("ErrorResponse", status, FALSE)
    OBVIOUS
  <2> HIDE DEF l
  <2>3. QED
    BY <1>0, <2>1, <2>2, NamesResponse
<1> HIDE DEF l
<1>3. c \in Chains /\ c # <<>>
  BY <1>1 DEF Chains
<1>4. OneSDK(c)
  BY OneSDKTip
<1>5. err = Wrapped(c)
  BY DEF l
<1>6. SentinelOf(l) = NameOf(n)
  BY <1>0, <1>1 DEF SentinelOf, NameOf, Expected
<1> HIDE DEF c
<1>7. QED
  BY <1>2, <1>3, <1>4, <1>5, <1>6, WrappedType, OneSDKWrapped, NamesWrapped, NamesSentWrapped

(* A server that cannot be reached is an unavailable API. *)
LEMMA UnreachableNamed ==
    ASSUME NEW n, n.fault = "unreachable", NEW err, err = <<Layer("net.Error")>>
    PROVE  /\ err \in Chains /\ err # <<>> /\ OneSDK(err)
           /\ Names(err, NameOf(n))
           /\ Names(<<Layer("url.Error")>> \o err, NameOf(n))
<1>1. Layer("net.Error") \in ErrorLayers
  BY LayerType DEF ErrorTypes
<1>2. err \in Chains /\ err # <<>> /\ OneSDK(err)
  BY <1>1, OneSDKTip DEF Chains
<1>3. NameOf(n) = "ErrAPIUnavailable"
  BY DEF NameOf, Expected
<1>4. QED
  BY <1>2, <1>3, NamesNet

(* The attempt fails. *)
LEMMA UnansweredStep ==
    ASSUME Inv, NEW g \in Callers, Unanswered(g)
    PROVE  Inv'
<1> DEFINE f == frame[g]
<1>0. /\ f.dir = "flight" /\ FrameInv(f) /\ OptionsInv /\ KernelInv
      /\ UNCHANGED <<construction, shared, pacing>>
  BY DEF Unanswered, Inv
<1>1. kernel.built /\ SharedInv'
  BY <1>0, AtBuilt, SharedSame
<1>2. DOMAIN f = FrameFields /\ f.at > 0
  BY <1>0 DEF FrameInv, Placed
<1>3. CASE Move(g, FailedWith(f, <<Layer("net.Error")>>, "unreachable"))
  <2> DEFINE err == <<Layer("net.Error")>>
             n == FailedWith(f, err, "unreachable")
  <2>1. /\ DOMAIN n = FrameFields /\ n.dir = "up" /\ n.via = f.via /\ n.at = f.at - 1
        /\ n.inner = f.inner /\ n.auth = f.auth /\ n.probeAuth = f.probeAuth
        /\ n.attempt = f.attempt
        /\ n.sent = f.sent /\ n.ctx = f.ctx /\ n.fault = "unreachable"
        /\ IsAnswer(n.answer) /\ n.answer.err = err
        /\ n.answer.limit = "none"
    BY <1>2, FailedFields
  <2>2. Move(g, n)
    BY <1>3
  <2> HIDE DEF n, f
  <2>3. Placed(n) /\ Counted(n) /\ Carries(n)
    BY <1>0, <1>2, <2>1, GoesUp
  <2>4. Told(n)
    BY <2>1, UnreachableNamed, UpFailed
  <2>5. FrameInv(n)
    BY <2>3, <2>4 DEF FrameInv
  <2>6. QED
    BY <1>0, <1>1, <2>2, <2>5, Moves
<1>4. ASSUME NEW status \in MintStatuses,
             Move(g, [Failed(f, Wrapped(<<ResponseLayer("ErrorResponse",
                                                        status, FALSE)>>))
                         EXCEPT !.fault = "mint", !.code = status])
      PROVE  Inv'
  <2> DEFINE err == Wrapped(<<ResponseLayer("ErrorResponse", status, FALSE)>>)
             a == [NoAnswer EXCEPT !.err = err]
             n == [Failed(f, err) EXCEPT !.fault = "mint", !.code = status]
  <2>1. Move(g, n)
    BY <1>4
  <2>2. /\ DOMAIN n = FrameFields /\ n.dir = "up" /\ n.via = f.via /\ n.at = f.at - 1
        /\ n.inner = f.inner /\ n.auth = f.auth /\ n.probeAuth = f.probeAuth
        /\ n.attempt = f.attempt
        /\ n.sent = f.sent /\ n.ctx = f.ctx /\ n.fault = "mint" /\ n.code = status
        /\ n.answer = a
    BY <1>2 DEF Failed, Up, FrameFields
  <2>3. IsAnswer(a) /\ a.err = err /\ a.limit = "none"
    BY DEF NoAnswer, IsAnswer, AnswerFields, IsBudget, NoSnapshot
  <2> HIDE DEF n, a, f
  <2>4. Placed(n) /\ Counted(n) /\ Carries(n)
    BY <1>0, <1>2, <2>2, <2>3, GoesUp
  <2>5. /\ err \in Chains /\ err # <<>> /\ OneSDK(err)
        /\ Names(err, NameOf(n))
        /\ Names(<<Layer("url.Error")>> \o err, NameOf(n))
    BY <2>2, <2>3, MintNamed
  <2> HIDE DEF err
  <2>6. Told(n)
    BY <2>2, <2>3, <2>5, UpFailed
  <2>7. FrameInv(n)
    BY <2>4, <2>6 DEF FrameInv
  <2>8. QED
    BY <1>0, <1>1, <2>1, <2>7, Moves
<1>5. CASE f.ctx # "live" /\ Move(g, Cut(f))
  <2> HIDE DEF f
  <2>1. QED
    BY <1>0, <1>1, <1>2, <1>5, CutFrame, Moves
<1>6. QED
  BY <1>3, <1>4, <1>5 DEF Unanswered, FailedWith

(* The context ends. *)
LEMMA ContextEndsStep ==
    ASSUME Inv, NEW g \in Callers, NEW how \in Endings, ContextEnds(g, how)
    PROVE  Inv'
<1> DEFINE f == frame[g]
           n == [f EXCEPT !.ctx = how]
<1>0. /\ f.dir \in {"sleep", "flight", "up"} /\ FrameInv(f) /\ OptionsInv /\ KernelInv
      /\ UNCHANGED <<construction, shared, pacing>> /\ Move(g, n)
  BY DEF ContextEnds, Inv
<1>1. kernel.built /\ SharedInv'
  BY <1>0, AtBuilt, SharedSame
<1>2. DOMAIN f = FrameFields
  BY <1>0 DEF FrameInv, Placed
<1>3. /\ DOMAIN n = FrameFields /\ n.dir = f.dir /\ n.via = f.via /\ n.at = f.at
      /\ n.inner = f.inner /\ n.auth = f.auth /\ n.probeAuth = f.probeAuth
      /\ n.attempt = f.attempt /\ n.sent = f.sent
      /\ n.answer = f.answer /\ n.ctx = how /\ n.fault = f.fault /\ n.code = f.code
  BY <1>2 DEF FrameFields
<1> HIDE DEF n, f
<1>4. Layers(n) = Layers(f) /\ (\A layer : At(n, layer) <=> At(f, layer))
  BY <1>3, SameLayers
<1>5. Placed(n) /\ Carries(n)
  BY <1>0, <1>3, <1>4 DEF FrameInv, Placed, Carries
<1>6. Counted(n)
  BY <1>0, <1>3, <1>4 DEF FrameInv, Counted
<1>7. Told(n)
  <2>1. CASE f.dir = "up"
    BY <1>0, <1>3, <2>1, KernelAssumption, UpSame DEF FrameInv
  <2>2. CASE f.dir # "up"
    BY <1>0, <1>3, <2>2 DEF FrameInv, Told
  <2>3. QED
    BY <2>1, <2>2
<1>8. FrameInv(n)
  BY <1>5, <1>6, <1>7 DEF FrameInv
<1>9. QED
  BY <1>0, <1>1, <1>8, Moves

(* What go-github makes of a response has the sentinel of its status and of *)
(* its limit.                                                               *)
LEMMA SDKErrorNamed ==
    ASSUME NEW a, IsAnswer(a), a.limit # "none" => a.status \in {403, 429},
           NEW err \in SDKError(a), NEW n,
           a.status >= 400 => n.fault = "response" /\ n.code = a.status,
           n.answer.limit = a.limit
    PROVE  /\ err \in Chains /\ OneSDK(err)
           /\ err # <<>> => Names(err, NameOf(n))
<1>0. a.status \in Nat
  BY DEF IsAnswer
<1>1. CASE a.status < 400
  <2>1. err = <<>>
    BY <1>1 DEF SDKError
  <2>2. QED
    BY <2>1, Nothing
<1>2. CASE ~(a.status < 400)
  <2>1. a.status >= 400 /\ a.status \in Int /\ a.status # 0
    BY <1>0, <1>2
  <2>2. ASSUME NEW t \in SDKTypes, NEW b \in BOOLEAN
        PROVE  /\ <<ResponseLayer(t, a.status, b)>> \in Chains
               /\ OneSDK(<<ResponseLayer(t, a.status, b)>>)
    <3>1. ResponseLayer(t, a.status, b) \in ErrorLayers
      BY <2>1, LayerType DEF ErrorTypes
    <3>2. QED
      BY <3>1, OneSDKTip DEF Chains
  <2>3. ASSUME NEW b \in BOOLEAN, NEW l, l = ResponseLayer("ErrorResponse", a.status, b)
        PROVE  Names(<<l>>, SentinelOf(l)) /\ l.status = a.status /\ l.exhausted = b
    BY <2>1, <2>3, NamesResponse DEF ResponseLayer
  <2>4. n.fault = "response" /\ n.code = a.status
    BY <2>1
  <2>5. CASE a.limit = "exhausted"
    <3>1. PICK t \in {"RateLimitError", "ErrorResponse"} :
             err = <<ResponseLayer(t, a.status, TRUE)>>
      BY <1>2, <2>5 DEF SDKError
    <3>2. NameOf(n) = "ErrRateLimited"
      BY <2>4, <2>5 DEF NameOf, Expected
    <3>3. CASE t = "RateLimitError"
      BY <2>1, <2>2, <3>1, <3>2, <3>3, NamesLimited DEF SDKTypes
    <3>4. CASE t = "ErrorResponse"
      <4> DEFINE l == ResponseLayer("ErrorResponse", a.status, TRUE)
      <4>1. Names(<<l>>, SentinelOf(l)) /\ l.status = a.status /\ l.exhausted = TRUE
        BY <2>3
      <4> HIDE DEF l
      <4>2. SentinelOf(l) = "ErrRateLimited"
        BY <2>5, <4>1 DEF SentinelOf
      <4>3. err = <<l>>
        BY <3>1, <3>4 DEF l
      <4>4. err \in Chains /\ OneSDK(err)
        BY <2>2, <3>1, <3>4 DEF SDKTypes
      <4>5. QED
        BY <3>2, <4>1, <4>2, <4>3, <4>4
    <3>5. QED
      BY <3>3, <3>4
  <2>6. CASE a.limit = "secondary"
    <3>1. err = <<ResponseLayer("AbuseRateLimitError", a.status, FALSE)>>
      BY <1>2, <2>6 DEF SDKError
    <3>2. NameOf(n) = "ErrRateLimited"
      BY <2>4, <2>6 DEF NameOf, Expected
    <3>3. QED
      BY <2>1, <2>2, <3>1, <3>2, NamesLimited DEF SDKTypes
  <2>7. CASE a.limit = "none"
    <3> DEFINE l == ResponseLayer("ErrorResponse", a.status, FALSE)
    <3>1. err = <<l>>
      BY <1>2, <2>7 DEF SDKError
    <3>2. Names(<<l>>, SentinelOf(l)) /\ l.status = a.status /\ l.exhausted = FALSE
      BY <2>3
    <3>3. err \in Chains /\ OneSDK(err)
      BY <2>2, <3>1 DEF SDKTypes
    <3> HIDE DEF l
    <3>4. SentinelOf(l) = NameOf(n)
      BY <2>1, <2>4, <2>7, <3>2 DEF SentinelOf, NameOf, Expected
    <3>5. QED
      BY <3>1, <3>2, <3>3, <3>4
  <2>8. QED
    BY <2>5, <2>6, <2>7 DEF IsAnswer
<1>3. QED
  BY <1>1, <1>2

(* The timeout of http.Client is an unavailable API. *)
LEMMA TimeoutNamed ==
    ASSUME NEW n, n.fault = "timeout",
           NEW err, err = <<Layer("url.Error"), Layer("net.Error")>>
    PROVE  err \in Chains /\ OneSDK(err) /\ Names(err, NameOf(n))
<1>1. Layer("net.Error") \in ErrorLayers /\ Layer("url.Error") \in ErrorLayers
  BY LayerType DEF ErrorTypes
<1>2. err = <<Layer("url.Error")>> \o <<Layer("net.Error")>>
  BY <1>1
<1>3. NameOf(n) = "ErrAPIUnavailable"
  BY DEF NameOf, Expected
<1>4. <<Layer("net.Error")>> \in Chains /\ OneSDK(<<Layer("net.Error")>>)
  BY <1>1, OneSDKTip DEF Chains
<1>5. "url.Error" \in ErrorTypes \ SDKTypes
  BY DEF ErrorTypes, SDKTypes
<1>6. Names(err, "ErrAPIUnavailable")
  BY <1>2, NamesNet
<1>7. err \in Chains
  BY <1>1 DEF Chains
<1>8. OneSDK(<<Layer("url.Error")>> \o <<Layer("net.Error")>>)
  BY <1>4, <1>5, OneSDKLayer, Zenon
<1>9. QED
  BY <1>2, <1>3, <1>6, <1>7, <1>8

(* The frame of a request that has returned. *)
Done(f, err, fault) ==
    [Idle EXCEPT !.dir = "returned", !.code = f.code,
                 !.answer = [NoAnswer EXCEPT !.limit = f.answer.limit, !.err = err],
                 !.fault = fault]

(* The fields of such a frame. *)
LEMMA DoneFields ==
    ASSUME NEW f, IsAnswer(f.answer), NEW err, NEW fault, NEW n, n = Done(f, err, fault)
    PROVE  /\ DOMAIN n = FrameFields /\ n.dir = "returned" /\ n.via = "client" /\ n.at = 0
           /\ n.attempt = 0 /\ n.sent = 0
           /\ n.fault = fault /\ n.ctx = "live" /\ n.code = f.code
           /\ IsAnswer(n.answer) /\ n.answer.err = err /\ n.answer.limit = f.answer.limit
<1>1. /\ DOMAIN n = FrameFields /\ n.dir = "returned" /\ n.via = "client" /\ n.at = 0
      /\ n.attempt = 0 /\ n.sent = 0
      /\ n.fault = fault /\ n.ctx = "live" /\ n.code = f.code
      /\ n.answer = [NoAnswer EXCEPT !.limit = f.answer.limit, !.err = err]
  BY DEF Done, Idle, FrameFields
<1>2. IsAnswer(n.answer) /\ n.answer.err = err /\ n.answer.limit = f.answer.limit
  BY <1>1 DEF NoAnswer, IsAnswer, AnswerFields, IsBudget, NoSnapshot
<1>3. QED
  BY <1>1, <1>2

(* The request returns. *)
LEMMA ReturnStep ==
    ASSUME Inv, NEW g \in Callers, Return(g)
    PROVE  Inv'
<1> DEFINE f == frame[g]
           a == f.answer
<1>0. /\ f.dir = "up" /\ f.via = "client" /\ f.at = 0
      /\ FrameInv(f) /\ OptionsInv /\ KernelInv
      /\ UNCHANGED <<construction, shared, pacing>>
  BY DEF Return, Inv
<1>1. kernel.built /\ SharedInv'
  BY <1>0, AtBuilt, SharedSame
<1>2. PICK err \in IF a.err = <<>> THEN SDKError(a)
                   ELSE IF f.ctx = "timeout"
                   THEN {<<Layer("url.Error"), Layer("net.Error")>>}
                   ELSE IF f.ctx # "live" THEN {Cause(f)}
                   ELSE {<<Layer("url.Error")>> \o a.err} :
          Move(g, Done(f, err, IF a.err # <<>> /\ f.ctx # "live" THEN f.ctx ELSE f.fault))
  BY DEF Return, Done
<1>3. IsAnswer(a) /\ f.ctx \in {"live"} \cup Endings
  BY <1>0 DEF FrameInv, Placed
<1>4. /\ a.err \in Chains /\ OneSDK(a.err)
      /\ a.err # <<>> => a.limit = "none" /\ Names(a.err, NameOf(f))
      /\ a.err # <<>> /\ f.ctx = "live" =>
            Names(<<Layer("url.Error")>> \o a.err, NameOf(f))
      /\ a.err = <<>> /\ a.status >= 400 =>
            /\ f.fault = "response" /\ f.code = a.status
            /\ a.limit # "none" => a.status \in {403, 429}
  BY <1>0 DEF FrameInv, Told
<1> DEFINE fault == IF a.err # <<>> /\ f.ctx # "live" THEN f.ctx ELSE f.fault
           n == Done(f, err, fault)
<1> HIDE DEF fault
<1>a. n = Done(f, err, fault) /\ IsAnswer(f.answer)
  BY <1>3
<1>6. Move(g, n)
  BY <1>2 DEF fault
<1> HIDE DEF n, f
<1>5. /\ DOMAIN n = FrameFields /\ n.dir = "returned" /\ n.via = "client" /\ n.at = 0
      /\ n.attempt = 0 /\ n.sent = 0
      /\ n.fault = fault /\ n.ctx = "live" /\ n.code = f.code
      /\ IsAnswer(n.answer) /\ n.answer.err = err /\ n.answer.limit = a.limit
  BY <1>a, DoneFields
<1>7. err \in Chains /\ OneSDK(err) /\ (err # <<>> => Names(err, NameOf(n)))
  <2>1. CASE a.err = <<>> /\ a.status >= 400
    BY <1>2, <1>3, <1>4, <1>5, <2>1, SDKErrorNamed DEF fault
  <2>2. CASE a.err = <<>> /\ ~(a.status >= 400)
    <3>1. a.status < 400
      BY <1>3, <2>2 DEF IsAnswer
    <3>2. err = <<>>
      BY <1>2, <2>2, <3>1 DEF SDKError
    <3>3. QED
      BY <3>2, Nothing
  <2>3. CASE a.err # <<>> /\ f.ctx = "timeout"
    <3>1. err = <<Layer("url.Error"), Layer("net.Error")>> /\ n.fault = "timeout"
      BY <1>2, <1>5, <2>3 DEF fault
    <3>2. QED
      BY <3>1, TimeoutNamed
  <2>4. CASE a.err # <<>> /\ f.ctx \notin {"timeout", "live"}
    <3>1. err = Cause(f) /\ n.fault = f.ctx /\ f.ctx \in Endings
      BY <1>2, <1>3, <1>5, <2>4 DEF fault
    <3>2. QED
      BY <3>1, CauseNamed
  <2>5. CASE a.err # <<>> /\ f.ctx = "live"
    <3>1. err = <<Layer("url.Error")>> \o a.err /\ n.fault = f.fault
      BY <1>2, <1>5, <2>5 DEF fault
    <3>2. NameOf(n) = NameOf(f)
      BY <1>5, <3>1, SameExpected
    <3>3. "url.Error" \in ErrorTypes \ SDKTypes
      BY DEF ErrorTypes, SDKTypes
    <3>4. err \in Chains /\ OneSDK(err)
      <4>1. <<Layer("url.Error")>> \o a.err \in Chains
        BY <1>4, <3>3, ConsAsTypes
      <4>2. OneSDK(<<Layer("url.Error")>> \o a.err)
        BY <1>4, <3>3, OneSDKLayer
      <4>3. QED
        BY <3>1, <4>1, <4>2
    <3>5. Names(err, NameOf(n))
      BY <1>4, <2>5, <3>1, <3>2
    <3>6. QED
      BY <3>4, <3>5
  <2>6. QED
    BY <2>1, <2>2, <2>3, <2>4, <2>5
<1>8. FrameInv(n)
  BY <1>0, <1>5, <1>7, ReturnedFrame
<1>9. QED
  BY <1>0, <1>1, <1>6, <1>8, Moves

(* The caller makes another error of it that says the same. *)
LEMMA RewrittenStep ==
    ASSUME Inv, NEW g \in Callers, NEW n, NEW err \in Chains, OneSDK(err),
           frame[g].dir = "returned", frame[g].answer.err # <<>>, DOMAIN n = FrameFields,
           n.dir = "returned", n.via = frame[g].via, n.at = frame[g].at,
           n.attempt = frame[g].attempt, n.sent = frame[g].sent, n.ctx = frame[g].ctx,
           n.fault = frame[g].fault, n.code = frame[g].code,
           n.answer = [frame[g].answer EXCEPT !.err = err],
           Names(err, NameOf(frame[g])), Move(g, n),
           UNCHANGED <<construction, shared, pacing>>
    PROVE  Inv'
<1> DEFINE f == frame[g]
<1>0. FrameInv(f) /\ OptionsInv /\ KernelInv
  BY DEF Inv
<1>1. kernel.built /\ SharedInv'
  BY AtBuilt, SharedSame
<1>2. IsAnswer(f.answer)
  BY <1>0 DEF FrameInv, Placed
<1>3. /\ IsAnswer(n.answer) /\ n.answer.err = err /\ n.answer.limit = f.answer.limit
  BY <1>2 DEF IsAnswer, AnswerFields
<1>4. Layers(n) = Layers(f) /\ (\A layer : At(n, layer) <=> At(f, layer))
  BY SameLayers
<1>5. NameOf(n) = NameOf(f)
  BY <1>3, SameExpected
<1>6. Placed(n)
  BY <1>0, <1>3, <1>4 DEF FrameInv, Placed
<1>7. Counted(n)
  BY <1>0, <1>4 DEF FrameInv, Counted
<1>8. Carries(n)
  BY <1>0, <1>3 DEF FrameInv, Carries
<1>9. Told(n)
  BY <1>3, <1>5 DEF Told
<1>10. FrameInv(n)
  BY <1>6, <1>7, <1>8, <1>9 DEF FrameInv
<1>11. QED
  BY <1>1, <1>10, Moves

(* Wrapping and classifying do. *)
LEMMA CallerStep ==
    ASSUME Inv, NEW g \in Callers, Wrap(g) \/ Classify(g)
    PROVE  Inv'
<1> DEFINE f == frame[g]
           err == f.answer.err
<1>0. /\ f.dir = "returned" /\ err # <<>>
      /\ UNCHANGED <<construction, shared, pacing>>
  BY DEF Wrap, Classify
<1>1. DOMAIN f = FrameFields /\ err \in Chains /\ OneSDK(err) /\ Names(err, NameOf(f))
  BY <1>0 DEF Inv, FrameInv, Placed, Told
<1>2. CASE Wrap(g)
  <2> DEFINE n == [f EXCEPT !.wraps = @ + 1, !.answer.err = Wrapped(@)]
  <2>1. Move(g, n)
    BY <1>2 DEF Wrap
  <2>2. /\ DOMAIN n = FrameFields /\ n.dir = "returned" /\ n.via = f.via /\ n.at = f.at
        /\ n.attempt = f.attempt /\ n.sent = f.sent
        /\ n.ctx = f.ctx /\ n.fault = f.fault /\ n.code = f.code
        /\ n.answer = [f.answer EXCEPT !.err = Wrapped(err)]
    BY <1>0, <1>1 DEF FrameFields
  <2> HIDE DEF n
  <2>3. Wrapped(err) \in Chains /\ OneSDK(Wrapped(err)) /\ Names(Wrapped(err), NameOf(f))
    BY <1>0, <1>1, WrappedType, OneSDKWrapped, NamesWrapped
  <2>4. QED
    BY <1>0, <2>1, <2>2, <2>3, RewrittenStep
<1>3. CASE Classify(g)
  <2> DEFINE n == [f EXCEPT !.answer.err = ClassifyError(@)]
  <2>1. Move(g, n)
    BY <1>3 DEF Classify
  <2>2. /\ DOMAIN n = FrameFields /\ n.dir = "returned" /\ n.via = f.via /\ n.at = f.at
        /\ n.attempt = f.attempt /\ n.sent = f.sent
        /\ n.ctx = f.ctx /\ n.fault = f.fault /\ n.code = f.code
        /\ n.answer = [f.answer EXCEPT !.err = ClassifyError(err)]
    BY <1>0, <1>1 DEF FrameFields
  <2> HIDE DEF n
  <2>3. /\ ClassifyError(err) \in Chains /\ OneSDK(ClassifyError(err))
        /\ Names(ClassifyError(err), NameOf(f))
    BY <1>1, ClassifiedType, OneSDKClassified, NamesClassified
  <2>4. QED
    BY <1>0, <2>1, <2>2, <2>3, RewrittenStep
<1>4. QED
  BY <1>2, <1>3

(* A step of the clock leaves every frame alone. *)
LEMMA FramesStay ==
    ASSUME Inv, UNCHANGED <<construction, frame>>, SharedInv'
    PROVE  Inv'
<1>1. ASSUME NEW h \in Callers PROVE FrameInv(frame[h])'
  BY FrameStep DEF Inv
<1>2. OptionsInv' /\ KernelInv'
  BY DEF Inv, OptionsInv, KernelInv, Asked, construction
<1>3. QED
  BY <1>1, <1>2 DEF Inv

(* Time passes. *)
LEMMA ClockStep ==
    ASSUME Inv, CooldownEnds \/ WindowEnds \/ Tick
    PROVE  Inv'
<1>1. CASE CooldownEnds
  <2>1. IsBudget(cache)'
    BY <1>1 DEF Inv, SharedInv, IsBudget, CooldownEnds
  <2>2. SharedInv'
    BY <1>1, <2>1 DEF Inv, SharedInv, CooldownEnds, pacing
  <2>3. QED
    BY <1>1, <2>2, FramesStay DEF CooldownEnds
<1>2. CASE WindowEnds
  <2>1. IsBudget(cache)'
    BY <1>2 DEF Inv, SharedInv, IsBudget, WindowEnds
  <2>2. SharedInv'
    BY <1>2, <2>1 DEF Inv, SharedInv, WindowEnds, pacing
  <2>3. QED
    BY <1>2, <2>2, FramesStay DEF WindowEnds
<1>3. CASE Tick
  <2>1. IsBudget(cache)'
    BY <1>3 DEF Inv, SharedInv, IsBudget, Tick, shared
  <2>2. /\ reserved' \in Nat /\ wait' \in [Callers -> Nat] /\ quiet' \in 0 .. Interval
    BY <1>3, KernelAssumption DEF Inv, SharedInv, Tick
  <2>a. late' \in [Callers -> 0 .. Lag]
    BY <1>3, KernelAssumption DEF Inv, SharedInv, Tick
  <2>3. SharedInv'
    BY <1>3, <2>1, <2>2, <2>a DEF Inv, SharedInv, Tick, shared
  <2>4. QED
    BY <1>3, <2>3, FramesStay DEF Tick
<1>4. QED
  BY <1>1, <1>2, <1>3

(* The fields of Idle. *)
LEMMA IdleFields ==
    /\ DOMAIN Idle = FrameFields /\ Idle.dir = "idle" /\ Idle.via = "client" /\ Idle.at = 0
    /\ Idle.attempt = 0 /\ Idle.sent = 0 /\ Idle.answer = NoAnswer
    /\ Idle.fault = "none" /\ Idle.ctx = "live"
BY DEF Idle, FrameFields

(* An idle goroutine satisfies the invariant under any options. *)
LEMMA IdleStep ==
    ASSUME NEW h \in Callers, frame'[h] = Idle, Len(kernel'.stack) \in Nat,
           options'.Retry.MaxRetries \in Nat
    PROVE  FrameInv(frame[h])'
<1>1. Layers(frame[h])' = kernel'.stack
  BY IdleFields DEF Layers
<1>2. Placed(frame[h])'
  BY <1>1, IdleFields, Nothing DEF Placed, Dirs
<1>3. Counted(frame[h])'
  BY IdleFields DEF Counted
<1>4. Carries(frame[h])' /\ Told(frame[h])'
  BY IdleFields, Nothing DEF Carries, Told
<1>5. QED
  BY <1>2, <1>3, <1>4 DEF FrameInv

(* An option is applied. *)
LEMMA ApplyStep ==
    ASSUME Inv, NEW name, NEW o, Apply(name, o), DOMAIN o = OptionFields,
           o.Retry.MaxRetries \in Nat, o.SecondaryPacing \in {0, Interval},
           o.RequestTimeout \in Int, o.HTTPClient.timeout \in Int,
           "slash" \in DOMAIN o.BaseURL,
           Len(o.TokenEnvVars) \in Nat,
           DOMAIN o.TokenEnvVars = 1 .. Len(o.TokenEnvVars),
           \/ name = "WithAuthTokenFromEnv" /\ o.TokenEnvVars # <<>>
           \/ name # "WithAuthTokenFromEnv" /\ o.TokenEnvVars = options.TokenEnvVars
    PROVE  Inv'
<1>1. /\ ~kernel.built /\ given' = given \cup {name} /\ options' = o
      /\ UNCHANGED <<env, kernel, shared, frame, pacing>>
  BY DEF Apply
<1>2. SharedInv'
  BY <1>1, SharedSame
<1>3. OptionsInv'
  BY <1>1 DEF Inv, OptionsInv
<1>4. KernelInv'
  BY <1>1 DEF Inv, KernelInv
<1>5. ASSUME NEW h \in Callers PROVE FrameInv(frame[h])'
  <2>1. frame'[h] = Idle /\ kernel'.stack = <<>> /\ Len(<<>>) = 0
    BY <1>1 DEF Inv, KernelInv
  <2>2. QED
    BY <1>1, <2>1, IdleStep
<1>6. QED
  BY <1>1, <1>2, <1>3, <1>4, <1>5 DEF Inv

(* Every option keeps the options in order. *)
LEMMA OptionStep ==
    ASSUME Inv, Option
    PROVE  Inv'
<1> USE DEF OptionFields
<1>0. /\ DOMAIN options = OptionFields /\ options.Retry.MaxRetries \in Nat
      /\ options.SecondaryPacing \in {0, Interval} /\ options.RequestTimeout \in Int
      /\ options.HTTPClient.timeout \in Int /\ "slash" \in DOMAIN options.BaseURL
      /\ Len(options.TokenEnvVars) \in Nat
      /\ DOMAIN options.TokenEnvVars = 1 .. Len(options.TokenEnvVars)
  BY DEF Inv, OptionsInv
<1>1. ASSUME WithPAT("pat") PROVE Inv'
  <2> DEFINE o == [options EXCEPT !.Token = "pat"]
  <2>1. Apply("WithPAT", o)
    BY <1>1 DEF WithPAT
  <2>2. /\ DOMAIN o = OptionFields
        /\ o.Retry = options.Retry /\ o.SecondaryPacing = options.SecondaryPacing
        /\ o.RequestTimeout = options.RequestTimeout
        /\ o.HTTPClient = options.HTTPClient /\ o.BaseURL = options.BaseURL
        /\ o.TokenEnvVars = options.TokenEnvVars
    BY <1>0
  <2> HIDE DEF o
  <2>3. QED
    BY <1>0, <2>1, <2>2, ApplyStep
<1>2. ASSUME WithUserAgent PROVE Inv'
  <2> DEFINE o == options
  <2>1. Apply("WithUserAgent", o)
    BY <1>2 DEF WithUserAgent
  <2>2. /\ DOMAIN o = OptionFields
        /\ o.Retry = options.Retry /\ o.SecondaryPacing = options.SecondaryPacing
        /\ o.RequestTimeout = options.RequestTimeout
        /\ o.HTTPClient = options.HTTPClient /\ o.BaseURL = options.BaseURL
        /\ o.TokenEnvVars = options.TokenEnvVars
    BY <1>0
  <2> HIDE DEF o
  <2>3. QED
    BY <1>0, <2>1, <2>2, ApplyStep
<1>3. ASSUME WithoutRateLimit PROVE Inv'
  <2> DEFINE o == [options EXCEPT !.RateLimit =
                    [Enabled |-> FALSE, MinRemaining |-> 0, MaxWait |-> 0]]
  <2>1. Apply("WithoutRateLimit", o)
    BY <1>3 DEF WithoutRateLimit
  <2>2. /\ DOMAIN o = OptionFields
        /\ o.Retry = options.Retry /\ o.SecondaryPacing = options.SecondaryPacing
        /\ o.RequestTimeout = options.RequestTimeout
        /\ o.HTTPClient = options.HTTPClient /\ o.BaseURL = options.BaseURL
        /\ o.TokenEnvVars = options.TokenEnvVars
    BY <1>0
  <2> HIDE DEF o
  <2>3. QED
    BY <1>0, <2>1, <2>2, ApplyStep
<1>4. ASSUME WithoutRetry PROVE Inv'
  <2> DEFINE o == [options EXCEPT !.Retry = [Enabled |-> FALSE, MaxRetries |-> 0]]
  <2>1. Apply("WithoutRetry", o)
    BY <1>4 DEF WithoutRetry
  <2>2. /\ DOMAIN o = OptionFields
        /\ o.SecondaryPacing = options.SecondaryPacing /\ o.RequestTimeout = options.RequestTimeout
        /\ o.HTTPClient = options.HTTPClient
        /\ o.BaseURL = options.BaseURL /\ o.TokenEnvVars = options.TokenEnvVars
    BY <1>0
  <2>3. o.Retry.MaxRetries \in Nat
    <3>1. o.Retry = [Enabled |-> FALSE, MaxRetries |-> 0]
      BY <1>0
    <3> HIDE DEF o
    <3>2. QED
      BY <3>1
  <2> HIDE DEF o
  <2>4. QED
    BY <1>0, <2>1, <2>2, <2>3, ApplyStep
<1>5. ASSUME WithETagCache PROVE Inv'
  <2> DEFINE o == [options EXCEPT !.ETag = TRUE]
  <2>1. Apply("WithETagCache", o)
    BY <1>5 DEF WithETagCache
  <2>2. /\ DOMAIN o = OptionFields
        /\ o.Retry = options.Retry /\ o.SecondaryPacing = options.SecondaryPacing
        /\ o.RequestTimeout = options.RequestTimeout
        /\ o.HTTPClient = options.HTTPClient /\ o.BaseURL = options.BaseURL
        /\ o.TokenEnvVars = options.TokenEnvVars
    BY <1>0
  <2> HIDE DEF o
  <2>3. QED
    BY <1>0, <2>1, <2>2, ApplyStep
<1>6. ASSUME NEW names \in EnvVarLists, WithAuthTokenFromEnv(names) PROVE Inv'
  <2> DEFINE o == [options EXCEPT !.TokenEnvVars =
                    IF names = <<>> THEN <<"GITHUB_TOKEN", "GH_TOKEN">> ELSE names]
  <2>1. Apply("WithAuthTokenFromEnv", o)
    BY <1>6 DEF WithAuthTokenFromEnv
  <2>2. /\ DOMAIN o = OptionFields
        /\ o.Retry = options.Retry /\ o.SecondaryPacing = options.SecondaryPacing
        /\ o.RequestTimeout = options.RequestTimeout
        /\ o.HTTPClient = options.HTTPClient /\ o.BaseURL = options.BaseURL
    BY <1>0
  <2>3. /\ o.TokenEnvVars # <<>> /\ Len(o.TokenEnvVars) \in Nat
        /\ DOMAIN o.TokenEnvVars = 1 .. Len(o.TokenEnvVars)
    <3>1. o.TokenEnvVars =
             IF names = <<>> THEN <<"GITHUB_TOKEN", "GH_TOKEN">> ELSE names
      BY <1>0
    <3>2. names \in Seq(STRING)
      BY KernelAssumption
    <3> HIDE DEF o
    <3>3. CASE names = <<>>
      <4>1. o.TokenEnvVars = <<"GITHUB_TOKEN", "GH_TOKEN">>
        BY <3>1, <3>3
      <4>2. QED
        BY <4>1
    <3>4. CASE names # <<>>
      BY <3>1, <3>2, <3>4
    <3>5. QED
      BY <3>3, <3>4
  <2> HIDE DEF o
  <2>4. QED
    BY <1>0, <2>1, <2>2, <2>3, ApplyStep
<1>7. ASSUME NEW u \in BaseURLs, WithBaseURL(u) PROVE Inv'
  <2> DEFINE o == [options EXCEPT !.BaseURL = u]
  <2>1. Apply("WithBaseURL", o)
    BY <1>7 DEF WithBaseURL
  <2>2. /\ DOMAIN o = OptionFields
        /\ o.Retry = options.Retry /\ o.SecondaryPacing = options.SecondaryPacing
        /\ o.RequestTimeout = options.RequestTimeout
        /\ o.HTTPClient = options.HTTPClient /\ o.TokenEnvVars = options.TokenEnvVars
    BY <1>0
  <2>3. "slash" \in DOMAIN o.BaseURL
    <3>1. o.BaseURL = u
      BY <1>0
    <3> HIDE DEF o
    <3>2. DOMAIN u = {"empty", "parses", "host", "slash"}
      BY KernelAssumption
    <3>3. QED
      BY <3>1, <3>2
  <2> HIDE DEF o
  <2>4. QED
    BY <1>0, <2>1, <2>2, <2>3, ApplyStep
<1>8. ASSUME NEW c \in HTTPClients, WithHTTPClient(c) PROVE Inv'
  <2> DEFINE o == [options EXCEPT !.HTTPClient = c]
  <2>1. Apply("WithHTTPClient", o)
    BY <1>8 DEF WithHTTPClient
  <2>2. /\ DOMAIN o = OptionFields
        /\ o.Retry = options.Retry /\ o.SecondaryPacing = options.SecondaryPacing
        /\ o.RequestTimeout = options.RequestTimeout
        /\ o.BaseURL = options.BaseURL /\ o.TokenEnvVars = options.TokenEnvVars
    BY <1>0
  <2>3. o.HTTPClient.timeout \in Int
    <3>1. o.HTTPClient = c
      BY <1>0
    <3> HIDE DEF o
    <3>2. c.timeout \in Int
      BY KernelAssumption
    <3>3. QED
      BY <3>1, <3>2
  <2> HIDE DEF o
  <2>4. QED
    BY <1>0, <2>1, <2>2, <2>3, ApplyStep
<1>9. ASSUME NEW d \in Timeouts, WithTimeout(d) PROVE Inv'
  <2> DEFINE o == [options EXCEPT !.RequestTimeout = d]
  <2>1. Apply("WithTimeout", o)
    BY <1>9 DEF WithTimeout
  <2>2. /\ DOMAIN o = OptionFields
        /\ o.Retry = options.Retry /\ o.SecondaryPacing = options.SecondaryPacing
        /\ o.HTTPClient = options.HTTPClient
        /\ o.BaseURL = options.BaseURL /\ o.TokenEnvVars = options.TokenEnvVars
    BY <1>0
  <2>3. o.RequestTimeout \in Int
    BY <1>0, KernelAssumption
  <2> HIDE DEF o
  <2>4. QED
    BY <1>0, <2>1, <2>2, <2>3, ApplyStep
<1>10. ASSUME NEW l \in RateLimits, WithRateLimitOptions(l) PROVE Inv'
  <2> DEFINE o == [options EXCEPT !.RateLimit =
                    [DefaultRateLimitOptions EXCEPT
                        !.MinRemaining = Override(l.MinRemaining, @),
                        !.MaxWait = Override(l.MaxWait, @)]]
  <2>1. Apply("WithRateLimitOptions", o)
    BY <1>10 DEF WithRateLimitOptions
  <2>2. /\ DOMAIN o = OptionFields
        /\ o.Retry = options.Retry /\ o.SecondaryPacing = options.SecondaryPacing
        /\ o.RequestTimeout = options.RequestTimeout
        /\ o.HTTPClient = options.HTTPClient /\ o.BaseURL = options.BaseURL
        /\ o.TokenEnvVars = options.TokenEnvVars
    BY <1>0
  <2> HIDE DEF o
  <2>3. QED
    BY <1>0, <2>1, <2>2, ApplyStep
<1>11. ASSUME NEW d \in {-1, Interval}, WithSecondaryPacing(d) PROVE Inv'
  <2> DEFINE o == [options EXCEPT !.SecondaryPacing = IF d < 0 THEN 0 ELSE d]
  <2>1. Apply("WithSecondaryPacing", o)
    BY <1>11 DEF WithSecondaryPacing
  <2>2. /\ DOMAIN o = OptionFields
        /\ o.Retry = options.Retry /\ o.RequestTimeout = options.RequestTimeout
        /\ o.HTTPClient = options.HTTPClient
        /\ o.BaseURL = options.BaseURL /\ o.TokenEnvVars = options.TokenEnvVars
    BY <1>0
  <2>3. o.SecondaryPacing \in {0, Interval}
    BY <1>0, KernelAssumption
  <2> HIDE DEF o
  <2>4. QED
    BY <1>0, <2>1, <2>2, <2>3, ApplyStep
<1>12. ASSUME NEW r \in Retries, WithRetryOptions(r) PROVE Inv'
  <2> DEFINE o == [options EXCEPT !.Retry =
                    [DefaultRetryOptions EXCEPT
                        !.MaxRetries = Override(r.MaxRetries, @)]]
  <2>1. Apply("WithRetryOptions", o)
    BY <1>12 DEF WithRetryOptions
  <2>2. /\ DOMAIN o = OptionFields
        /\ o.SecondaryPacing = options.SecondaryPacing /\ o.RequestTimeout = options.RequestTimeout
        /\ o.HTTPClient = options.HTTPClient
        /\ o.BaseURL = options.BaseURL /\ o.TokenEnvVars = options.TokenEnvVars
    BY <1>0
  <2>3. o.Retry.MaxRetries \in Nat
    <3>1. o.Retry = [DefaultRetryOptions EXCEPT
                        !.MaxRetries = Override(r.MaxRetries, @)]
      BY <1>0
    <3> HIDE DEF o
    <3>2. r.MaxRetries \in Int /\ DefaultMaxRetries \in Nat
      BY KernelAssumption
    <3>3. o.Retry.MaxRetries = Override(r.MaxRetries, DefaultMaxRetries)
      BY <3>1 DEF DefaultRetryOptions
    <3>4. QED
      BY <3>2, <3>3 DEF Override
  <2> HIDE DEF o
  <2>4. QED
    BY <1>0, <2>1, <2>2, <2>3, ApplyStep
<1>13. QED
  BY <1>1, <1>2, <1>3, <1>4, <1>5, <1>6, <1>7, <1>8, <1>9, <1>10, <1>11, <1>12 DEF Option

(* resolveToken, when it succeeds, finds the token that was asked for. *)
LEMMA TokenResolved ==
    ASSUME OptionsInv, resolveToken(options).ok, NEW token, token = resolveToken(options).token
    PROVE  Asked(token)
<1> DEFINE names == options.TokenEnvVars
           I == {i \in 1 .. Len(names) : names[i] \in env}
           sel == SelectInSeq(names, LAMBDA name : name \in env)
<1>1. sel = IF I # {} THEN Min(I) ELSE 0
  BY DEF SelectInSeq
<1>2. resolveToken(options) =
        IF options.Token # "" THEN [ok |-> TRUE, token |-> options.Token]
        ELSE IF names = <<>> THEN [ok |-> TRUE, token |-> ""]
        ELSE IF sel = 0 THEN [ok |-> FALSE, token |-> ""]
        ELSE [ok |-> TRUE, token |-> names[sel]]
  BY DEF resolveToken
<1>3. /\ Len(names) \in Nat /\ DOMAIN names = 1 .. Len(names)
      /\ "WithAuthTokenFromEnv" \in given <=> names # <<>>
  BY DEF OptionsInv
<1> HIDE DEF sel, names
<1>4. CASE options.Token # ""
  <2>1. resolveToken(options) = [ok |-> TRUE, token |-> options.Token]
    BY <1>2, <1>4
  <2>2. token = options.Token
    BY <2>1
  <2>3. QED
    BY <1>4, <2>2 DEF Asked
<1>5. CASE options.Token = "" /\ names # <<>>
  <2>1. sel # 0 /\ token = names[sel]
    <3>1. CASE sel = 0
      <4>1. resolveToken(options) = [ok |-> FALSE, token |-> ""]
        BY <1>2, <1>5, <3>1
      <4>2. ~[ok |-> FALSE, token |-> ""].ok
        OBVIOUS
      <4>3. QED
        BY <4>1, <4>2, Zenon
    <3>2. CASE sel # 0
      <4>1. resolveToken(options) = [ok |-> TRUE, token |-> names[sel]]
        BY <1>2, <1>5, <3>2
      <4>2. QED
        BY <3>2, <4>1
    <3>3. QED
      BY <3>1, <3>2
  <2>2. I # {} /\ I \in SUBSET Nat /\ sel = Min(I)
    <3>1. I \in SUBSET Nat
      BY <1>3
    <3> HIDE DEF I
    <3>2. QED
      BY <1>1, <2>1, <3>1
  <2>3. sel \in I /\ \A n \in I : sel <= n
    BY <2>2, MinIsLeast
  <2>4. names[sel] \in env /\ sel \in 1 .. Len(names)
    BY <2>3
  <2>5. ASSUME NEW j \in 1 .. sel - 1, names[j] \in env PROVE FALSE
    <3>1. j \in 1 .. Len(names) /\ j < sel
      BY <1>3, <2>4
    <3>2. j \in I
      BY <2>5, <3>1
    <3>3. QED
      BY <2>3, <2>4, <3>1, <3>2
  <2>6. \E i \in DOMAIN names : /\ names[i] \in env /\ token = names[i]
                                 /\ \A j \in 1 .. i - 1 : names[j] \notin env
    BY <1>3, <2>1, <2>4, <2>5
  <2>7. QED
    BY <1>3, <1>5, <2>6 DEF Asked, names
<1>6. CASE options.Token = "" /\ names = <<>>
  <2>1. resolveToken(options) = [ok |-> TRUE, token |-> ""]
    BY <1>2, <1>6
  <2>a. [ok |-> TRUE, token |-> ""].token = ""
    OBVIOUS
  <2>2. token = ""
    BY <2>1, <2>a, Zenon
  <2>3. QED
    BY <1>3, <1>6, <2>2 DEF Asked
<1>7. QED
  BY <1>4, <1>5, <1>6

(* New fails, or builds the stacks. *)
LEMMA NewStep ==
    ASSUME Inv, New
    PROVE  Inv'
<1> DEFINE token == resolveToken(options)
           base == ResolveBaseURL(options.BaseURL)
           built == [built |-> TRUE, failed |-> FALSE, stack |-> Stack(options),
                     probeStack |-> ProbeStack(options), token |-> token.token,
                     base |-> base.url, timeout |-> resolveTimeout(options)]
<1>0. /\ ~kernel.built /\ OptionsInv
      /\ UNCHANGED <<env, options, given, shared, frame, pacing>>
      /\ \A g \in Callers : frame[g] = Idle
  BY DEF New, Inv, KernelInv
<1>1. SharedInv'
  BY <1>0, SharedSame
<1>2. OptionsInv'
  BY <1>0 DEF OptionsInv
<1>3. ASSUME KernelInv', Len(kernel'.stack) \in Nat
      PROVE  Inv'
  <2>1. ASSUME NEW h \in Callers PROVE FrameInv(frame[h])'
    <3>1. frame'[h] = Idle /\ options'.Retry.MaxRetries \in Nat
      BY <1>0 DEF OptionsInv
    <3>2. QED
      BY <1>3, <3>1, IdleStep
  <2>2. QED
    BY <1>0, <1>1, <1>2, <1>3, <2>1 DEF Inv
<1>4. CASE kernel' = [NoKernel EXCEPT !.failed = TRUE]
  <2>1. /\ kernel'.built = FALSE /\ kernel'.stack = <<>> /\ kernel'.probeStack = <<>>
    BY <1>4 DEF NoKernel
  <2>2. KernelInv'
    BY <1>0, <2>1 DEF KernelInv
  <2>3. Len(kernel'.stack) \in Nat
    BY <2>1
  <2>4. QED
    BY <1>3, <2>2, <2>3
<1>5. CASE token.ok /\ kernel' = built
  <2>1. /\ kernel'.built = TRUE /\ kernel'.failed = FALSE
        /\ kernel'.stack = Stack(options) /\ kernel'.probeStack = ProbeStack(options)
        /\ kernel'.token = token.token /\ kernel'.base = base.url
        /\ kernel'.timeout = resolveTimeout(options)
    BY <1>5
  <2>2. resolveTimeout(options) # 0
    BY <1>0, KernelAssumption DEF resolveTimeout, OptionsInv
  <2>3. base.url.slash = TRUE
    BY <1>0 DEF ResolveBaseURL, OptionsInv
  <2>a. Asked(token.token)
    BY <1>0, <1>5, TokenResolved
  <2>4. Asked(kernel.token)'
    <3> HIDE DEF token
    <3>1. QED
      BY <1>0, <2>1, <2>a DEF Asked
  <2>5. KernelInv'
    BY <1>0, <2>1, <2>2, <2>3, <2>4 DEF KernelInv
  <2>6. Len(kernel'.stack) \in Nat
    BY <2>1, ClientStackShape DEF EndsInBase
  <2>7. QED
    BY <1>3, <2>5, <2>6
<1>6. QED
  BY <1>4, <1>5 DEF New

-----------------------------------------------------------------------------
(* The theorems. *)

(* The invariant holds before the first option. *)
LEMMA InitInv ==
    ASSUME Init
    PROVE  Inv
<1> DEFINE o == resolveDefaults
<1>1. OptionsInv
  <2>1. /\ DOMAIN options = OptionFields /\ options.TokenEnvVars = <<>>
        /\ options.Retry = DefaultRetryOptions /\ options.SecondaryPacing = 0
        /\ options.RequestTimeout = DefaultRequestTimeout
        /\ options.HTTPClient = [set |-> FALSE, transport |-> FALSE, timeout |-> 0]
        /\ options.BaseURL = DefaultBaseURL
    BY DEF Init, resolveDefaults, OptionFields
  <2>2. /\ options.Retry.MaxRetries \in Nat /\ options.RequestTimeout \in Int
        /\ options.HTTPClient.timeout \in Int /\ "slash" \in DOMAIN options.BaseURL
    BY <2>1, KernelAssumption DEF DefaultRetryOptions, DefaultBaseURL
  <2>3. given = {}
    BY DEF Init
  <2>4. QED
    BY <2>1, <2>2, <2>3 DEF OptionsInv
<1>2. KernelInv
  <2>1. kernel.built = FALSE /\ kernel.stack = <<>> /\ kernel.probeStack = <<>>
    BY DEF Init, NoKernel
  <2>2. QED
    BY <2>1 DEF Init, KernelInv
<1>3. SharedInv
  <2>1. IsBudget(cache)
    BY DEF Init, NoSnapshot, IsBudget
  <2>2. /\ reserved \in Nat /\ wait \in [Callers -> Nat]
        /\ late \in [Callers -> 0 .. Lag] /\ quiet \in 0 .. Interval
    BY KernelAssumption DEF Init
  <2>3. cooling \in BOOLEAN /\ stored \subseteq {"client", "probe"}
    BY DEF Init
  <2>4. QED
    BY <2>1, <2>2, <2>3 DEF SharedInv
<1>4. ASSUME NEW h \in Callers PROVE FrameInv(frame[h])
  <2>1. frame[h] = Idle
    BY DEF Init
  <2>2. FrameInv(Idle)
    BY <1>1, <1>2, IdleFields, FreshFrame
  <2>3. QED
    BY <2>1, <2>2
<1>5. QED
  BY <1>1, <1>2, <1>3, <1>4 DEF Inv, Init

(* And always. *)
LEMMA Invariance == Spec => []Inv
<1>1. Init => Inv
  BY InitInv
<1>2. Inv /\ [Next]_vars => Inv'
  <2> SUFFICES ASSUME Inv, [Next]_vars PROVE Inv'
    OBVIOUS
  <2>1. CASE Option \/ New
    BY <2>1, OptionStep, NewStep
  <2>2. CASE CooldownEnds \/ WindowEnds \/ Tick
    BY <2>2, ClockStep
  <2>3. ASSUME NEW g \in Callers, Enter(g) PROVE Inv'
    BY <2>3, EnterStep
  <2>4. ASSUME NEW g \in Callers, RoundTrip(g) PROVE Inv'
    BY <2>4, GateStep, GateSleepStep, ProbeStep, ProbeAnsweredStep, DescendStep,
       FeedStep, RetryStep, RetrySleepStep, ETagStep, PaceStep, PaceSleepStep,
       AscendStep, BaseStep, AnsweredStep, UnansweredStep, ReturnStep
       DEF RoundTrip
  <2>5. ASSUME NEW g \in Callers, Wrap(g) \/ Classify(g) PROVE Inv'
    BY <2>5, CallerStep
  <2>6. ASSUME NEW g \in Callers, NEW how \in Endings, ContextEnds(g, how) PROVE Inv'
    BY <2>6, ContextEndsStep
  <2>7. CASE UNCHANGED vars
    <3>1. UNCHANGED <<construction, frame>> /\ UNCHANGED <<shared, pacing>>
      BY <2>7 DEF vars
    <3>2. QED
      BY <3>1, SharedSame, FramesStay
  <2>8. QED
    BY <2>1, <2>2, <2>3, <2>4, <2>5, <2>6, <2>7 DEF Next
<1>3. QED
  BY <1>1, <1>2, PTL DEF Spec

(* A request never leaves its stack, the estimate never falls below what is *)
(* known (ratelimit.go:122-135), and a kernel that is built has a timeout   *)
(* and a base URL that ends in a slash (client.go:207-245).                 *)
THEOREM TypeCorrect == Spec => []TypeOK
<1>1. Inv => TypeOK
  <2> SUFFICES ASSUME Inv PROVE TypeOK
    OBVIOUS
  <2>1. /\ cache.remaining >= -1 /\ cache.resetIn >= 0
    BY DEF Inv, SharedInv, IsBudget
  <2>2. kernel.built => ~kernel.failed /\ kernel.timeout # 0 /\ kernel.base.slash
    BY DEF Inv, KernelInv
  <2>3. \A g \in Callers : LET f == frame[g] IN
          /\ f.dir \in {"idle", "down", "sleep", "flight", "probe", "up", "returned"}
          /\ f.at \in 0 .. Len(Layers(f))
          /\ f.dir \in {"down", "sleep", "flight"} => f.at > 0
    BY DEF Inv, FrameInv, Placed, Dirs
  <2>4. QED
    BY <2>1, <2>2, <2>3 DEF Inv, SharedInv, TypeOK
<1>2. QED
  BY <1>1, Invariance, PTL

(* No request and no probe is sent more often than once and the retries that*)
(* the options allow (probe.go:41, options.go:216-217).                     *)
THEOREM BoundedAttempts == Spec => []AttemptsBounded
<1>1. Inv => AttemptsBounded
  BY DEF Inv, OptionsInv, FrameInv, Counted, AttemptsBounded
<1>2. QED
  BY <1>1, Invariance, PTL

(* Whatever reaches the base transport, requests, retries and probes, has   *)
(* the token that the options ask for in its Authorization header           *)
(* (options.go:115-117, probe.go:115-117).                                  *)
THEOREM RequestsAuthenticated == Spec => []Authenticated
<1>1. Inv => Authenticated
  <2> SUFFICES ASSUME Inv, NEW g \in Callers, frame[g].dir = "flight"
               PROVE  Asked(Authorization(frame[g]))
    BY DEF Authenticated
  <2>1. Asked(kernel.token)
    BY AtBuilt DEF Inv, KernelInv
  <2>2. Authorization(frame[g]) = kernel.token
    BY DEF Inv, FrameInv, Placed, Carries, Authorization
  <2>3. QED
    BY <2>1, <2>2
<1>2. QED
  BY <1>1, Invariance, PTL

(* What the gate rejects was never sent (transport.go:70-71). *)
THEOREM RejectedNeverSent == Spec => []RejectedUnsent
<1>1. Inv => RejectedUnsent
  BY DEF Inv, FrameInv, Counted, RejectedUnsent
<1>2. QED
  BY <1>1, Invariance, PTL

(* ClassifyError finds the one sentinel that fits what happened to the      *)
(* request (errors.go:18-40), through every wrapping by the layers and the  *)
(* caller and after any number of classifications; of the errors that the prober makes *)
(* itself it says nothing.                                                  *)
THEOREM ClassifiedRight == Spec => []RightSentinel
<1>1. Inv => RightSentinel
  <2> SUFFICES ASSUME Inv, NEW g \in Callers, frame[g].dir = "returned",
                      frame[g].answer.err # <<>>, frame[g].fault # "probe", NEW s \in Sentinels
               PROVE  Is(ClassifyError(frame[g].answer.err), s) <=> s = Expected(frame[g])
    BY DEF RightSentinel
  <2>1. Names(frame[g].answer.err, Expected(frame[g]))
    BY DEF Inv, FrameInv, Told, NameOf
  <2>2. s \in KitSentinels
    BY DEF Sentinels, KitSentinels, SentinelNames
  <2>3. QED
    BY <2>1, <2>2 DEF Names
<1>2. QED
  BY <1>1, Invariance, PTL

(* The go-github error in what a caller has survives classification         *)
(* (errors.go:82-85).                                                       *)
THEOREM SDKErrorSurvives == Spec => []SDKErrorKept
<1>1. Inv => SDKErrorKept
  <2> SUFFICES ASSUME Inv, NEW g \in Callers,
                      NEW t \in {"ErrorResponse", "RateLimitError", "AbuseRateLimitError"},
                      AsType(frame[g].answer.err, {t}) # <<>>
               PROVE  AsType(ClassifyError(frame[g].answer.err), {t}) =
                      AsType(frame[g].answer.err, {t})
    BY DEF SDKErrorKept
  <2>1. frame[g].answer.err \in Chains /\ OneSDK(frame[g].answer.err)
    BY DEF Inv, FrameInv, Told
  <2>2. t \in SDKTypes
    BY DEF SDKTypes
  <2>3. QED
    BY <2>1, <2>2, ClassifyKeeps
<1>2. QED
  BY <1>1, Invariance, PTL

-----------------------------------------------------------------------------
(* The kernel implements Pacing. *)

(* Before the first option nothing waits for a slot. *)
LEMMA PacedInit == Init => Paced!Init
<1> SUFFICES ASSUME Init PROVE Paced!Init
  OBVIOUS
<1>1. options.SecondaryPacing = 0
  BY DEF Init, resolveDefaults
<1>2. pacedPc = [g \in Callers |-> "idle"]
  BY <1>1 DEF pacedPc, PacingPc
<1>3. QED
  BY <1>2 DEF Init, Paced!Init

(* A request on its way up, in flight or with the prober is not in pacing. *)
LEMMA Elsewhere ==
    ASSUME NEW n, n.dir \notin {"down", "sleep"}
    PROVE  PacingPc(n) = "idle"
BY DEF PacingPc

(* A request in a layer above pacing is nowhere near the base transport. *)
LEMMA AbovePacing ==
    ASSUME OptionsInv, KernelInv, NEW f, Placed(f), NEW layer, At(f, layer),
           layer \notin {"pacing", "base"}
    PROVE  /\ PacingPc(f) = "idle"
           /\ \A n : n.via = f.via /\ n.at \in {f.at, f.at + 1} /\ n.dir # "sleep" =>
                        PacingPc(n) = "idle"
           /\ \A n : n.via = f.via /\ n.at = f.at => PacingPc(n) = "idle"
<1>1. kernel.built /\ f.at \in 1 .. Len(Layers(f)) /\ EndsInBase(Layers(f), options)
      /\ Layers(f)[f.at] = layer
  BY AtBelow, StackShape DEF Placed, At
<1>2. ASSUME NEW n, n.via = f.via, n.at = f.at PROVE PacingPc(n) = "idle"
  <2>1. Layers(n) = Layers(f)
    BY <1>2, SameLayers
  <2>2. ~At(n, "pacing") /\ ~At(n, "base")
    BY <1>1, <1>2, <2>1 DEF At
  <2>3. QED
    BY <2>2 DEF PacingPc
<1>3. ASSUME NEW n, n.via = f.via, n.at = f.at + 1, n.dir # "sleep" PROVE PacingPc(n) = "idle"
  <2>1. Layers(n) = Layers(f)
    BY <1>3, SameLayers
  <2>2. CASE options.SecondaryPacing = 0
    BY <2>2 DEF PacingPc
  <2>3. CASE options.SecondaryPacing > 0
    <3>1. f.at # Len(Layers(f)) - 1
      BY <1>1, <2>3 DEF EndsInBase
    <3> DEFINE S == Layers(f)
    <3>2. ASSUME At(n, "base") PROVE FALSE
      <4>1. f.at + 1 \in DOMAIN S /\ S[f.at + 1] = "base"
        BY <1>3, <2>1, <3>2 DEF At
      <4> HIDE DEF S
      <4>2. f.at + 1 = Len(S) /\ Len(S) \in Nat
        BY <4>1, <1>1 DEF EndsInBase, S
      <4>3. QED
        BY <1>1, <3>1, <4>2 DEF S
    <3>3. QED
      BY <1>3, <3>2 DEF PacingPc
  <2>4. QED
    BY <2>2, <2>3, KernelAssumption DEF OptionsInv
<1>4. QED
  BY <1>2, <1>3

(* A goroutine that moves from outside pacing to outside pacing is a        *)
(* stuttering step of Pacing.                                               *)
LEMMA Calm ==
    ASSUME Inv, NEW g \in Callers, NEW n, Move(g, n), UNCHANGED <<construction, pacing>>,
           PacingPc(n) = PacingPc(frame[g])
    PROVE  UNCHANGED Paced!vars
<1>1. frame'[g] = n /\ \A h \in Callers \ {g} : frame'[h] = frame[h]
  BY DEF Inv, Move
<1>2. ASSUME NEW h \in Callers PROVE PacingPc(frame[h])' = PacingPc(frame[h])
  <2>1. ASSUME NEW m, frame'[h] = m PROVE PacingPc(frame[h])' = PacingPc(m)
    BY <2>1 DEF PacingPc, At, Layers, construction
  <2>2. CASE h = g
    BY <1>1, <2>1, <2>2
  <2>3. CASE h # g
    BY <1>1, <2>1, <2>3
  <2>4. QED
    BY <2>2, <2>3
<1>3. pacedPc' = pacedPc
  BY <1>2 DEF pacedPc
<1>4. QED
  BY <1>3 DEF Paced!vars, pacing

(* So is every step that ends on the way up or above the stack. *)
LEMMA Above ==
    ASSUME Inv, NEW g \in Callers,
           \/ Feed(g) \/ ETag(g) \/ Ascend(g) \/ Answered(g) \/ Unanswered(g) \/ Return(g)
           \/ Wrap(g) \/ Classify(g) \/ RefreshRateLimit(g)
    PROVE  UNCHANGED Paced!vars
<1> DEFINE f == frame[g]
<1>1. DOMAIN f = FrameFields
  BY DEF Inv, FrameInv, Placed
<1>2. f.dir \notin {"down", "sleep"} /\ UNCHANGED <<construction, pacing>>
  BY DEF Feed, ETag, Ascend, Answered, Unanswered, Return, Wrap, Classify, RefreshRateLimit
<1>3. \E n : Move(g, n) /\ n.dir \notin {"down", "sleep"}
  <2>1. ASSUME NEW a, Move(g, Up(f, a)) PROVE \E n : Move(g, n) /\ n.dir \notin {"down", "sleep"}
    <3>1. Up(f, a).dir = "up"
      BY <1>1, UpFields
    <3>2. QED
      BY <2>1, <3>1
  <2>2. CASE Feed(g)
    BY <2>1, <2>2 DEF Feed
  <2>3. CASE ETag(g)
    BY <2>1, <2>3 DEF ETag
  <2>4. CASE Ascend(g)
    BY <2>1, <2>4 DEF Ascend
  <2>5. CASE Answered(g)
    <3>1. PICK s \in Snapshots \cup {NoSnapshot},
               status \in Statuses \cup (IF f.conditional THEN {304} ELSE {}),
               limit \in {"none", "exhausted", "secondary"} :
              /\ limit # "none" => status \in {403, 429}
              /\ limit = "exhausted" <=> status \in {403, 429} /\ s.remaining = 0
              /\ Move(g, [Up(f, [NoAnswer EXCEPT !.status = status, !.limit = limit,
                                                 !.snapshot = s])
                             EXCEPT !.fault = "response", !.code = status])
      BY <2>5, Zenon DEF Answered
    <3> DEFINE a == [NoAnswer EXCEPT !.status = status, !.limit = limit, !.snapshot = s]
    <3>2. Move(g, [Up(f, a) EXCEPT !.fault = "response", !.code = status])
      BY <3>1
    <3> HIDE DEF a
    <3>3. [Up(f, a) EXCEPT !.fault = "response", !.code = status].dir = "up"
      BY <1>1 DEF Up, FrameFields
    <3>4. QED
      BY <3>2, <3>3
  <2>6. CASE Unanswered(g)
    <3>1. ASSUME NEW err, NEW fault, Move(g, FailedWith(f, err, fault))
          PROVE  \E n : Move(g, n) /\ n.dir \notin {"down", "sleep"}
      BY <1>1, <3>1, FailedFields
    <3>2. ASSUME NEW err, NEW status,
                 Move(g, [Failed(f, err) EXCEPT !.fault = "mint", !.code = status])
          PROVE  \E n : Move(g, n) /\ n.dir \notin {"down", "sleep"}
      <4>1. [Failed(f, err) EXCEPT !.fault = "mint", !.code = status].dir = "up"
        BY <1>1 DEF Failed, Up, FrameFields
      <4>2. QED
        BY <3>2, <4>1
    <3>3. QED
      BY <2>6, <3>1, <3>2 DEF Unanswered, FailedWith, Cut
  <2>7. CASE Return(g)
    <3>1. PICK err, fault : Move(g, Done(f, err, fault))
      BY <2>7 DEF Return, Done
    <3>2. Done(f, err, fault).dir = "returned"
      BY DEF Done, Idle
    <3>3. QED
      BY <3>1, <3>2
  <2>8. CASE Wrap(g)
    <3> DEFINE n == [f EXCEPT !.wraps = @ + 1, !.answer.err = Wrapped(@)]
    <3>1. Move(g, n) /\ f.dir = "returned"
      BY <2>8 DEF Wrap
    <3>2. n.dir = f.dir
      BY <1>1 DEF FrameFields
    <3>3. QED
      BY <3>1, <3>2
  <2>9. CASE Classify(g)
    <3> DEFINE n == [f EXCEPT !.answer.err = ClassifyError(@)]
    <3>1. Move(g, n) /\ f.dir = "returned"
      BY <2>9 DEF Classify
    <3>2. n.dir = f.dir
      BY <1>1 DEF FrameFields
    <3>3. QED
      BY <3>1, <3>2
  <2>10. CASE RefreshRateLimit(g)
    <3> DEFINE n == [Idle EXCEPT !.dir = "probe", !.via = "probe"]
    <3>1. Move(g, n)
      BY <2>10 DEF RefreshRateLimit
    <3>2. n.dir = "probe"
      BY DEF Idle
    <3>3. QED
      BY <3>1, <3>2
  <2>11. QED
    BY <2>2, <2>3, <2>4, <2>5, <2>6, <2>7, <2>8, <2>9, <2>10
<1>4. PICK n : Move(g, n) /\ n.dir \notin {"down", "sleep"}
  BY <1>3
<1>5. PacingPc(n) = "idle" /\ PacingPc(f) = "idle"
  BY <1>2, <1>4, Elsewhere
<1>6. QED
  BY <1>2, <1>4, <1>5, Calm

(* The first two layers are above pacing. *)
LEMMA NearTop ==
    ASSUME OptionsInv, KernelInv, kernel.built, NEW n, n.via \in {"client", "probe"},
           n.at \in {0, 1} \/ (n.at = 2 /\ n.dir # "sleep")
    PROVE  PacingPc(n) = "idle"
<1> DEFINE S == Layers(n)
<1>1. EndsInBase(S, options)
  BY StackShape
<1> HIDE DEF S
<1>2. /\ n.at \in DOMAIN S /\ S[n.at] = "base" => n.at = Len(S)
      /\ n.at \in DOMAIN S /\ S[n.at] = "pacing" => n.at = Len(S) - 1
      /\ Len(S) \in Nat /\ Len(S) >= 3
  BY <1>1 DEF EndsInBase
<1>3. ~At(n, "base") /\ (At(n, "pacing") => n.at = 2)
  BY <1>2 DEF At, S
<1>4. QED
  BY <1>3 DEF PacingPc

(* The decision of the gate does not concern pacing. *)
LEMMA DecideCalm ==
    ASSUME Inv, kernel.built, NEW g \in Callers, PacingPc(frame[g]) = "idle",
           NEW f, DOMAIN f = FrameFields, f.via = "client", f.at = 1,
           NEW s, GateDecide(g, f, s), UNCHANGED <<construction, pacing>>
    PROVE  UNCHANGED Paced!vars
<1> DEFINE nap == [f EXCEPT !.dir = "sleep"]
           no == FailedWith(f, TooFar, "gate")
<1>0. OptionsInv /\ KernelInv
  BY DEF Inv
<1>1. Move(g, Down(f)) \/ Move(g, no) \/ Move(g, nap)
  BY DEF GateDecide, FailedWith, TooFar
<1>2. nap.via = "client" /\ nap.at = 1
  BY DEF FrameFields
<1>3. no.via = "client" /\ no.at = 0
  BY FailedFields
<1>4. Down(f).via = "client" /\ Down(f).at = 2 /\ Down(f).dir = "down"
  BY DownFields
<1> HIDE DEF nap, no
<1>5. PacingPc(nap) = "idle" /\ PacingPc(no) = "idle" /\ PacingPc(Down(f)) = "idle"
  BY <1>0, <1>2, <1>3, <1>4, NearTop
<1>6. QED
  BY <1>1, <1>5, Calm

(* The request that waited for a probe is at the first layer. *)
LEMMA ResumedFields ==
    ASSUME NEW f
    PROVE  DOMAIN Resumed(f) = FrameFields /\ Resumed(f).via = "client" /\ Resumed(f).at = 1
BY DEF Resumed, Idle, FrameFields

(* Nor does the return of the prober. *)
LEMMA ProbeReturnsCalm ==
    ASSUME Inv, kernel.built, NEW g \in Callers, PacingPc(frame[g]) = "idle",
           NEW err, NEW fault, ProbeReturns(g, err, fault), UNCHANGED <<construction, pacing>>
    PROVE  UNCHANGED Paced!vars
<1> DEFINE f == Resumed(frame[g])
           r == Refreshed(frame[g], err, fault)
<1>0. OptionsInv /\ KernelInv
  BY DEF Inv
<1>1. Move(g, r) \/ GateDecide(g, f, cache) \/ Move(g, Down(f))
  BY <1>0, ProbeReturnsIs
<1>2. r.dir = "returned"
  BY DEF Refreshed, Idle
<1>3. DOMAIN f = FrameFields /\ f.via = "client" /\ f.at = 1
  BY ResumedFields
<1> HIDE DEF f, r
<1>4. Down(f).via = "client" /\ Down(f).at = 2 /\ Down(f).dir = "down"
  BY <1>3, DownFields
<1>5. PacingPc(r) = "idle" /\ PacingPc(Down(f)) = "idle"
  BY <1>0, <1>2, <1>4, NearTop, Elsewhere
<1>6. CASE GateDecide(g, f, cache)
  BY <1>3, <1>6, DecideCalm
<1>7. CASE Move(g, r) \/ Move(g, Down(f))
  BY <1>5, <1>7, Calm
<1>8. QED
  BY <1>1, <1>6, <1>7

(* Nor does anything else the gate or the prober does. *)
LEMMA GateCalm ==
    ASSUME Inv, NEW g \in Callers,
           Gate(g) \/ GateSleep(g) \/ Probe(g) \/ ProbeAnswered(g)
    PROVE  UNCHANGED Paced!vars
<1> DEFINE f == frame[g]
<1>0. /\ OptionsInv /\ KernelInv /\ FrameInv(f) /\ DOMAIN f = FrameFields
      /\ UNCHANGED <<construction, pacing>> /\ f.dir \in {"down", "sleep", "probe", "up"}
  BY DEF Inv, FrameInv, Placed, Gate, GateSleep, Probe, ProbeAnswered
<1>1. kernel.built
  BY <1>0, AtBuilt
<1>2. CASE Gate(g) \/ GateSleep(g)
  <2>1. f.at = 1 /\ f.via = "client"
    BY <1>0, <1>2, AtBelow DEF FrameInv, Gate, GateSleep
  <2>2. PacingPc(f) = "idle"
    BY <1>0, <1>1, <2>1, NearTop
  <2>3. Down(f).via = "client" /\ Down(f).at = 2 /\ Down(f).dir = "down"
    BY <1>0, <2>1, DownFields
  <2>4. Cut(f).dir = "up"
    BY <1>0, CutFields
  <2> DEFINE p == [f EXCEPT !.dir = "probe", !.inner = TRUE]
  <2>5. p.dir = "probe"
    BY <1>0 DEF FrameFields
  <2>6. GateDecide(g, f, cache) \/ Move(g, Down(f)) \/ Move(g, Cut(f)) \/ Move(g, p)
    BY <1>2 DEF Gate, GateSleep
  <2> HIDE DEF p, f
  <2>7. PacingPc(Down(f)) = "idle" /\ PacingPc(Cut(f)) = "idle" /\ PacingPc(p) = "idle"
    BY <1>0, <1>1, <2>3, <2>4, <2>5, NearTop, Elsewhere
  <2>8. CASE GateDecide(g, f, cache)
    BY <1>0, <1>1, <2>1, <2>2, <2>8, DecideCalm DEF f
  <2>9. CASE Move(g, Down(f)) \/ Move(g, Cut(f)) \/ Move(g, p)
    BY <1>0, <2>2, <2>7, <2>9, Calm DEF f
  <2>10. QED
    BY <2>6, <2>8, <2>9
<1>3. CASE Probe(g) \/ ProbeAnswered(g)
  <2>1. PacingPc(f) = "idle"
    BY <1>3, Elsewhere DEF Probe, ProbeAnswered
  <2> DEFINE p == ProbeRequest(f)
  <2>2. (\E err, fault : ProbeReturns(g, err, fault)) \/ Move(g, p)
    BY <1>3 DEF Probe, ProbeAnswered
  <2>3. p.via = "probe" /\ p.at = 1
    BY DEF ProbeRequest, Idle
  <2> HIDE DEF p
  <2>4. PacingPc(p) = "idle"
    BY <1>0, <1>1, <2>3, NearTop
  <2>5. CASE Move(g, p)
    BY <1>0, <2>1, <2>4, <2>5, Calm
  <2>6. CASE \E err, fault : ProbeReturns(g, err, fault)
    BY <1>0, <1>1, <2>1, <2>6, ProbeReturnsCalm
  <2>7. QED
    BY <2>2, <2>5, <2>6
<1>4. QED
  BY <1>2, <1>3

(* A request that goes down from feed, retry or the ETag cache may enter    *)
(* pacing, but not pass it.                                                 *)
LEMMA RetryCalm ==
    ASSUME Inv, NEW g \in Callers, Descend(g) \/ Retry(g) \/ RetrySleep(g)
    PROVE  UNCHANGED Paced!vars
<1> DEFINE f == frame[g]
           asked == [Down(f) EXCEPT !.conditional = Method(f) = "GET" /\ f.via \in stored]
           nap == [f EXCEPT !.dir = "sleep", !.answer = NoAnswer, !.fault = "none", !.code = 0]
           again == [Down(f) EXCEPT !.attempt = @ + 1]
<1>0. /\ OptionsInv /\ KernelInv /\ Placed(f) /\ DOMAIN f = FrameFields
      /\ UNCHANGED <<construction, pacing>>
  BY DEF Inv, FrameInv, Placed, Descend, Retry, RetrySleep
<1>1. PICK layer \in {"feed", "retry", "etag"} : At(f, layer)
  BY DEF Descend, Retry, RetrySleep
<1>2. /\ Down(f).via = f.via /\ Down(f).at = f.at + 1 /\ Down(f).dir = "down"
      /\ Up(f, f.answer).dir = "up" /\ Cut(f).dir = "up"
  <2>1. Down(f).via = f.via /\ Down(f).at = f.at + 1 /\ Down(f).dir = "down"
    BY <1>0, DownFields
  <2>2. Up(f, f.answer).dir = "up"
    BY <1>0, UpFields
  <2>3. Cut(f).dir = "up"
    BY <1>0, CutFields
  <2>4. QED
    BY <2>1, <2>2, <2>3
<1>3. asked.via = f.via /\ asked.at = f.at + 1 /\ asked.dir = "down"
  BY <1>0 DEF Down, FrameFields
<1>4. again.via = f.via /\ again.at = f.at + 1 /\ again.dir = "down"
  BY <1>0 DEF Down, FrameFields
<1>5. nap.via = f.via /\ nap.at = f.at
  BY <1>0 DEF FrameFields
<1>6. \/ Move(g, Down(f)) \/ Move(g, asked) \/ Move(g, nap) \/ Move(g, again)
      \/ Move(g, Up(f, f.answer)) \/ Move(g, Cut(f))
  BY DEF Descend, Retry, RetrySleep
<1> HIDE DEF f, asked, nap, again
<1>7. PacingPc(f) = "idle"
  BY <1>0, <1>1, AbovePacing
<1>8. PacingPc(Down(f)) = "idle" /\ PacingPc(asked) = "idle" /\ PacingPc(again) = "idle"
  BY <1>0, <1>1, <1>2, <1>3, <1>4, AbovePacing
<1>9. PacingPc(nap) = "idle"
  BY <1>0, <1>1, <1>5, AbovePacing
<1>10. PacingPc(Up(f, f.answer)) = "idle" /\ PacingPc(Cut(f)) = "idle"
  BY <1>2, Elsewhere
<1>11. QED
  BY <1>0, <1>6, <1>7, <1>8, <1>9, <1>10, Calm DEF f

(* A request starts above pacing. *)
LEMMA CallCalm ==
    ASSUME Inv, NEW g \in Callers, NEW m, Call(g, m)
    PROVE  UNCHANGED Paced!vars
<1> DEFINE n == [Idle EXCEPT !.dir = "down", !.at = 1, !.method = m,
                            !.auth = kernel.token]
<1>1. /\ kernel.built /\ OptionsInv /\ KernelInv /\ Move(g, n)
      /\ UNCHANGED <<construction, pacing>> /\ PacingPc(frame[g]) = "idle"
  BY Elsewhere DEF Call, Inv
<1>2. n.via = "client" /\ n.at = 1
  BY DEF Idle
<1> HIDE DEF n
<1>3. PacingPc(n) = "idle"
  BY <1>1, <1>2, NearTop
<1>4. QED
  BY <1>1, <1>3, Calm

(* That a context has ended is noticed later. *)
LEMMA ContextCalm ==
    ASSUME Inv, NEW g \in Callers, NEW how, ContextEnds(g, how)
    PROVE  UNCHANGED Paced!vars
<1> DEFINE f == frame[g]
           n == [f EXCEPT !.ctx = how]
<1>1. Move(g, n) /\ UNCHANGED <<construction, pacing>> /\ DOMAIN f = FrameFields
  BY DEF ContextEnds, Inv, FrameInv, Placed
<1>2. n.dir = f.dir /\ n.via = f.via /\ n.at = f.at
  BY <1>1 DEF FrameFields
<1> HIDE DEF n
<1>3. PacingPc(n) = PacingPc(f)
  BY <1>2 DEF PacingPc, At, Layers
<1>4. QED
  BY <1>1, <1>3, Calm

(* New and the options run before the first request; the prober has its own *)
(* clock.                                                                   *)
LEMMA StillCalm ==
    ASSUME Inv, Option \/ New \/ CooldownEnds \/ WindowEnds
    PROVE  UNCHANGED Paced!vars
<1>1. CASE Option \/ New
  <2>1. ~kernel.built /\ UNCHANGED <<frame, pacing>>
    BY <1>1 DEF Option, New, Apply, WithPAT, WithUserAgent, WithoutRateLimit, WithoutRetry,
       WithETagCache, WithAuthTokenFromEnv, WithBaseURL, WithHTTPClient, WithTimeout,
       WithRateLimitOptions, WithSecondaryPacing, WithRetryOptions
  <2>2. \A g \in Callers : frame[g] = Idle /\ frame'[g] = Idle
    BY <2>1 DEF Inv, KernelInv
  <2>3. \A g \in Callers : PacingPc(frame[g]) = "idle" /\ PacingPc(frame[g])' = "idle"
    BY <2>2, IdleFields DEF PacingPc
  <2>4. pacedPc' = pacedPc
    BY <2>3 DEF pacedPc
  <2>5. QED
    BY <2>1, <2>4 DEF Paced!vars, pacing
<1>2. CASE CooldownEnds \/ WindowEnds
  <2>1. UNCHANGED <<construction, frame, pacing>>
    BY <1>2 DEF CooldownEnds, WindowEnds
  <2>2. pacedPc' = pacedPc
    BY <2>1 DEF pacedPc, PacingPc, At, Layers, construction
  <2>3. QED
    BY <2>1, <2>2 DEF Paced!vars, pacing
<1>3. QED
  BY <1>1, <1>2

(* A goroutine that moves is the only one whose place in pacing changes. *)
LEMMA Moved ==
    ASSUME Inv, NEW g \in Callers, NEW n, Move(g, n), UNCHANGED construction
    PROVE  pacedPc' = [pacedPc EXCEPT ![g] = PacingPc(n)]
<1>1. frame'[g] = n /\ \A h \in Callers \ {g} : frame'[h] = frame[h]
  BY DEF Inv, Move
<1>2. ASSUME NEW h \in Callers, NEW m, frame'[h] = m PROVE PacingPc(frame[h])' = PacingPc(m)
  BY <1>2 DEF PacingPc, At, Layers, construction
<1>3. PacingPc(frame[g])' = PacingPc(n)
  BY <1>1, <1>2
<1>4. ASSUME NEW h \in Callers \ {g} PROVE PacingPc(frame[h])' = PacingPc(frame[h])
  BY <1>1, <1>2
<1>5. QED
  BY <1>3, <1>4 DEF pacedPc

(* The last layer is the base transport. *)
LEMMA LastIsBase ==
    ASSUME NEW S, NEW o, EndsInBase(S, o)
    PROVE  Len(S) \in DOMAIN S /\ S[Len(S)] = "base"
<1>1. Len(S) \in Nat /\ Len(S) >= 3 /\ DOMAIN S = 1 .. Len(S)
  BY DEF EndsInBase
<1>2. Len(S) \in 1 .. Len(S)
  BY <1>1
<1>3. QED
  BY <1>1, <1>2 DEF EndsInBase

(* Entering pacing is Reserve. *)
LEMMA PaceReserves ==
    ASSUME Inv, NEW g \in Callers, Pace(g)
    PROVE  Paced!Reserve(g)
<1> DEFINE f == frame[g]
           nap == [f EXCEPT !.dir = "sleep"]
<1>0. /\ OptionsInv /\ KernelInv /\ Placed(f) /\ DOMAIN f = FrameFields
      /\ f.dir = "down" /\ At(f, "pacing") /\ UNCHANGED construction
  BY DEF Inv, FrameInv, Placed, Pace
<1>1. kernel.built /\ EndsInBase(Layers(f), options) /\ f.at \in 1 .. Len(Layers(f))
      /\ Layers(f)[f.at] = "pacing"
  BY <1>0, AtBelow, StackShape DEF Placed, At
<1>2. options.SecondaryPacing > 0 /\ options.SecondaryPacing = Interval
      /\ f.at + 1 = Len(Layers(f)) /\ ~At(f, "base")
  BY <1>0, <1>1, KernelAssumption DEF EndsInBase, OptionsInv, At
<1>3. nap.via = f.via /\ nap.at = f.at /\ nap.dir = "sleep"
  BY <1>0 DEF FrameFields
<1>4. Down(f).via = f.via /\ Down(f).at = f.at + 1 /\ Down(f).dir = "down"
  BY <1>0, DownFields
<1>5. Move(g, IF reserved > 0 THEN nap ELSE Down(f))
  BY DEF Pace
<1>6. PacingPc(f) = "idle"
  BY <1>0, <1>2 DEF PacingPc
<1> HIDE DEF f, nap
<1>7. PacingPc(nap) = "sleep"
  BY <1>0, <1>2, <1>3, SameLayers DEF PacingPc
<1>8. At(Down(f), "base")
  <2> DEFINE S == Layers(f)
  <2>1. Layers(Down(f)) = S
    BY <1>4, SameLayers
  <2>2. EndsInBase(S, options) /\ f.at + 1 = Len(S)
    BY <1>1, <1>2
  <2> HIDE DEF S
  <2>3. Len(S) \in DOMAIN S /\ S[Len(S)] = "base"
    BY <2>2, LastIsBase
  <2>4. QED
    BY <1>4, <2>1, <2>2, <2>3 DEF At
<1>9. PacingPc(Down(f)) = "send"
  BY <1>2, <1>4, <1>8 DEF PacingPc
<1>10. pacedPc' = [pacedPc EXCEPT ![g] = IF reserved > 0 THEN "sleep" ELSE "send"]
  BY <1>0, <1>5, <1>7, <1>9, Moved
<1>11. pacedPc[g] = "idle"
  BY <1>6 DEF pacedPc, f
<1>12. QED
  BY <1>2, <1>10, <1>11, KernelAssumption DEF Pace, Paced!Reserve, Paced!NextSlot

(* Leaving it is Wake, or Cancel when the context has ended. *)
LEMMA PaceSleepWakes ==
    ASSUME Inv, NEW g \in Callers, PaceSleep(g)
    PROVE  Paced!Wake(g) \/ Paced!Cancel(g)
<1> DEFINE f == frame[g]
           cut == [Cut(f) EXCEPT !.answer.err = Wrapped(@)]
<1>0. /\ OptionsInv /\ KernelInv /\ Placed(f) /\ DOMAIN f = FrameFields
      /\ f.dir = "sleep" /\ At(f, "pacing") /\ UNCHANGED <<construction, reserved, quiet>>
  BY DEF Inv, FrameInv, Placed, PaceSleep
<1>1. kernel.built /\ EndsInBase(Layers(f), options) /\ f.at \in 1 .. Len(Layers(f))
      /\ Layers(f)[f.at] = "pacing"
  BY <1>0, AtBelow, StackShape DEF Placed, At
<1>2. options.SecondaryPacing > 0 /\ f.at + 1 = Len(Layers(f))
  BY <1>0, <1>1, KernelAssumption DEF EndsInBase, OptionsInv
<1>3. PacingPc(f) = "sleep"
  BY <1>0, <1>2 DEF PacingPc
<1>4. pacedPc[g] = "sleep"
  BY <1>3 DEF pacedPc
<1>5. Down(f).via = f.via /\ Down(f).at = f.at + 1 /\ Down(f).dir = "down"
  BY <1>0, DownFields
<1>6. cut.dir = "up"
  <2>1. DOMAIN Cut(f) = FrameFields /\ Cut(f).dir = "up"
    BY <1>0, CutFields
  <2>2. QED
    BY <2>1 DEF FrameFields
<1>7. \/ wait[g] = 0 /\ Move(g, Down(f)) /\ UNCHANGED <<wait, late>>
      \/ /\ Move(g, cut)
         /\ wait' = [wait EXCEPT ![g] = 0] /\ late' = [late EXCEPT ![g] = 0]
  BY DEF PaceSleep
<1> HIDE DEF f, cut
<1>8. At(Down(f), "base")
  <2> DEFINE S == Layers(f)
  <2>1. Layers(Down(f)) = S
    BY <1>5, SameLayers
  <2>2. EndsInBase(S, options) /\ f.at + 1 = Len(S)
    BY <1>1, <1>2
  <2> HIDE DEF S
  <2>3. Len(S) \in DOMAIN S /\ S[Len(S)] = "base"
    BY <2>2, LastIsBase
  <2>4. QED
    BY <1>5, <2>1, <2>2, <2>3 DEF At
<1>9. PacingPc(Down(f)) = "send" /\ PacingPc(cut) = "idle"
  BY <1>2, <1>5, <1>6, <1>8 DEF PacingPc
<1>10. CASE wait[g] = 0 /\ Move(g, Down(f)) /\ UNCHANGED <<wait, late>>
  <2>1. pacedPc' = [pacedPc EXCEPT ![g] = "send"]
    BY <1>0, <1>9, <1>10, Moved
  <2>2. QED
    BY <1>0, <1>4, <1>10, <2>1 DEF Paced!Wake
<1>11. CASE /\ Move(g, cut)
            /\ wait' = [wait EXCEPT ![g] = 0] /\ late' = [late EXCEPT ![g] = 0]
  <2>1. pacedPc' = [pacedPc EXCEPT ![g] = "idle"]
    BY <1>0, <1>9, <1>11, Moved
  <2>2. QED
    BY <1>0, <1>4, <1>11, <2>1 DEF Paced!Cancel
<1>12. QED
  BY <1>7, <1>10, <1>11

(* Reaching the base transport is Send; without pacing it is nothing. *)
LEMMA BaseSends ==
    ASSUME Inv, NEW g \in Callers, Base(g)
    PROVE  Paced!Send(g) \/ UNCHANGED Paced!vars
<1> DEFINE f == frame[g]
           n == [f EXCEPT !.dir = "flight", !.sent = @ + 1]
<1>0. /\ OptionsInv /\ DOMAIN f = FrameFields /\ f.dir = "down" /\ At(f, "base")
      /\ Move(g, n) /\ UNCHANGED <<construction, reserved, wait>>
      /\ IF options.SecondaryPacing > 0
         THEN quiet' = 0 /\ late' = [late EXCEPT ![g] = 0]
         ELSE UNCHANGED <<quiet, late>>
  BY DEF Inv, FrameInv, Placed, Base
<1>1. n.dir = "flight"
  BY <1>0 DEF FrameFields
<1> HIDE DEF n
<1>2. PacingPc(n) = "idle"
  BY <1>1, Elsewhere
<1>3. CASE options.SecondaryPacing = 0
  <2>1. PacingPc(f) = "idle"
    BY <1>3 DEF PacingPc
  <2>2. UNCHANGED pacing
    BY <1>0, <1>3 DEF pacing
  <2>3. QED
    BY <1>0, <1>2, <2>1, <2>2, Calm
<1>4. CASE options.SecondaryPacing > 0
  <2>1. PacingPc(f) = "send"
    BY <1>0, <1>4 DEF PacingPc
  <2>2. pacedPc[g] = "send"
    BY <2>1 DEF pacedPc
  <2>3. pacedPc' = [pacedPc EXCEPT ![g] = "idle"]
    BY <1>0, <1>2, Moved
  <2>4. QED
    BY <1>0, <1>4, <2>2, <2>3 DEF Paced!Send
<1>5. QED
  BY <1>0, <1>3, <1>4, KernelAssumption DEF OptionsInv

(* The clock of the kernel is the clock of Pacing. *)
LEMMA TickTicks ==
    ASSUME Inv, Tick
    PROVE  Paced!Tick
<1>1. UNCHANGED <<construction, frame>> /\ options.SecondaryPacing > 0
  BY DEF Tick
<1>2. pacedPc' = pacedPc
  BY <1>1 DEF pacedPc, PacingPc, At, Layers, construction
<1>3. ASSUME NEW g \in Callers PROVE Paced!Due(g) <=> Due(g)
  <2>1. options.SecondaryPacing # 0
    BY <1>1, KernelAssumption DEF Inv, OptionsInv
  <2>2. pacedPc[g] = PacingPc(frame[g])
    BY DEF pacedPc
  <2>3. QED
    BY <2>1, <2>2 DEF Paced!Due, Due, PacingPc
<1>4. /\ \A g \in Callers : Paced!Due(g) => late[g] < Lag
      /\ late' = [g \in Callers |-> IF Paced!Due(g) THEN late[g] + 1 ELSE late[g]]
  BY <1>3 DEF Tick
<1>5. QED
  BY <1>2, <1>4 DEF Tick, Paced!Tick, Paced!Before

(* Every step of the kernel is a step of Pacing, or none. *)
LEMMA PacedStep ==
    ASSUME Inv, [Next]_vars
    PROVE  [Paced!Next]_(Paced!vars)
<1> DEFINE Goal == [Paced!Next]_(Paced!vars)
<1>1. CASE UNCHANGED vars
  <2>1. pacedPc' = pacedPc
    BY <1>1 DEF vars, pacedPc, PacingPc, At, Layers, construction
  <2>2. QED
    BY <1>1, <2>1 DEF vars, pacing, Paced!vars
<1>2. CASE Option \/ New \/ CooldownEnds \/ WindowEnds
  BY <1>2, StillCalm
<1>3. CASE Tick
  BY <1>3, TickTicks DEF Paced!Next
<1>4. ASSUME NEW g \in Callers, Enter(g) PROVE Goal
  <2>1. CASE RefreshRateLimit(g)
    BY <2>1, Above
  <2>2. ASSUME NEW m \in Methods, Call(g, m) PROVE Goal
    BY <2>2, CallCalm
  <2>3. QED
    BY <1>4, <2>1, <2>2 DEF Enter
<1>5. ASSUME NEW g \in Callers, RoundTrip(g) PROVE Goal
  <2>1. CASE Gate(g) \/ GateSleep(g) \/ Probe(g) \/ ProbeAnswered(g)
    BY <2>1, GateCalm
  <2>2. CASE Descend(g) \/ Retry(g) \/ RetrySleep(g)
    BY <2>2, RetryCalm
  <2>3. CASE Feed(g) \/ ETag(g) \/ Ascend(g) \/ Answered(g) \/ Unanswered(g) \/ Return(g)
    BY <2>3, Above
  <2>4. CASE Pace(g)
    BY <2>4, PaceReserves DEF Paced!Next, Paced!RoundTrip
  <2>5. CASE PaceSleep(g)
    BY <2>5, PaceSleepWakes DEF Paced!Next, Paced!RoundTrip
  <2>6. CASE Base(g)
    BY <2>6, BaseSends DEF Paced!Next, Paced!RoundTrip
  <2>7. QED
    BY <1>5, <2>1, <2>2, <2>3, <2>4, <2>5, <2>6 DEF RoundTrip
<1>6. ASSUME NEW g \in Callers, Wrap(g) \/ Classify(g) PROVE Goal
  BY <1>6, Above
<1>7. ASSUME NEW g \in Callers, NEW how \in Endings, ContextEnds(g, how) PROVE Goal
  BY <1>7, ContextCalm
<1>8. QED
  BY <1>1, <1>2, <1>3, <1>4, <1>5, <1>6, <1>7 DEF Next

(* Every attempt, of requests, retries and probes, goes through pacing, and *)
(* nothing the layers above it do gets in its way (client.go:66-67): the    *)
(* kernel implements Pacing, whatever the options.                          *)
THEOREM AttemptsArePaced == Spec => EveryAttemptPaced
<1>1. QED
  BY PacedInit, PacedStep, Invariance, PTL DEF Spec, EveryAttemptPaced, Paced!Spec

(* What is proved of Pacing, for the attempts of the kernel. *)
Slots == INSTANCE PacingProofs WITH
    Requests <- Callers, interval <- Interval, Cancels <- TRUE,
    pc <- pacedPc

(* With pacing on, an attempt leaves for the wire no less than an interval  *)
(* less Lag after the one before it, whether they are requests, retries or  *)
(* probes, of one goroutine or of several, whichever of them are cancelled  *)
(* and however many run up to Lag ticks late (secondary.go:10-11,           *)
(* client.go:66-67): StartsSpaced of Pacing, carried over by                *)
(* AttemptsArePaced.                                                        *)
THEOREM AttemptsApart ==
    Spec => [][\A g \in Callers :
                  /\ options.SecondaryPacing > 0
                  /\ frame[g].dir = "down" /\ At(frame[g], "base")
                  /\ frame'[g].dir = "flight"
                  => quiet >= Interval - Lag]_vars
<1>1. Paced!Init => Slots!Init
  BY DEF Paced!Init, Slots!Init
<1>2. [Paced!Next]_(Paced!vars) => [Slots!Next]_(Slots!vars)
  BY DEF Paced!Next, Paced!vars, Paced!Tick, Paced!RoundTrip, Paced!Reserve,
     Paced!NextSlot, Paced!Wake, Paced!Cancel, Paced!Send, Paced!Due, Paced!Before,
     Slots!Next, Slots!vars, Slots!Tick, Slots!RoundTrip, Slots!Reserve,
     Slots!NextSlot, Slots!Wake, Slots!Cancel, Slots!Send, Slots!Due, Slots!Before
<1>3. Slots!Spec => Slots!StartsSpaced
  BY KernelAssumption, Slots!StartsAreSpaced
<1>4. [(\E r \in Callers : pacedPc[r] = "send" /\ pacedPc'[r] # "send")
       => quiet >= Interval - Lag]_(Slots!vars)
      => [\A g \in Callers :
             /\ options.SecondaryPacing > 0
             /\ frame[g].dir = "down" /\ At(frame[g], "base")
             /\ frame'[g].dir = "flight"
             => quiet >= Interval - Lag]_vars
  <2> SUFFICES ASSUME [(\E r \in Callers : pacedPc[r] = "send" /\ pacedPc'[r] # "send")
                       => quiet >= Interval - Lag]_(Slots!vars),
                      NEW g \in Callers, options.SecondaryPacing > 0,
                      frame[g].dir = "down", At(frame[g], "base"),
                      frame'[g].dir = "flight"
               PROVE  quiet >= Interval - Lag
    OBVIOUS
  <2>1. pacedPc[g] = "send"
    BY DEF pacedPc, PacingPc
  <2>2. pacedPc'[g] # "send"
    BY DEF pacedPc, PacingPc
  <2>3. pacedPc' # pacedPc
    BY <2>1, <2>2
  <2>4. QED
    BY <2>1, <2>2, <2>3 DEF Slots!vars
<1>5. QED
  BY <1>1, <1>2, <1>3, <1>4, AttemptsArePaced, PTL
     DEF EveryAttemptPaced, Paced!Spec, Slots!Spec, Slots!StartsSpaced

=============================================================================
