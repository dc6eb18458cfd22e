---------------------------- MODULE ErrorsProofs ------------------------------
(***************************************************************************)
(* Proofs about ClassifyError, for every error chain over the types it can *)
(* meet, of any length.                                                    *)
(*                                                                         *)
(* Both errors.AsType and errors.Is are described by what they do on one   *)
(* layer put on top of a chain (AsTypeCons, IsCons).  Wrapping is such a   *)
(* layer, so it changes neither; and ClassifyError, which puts a           *)
(* StatusError on top of a suffix, finds in its result what it put there.  *)
(* No induction over the chain is needed.  The second half (Names, OneSDK) *)
(* says what single errors classify as, for KernelProofs.                  *)
(***************************************************************************)
EXTENDS Errors, WellFoundedInduction, TLAPS

(* The errors of go-github that a chain may hold. *)
SDKTypes == {"ErrorResponse", "RateLimitError", "AbuseRateLimitError"}

(* All that ClassifyError can meet: the SDK's, those of the standard        *)
(* library and of the kit.                                                  *)
ErrorTypes ==
    {"fmt", "url.Error", "net.Error", "Canceled", "DeadlineExceeded",
     "StatusError", "sentinel", "resetTooFarError"} \cup SDKTypes

(* The sentinels of errors.go; "none" is no sentinel. *)
SentinelNames ==
    {"ErrAuthRequired", "ErrForbidden", "ErrRateLimited", "ErrNotFound",
     "ErrAPIUnavailable", "none"}
ErrorLayers ==
    [type : ErrorTypes, status : Int, exhausted : BOOLEAN,
     sentinel : SentinelNames]

(* An error is any finite chain of such layers; <<>> is nil. *)
Chains == Seq(ErrorLayers)

(* The least element of a set of numbers is in it. *)
LEMMA MinIsLeast ==
    ASSUME NEW S \in SUBSET Nat, S # {}
    PROVE  Min(S) \in S /\ \A n \in S : Min(S) <= n
<1>1. PICK x \in S : \A y \in S : <<y, x>> \notin OpToRel(<, Nat)
  BY NatLessThanWellFounded, WFMin, Zenon
<1>2. \A y \in S : x <= y
  <2>1. ASSUME NEW y \in S, y < x PROVE FALSE
    BY <1>1, <2>1 DEF OpToRel
  <2>2. QED
    BY <2>1
<1>3. QED
  BY <1>2 DEF Min

(* errors.AsType finds the first layer of one of the types, or nothing when *)
(* the chain has none.                                                      *)
LEMMA AsTypeIs ==
    ASSUME NEW err \in Chains, NEW types
    PROVE  \/ /\ AsType(err, types) = <<>>
              /\ \A j \in 1 .. Len(err) : err[j].type \notin types
           \/ \E i \in 1 .. Len(err) :
                 /\ AsType(err, types) = SubSeq(err, i, Len(err))
                 /\ err[i].type \in types
                 /\ \A j \in 1 .. i - 1 : err[j].type \notin types
<1> DEFINE I == {i \in 1 .. Len(err) : err[i].type \in types}
<1> DEFINE sel == SelectInSeq(err, LAMBDA layer : layer.type \in types)
<1>a. AsType(err, types) = IF sel = 0 THEN <<>> ELSE SubSeq(err, sel, Len(err))
  BY DEF AsType
<1>b. sel = IF I # {} THEN Min(I) ELSE 0
  BY DEF SelectInSeq
<1> HIDE DEF sel
<1>c. I \in SUBSET Nat /\ 0 \notin I
  OBVIOUS
<1>1. AsType(err, types) = IF I = {} THEN <<>> ELSE SubSeq(err, Min(I), Len(err))
  BY <1>a, <1>b, <1>c, MinIsLeast
<1>2. CASE I = {}
  BY <1>1, <1>2
<1>3. CASE I # {}
  <2>1. Min(I) \in I /\ \A n \in I : Min(I) <= n
    BY <1>3, <1>c, MinIsLeast
  <2> DEFINE i == Min(I)
  <2>2. \A j \in 1 .. i - 1 : err[j].type \notin types
    <3>1. \A j \in 1 .. i - 1 : j \in 1 .. Len(err) /\ ~(i <= j)
      BY <2>1
    <3>2. QED
      BY <2>1, <3>1
  <2>3. QED
    BY <1>1, <1>3, <2>1, <2>2
<1>4. QED
  BY <1>2, <1>3

(* The layers that the kit and its libraries make are layers. *)
LEMMA LayerType ==
    /\ \A t \in ErrorTypes : Layer(t) \in ErrorLayers
    /\ \A t \in ErrorTypes, s \in Int, x \in BOOLEAN : ResponseLayer(t, s, x) \in ErrorLayers
BY DEF Layer, ResponseLayer, ErrorLayers, SentinelNames

(* Putting a layer on top of a chain shifts the rest by one. *)
LEMMA ConsType ==
    ASSUME NEW x \in ErrorLayers, NEW err \in Chains
    PROVE  /\ <<x>> \o err \in Chains
           /\ Len(<<x>> \o err) = Len(err) + 1
           /\ (<<x>> \o err)[1] = x
           /\ \A j \in 1 .. Len(err) : (<<x>> \o err)[j + 1] = err[j]
BY DEF Chains

(* fmt.Errorf with %w makes an error of an error. *)
LEMMA WrappedType ==
    ASSUME NEW err \in Chains
    PROVE  Wrapped(err) \in Chains /\ Wrapped(err) # <<>>
<1>1. Layer("fmt") \in ErrorLayers
  BY LayerType DEF ErrorTypes
<1>2. QED
  BY <1>1, ConsType DEF Wrapped, Chains

(* What errors.AsType returns is a chain whose first error has the type; it *)
(* is nil exactly when no layer has.                                        *)
LEMMA AsTypeType ==
    ASSUME NEW err \in Chains, NEW types
    PROVE  /\ AsType(err, types) \in Chains
           /\ AsType(err, types) # <<>> => AsType(err, types)[1].type \in types
           /\ AsType(err, types) # <<>> <=> \E j \in 1 .. Len(err) : err[j].type \in types
<1>1. CASE /\ AsType(err, types) = <<>>
           /\ \A j \in 1 .. Len(err) : err[j].type \notin types
  BY <1>1 DEF Chains
<1>2. ASSUME NEW i \in 1 .. Len(err),
             AsType(err, types) = SubSeq(err, i, Len(err)),
             err[i].type \in types
      PROVE  /\ AsType(err, types) \in Chains
             /\ AsType(err, types) # <<>>
             /\ AsType(err, types)[1].type \in types
  <2>1. /\ SubSeq(err, i, Len(err)) \in Chains
        /\ Len(SubSeq(err, i, Len(err))) = Len(err) - i + 1
        /\ SubSeq(err, i, Len(err))[1] = err[i]
        /\ Len(err) - i + 1 # 0
    BY DEF Chains
  <2>2. Len(<<>>) = 0
    OBVIOUS
  <2>3. QED
    BY <1>2, <2>1, <2>2
<1>3. QED
  BY <1>1, <1>2, AsTypeIs

(* errors.AsType looks at the outermost layer first. *)
LEMMA AsTypeCons ==
    ASSUME NEW x \in ErrorLayers, NEW err \in Chains, NEW types
    PROVE  AsType(<<x>> \o err, types) =
              IF x.type \in types THEN <<x>> \o err ELSE AsType(err, types)
<1> DEFINE all == <<x>> \o err
<1>1. /\ all \in Chains /\ Len(all) = Len(err) + 1 /\ all[1] = x
      /\ \A j \in 1 .. Len(err) : all[j + 1] = err[j]
  BY ConsType
<1>2. \A j \in 2 .. Len(all) : all[j] = err[j - 1] /\ j - 1 \in 1 .. Len(err)
  BY DEF Chains
<1>3. Len(err) \in Nat
  BY DEF Chains
<1>4. ASSUME NEW i \in 1 .. Len(err)
      PROVE  SubSeq(all, i + 1, Len(all)) = SubSeq(err, i, Len(err))
  BY DEF Chains
<1>5. SubSeq(all, 1, Len(all)) = all
  BY <1>1 DEF Chains
<1> HIDE DEF all
<1>6. CASE \A j \in 1 .. Len(all) : all[j].type \notin types
  <2>1. x.type \notin types /\ \A j \in 1 .. Len(err) : err[j].type \notin types
    BY <1>1, <1>3, <1>6
  <2>2. AsType(all, types) = <<>> /\ AsType(err, types) = <<>>
    BY <1>1, <1>6, <2>1, AsTypeType
  <2>3. QED
    BY <2>1, <2>2 DEF all
<1>7. ASSUME NEW i \in 1 .. Len(all), AsType(all, types) = SubSeq(all, i, Len(all)),
             all[i].type \in types, \A j \in 1 .. i - 1 : all[j].type \notin types
      PROVE  AsType(all, types) = IF x.type \in types THEN all ELSE AsType(err, types)
  <2>1. CASE i = 1
    BY <1>1, <1>5, <1>7, <2>1
  <2>2. CASE i > 1
    <3>1. x.type \notin types
      BY <1>1, <1>7, <2>2
    <3>2. err[i - 1].type \in types /\ i - 1 \in 1 .. Len(err)
      BY <1>2, <1>7, <2>2
    <3>3. \A j \in 1 .. i - 2 : err[j].type \notin types
      <4>1. \A j \in 1 .. i - 2 : j + 1 \in 1 .. i - 1 /\ all[j + 1] = err[j]
        BY <1>1, <1>3, <3>2
      <4>2. QED
        BY <1>7, <4>1
    <3>4. PICK k \in 1 .. Len(err) :
             /\ AsType(err, types) = SubSeq(err, k, Len(err))
             /\ err[k].type \in types
             /\ \A j \in 1 .. k - 1 : err[j].type \notin types
      BY <3>2, AsTypeIs
    <3>5. k = i - 1
      <4>1. ~(k < i - 1)
        BY <3>2, <3>3, <3>4
      <4>2. ~(i - 1 < k)
        BY <3>2, <3>4
      <4>3. QED
        BY <3>2, <4>1, <4>2
    <3>6. SubSeq(all, (i - 1) + 1, Len(all)) = SubSeq(err, i - 1, Len(err))
      BY <1>4, <3>2
    <3>7. (i - 1) + 1 = i
      OBVIOUS
    <3>8. QED
      BY <1>7, <3>1, <3>4, <3>5, <3>6, <3>7
  <2>3. QED
    BY <2>1, <2>2
<1>8. QED
  BY <1>1, <1>6, <1>7, AsTypeIs DEF all

(* Searching what was found finds it again, and nothing that the whole      *)
(* chain did not have.                                                      *)
LEMMA AsTypeSuffix ==
    ASSUME NEW err \in Chains, NEW types, NEW others
    PROVE  /\ AsType(AsType(err, types), types) = AsType(err, types)
           /\ AsType(err, others) = <<>> => AsType(AsType(err, types), others) = <<>>
<1>1. CASE AsType(err, types) = <<>>
  <2>1. <<>> \in Chains /\ Len(<<>>) = 0
    BY DEF Chains
  <2>2. AsType(<<>>, types) = <<>> /\ AsType(<<>>, others) = <<>>
    BY <2>1, AsTypeType
  <2>3. QED
    BY <1>1, <2>2
<1>2. ASSUME NEW i \in 1 .. Len(err),
             AsType(err, types) = SubSeq(err, i, Len(err)),
             err[i].type \in types
      PROVE  /\ AsType(AsType(err, types), types) = AsType(err, types)
             /\ AsType(err, others) = <<>> => AsType(AsType(err, types), others) = <<>>
  <2> DEFINE tail == SubSeq(err, i, Len(err))
  <2>1. /\ tail \in Chains /\ Len(tail) = Len(err) - i + 1
        /\ \A j \in 1 .. Len(err) - i + 1 : tail[j] = err[i + j - 1]
    BY DEF Chains
  <2>2. Len(err) \in Nat /\ i \in Nat /\ i <= Len(err) /\ i >= 1
    BY DEF Chains
  <2>3. SubSeq(tail, 1, Len(tail)) = tail
    BY <2>1 DEF Chains
  <2> HIDE DEF tail
  <2>8. Len(tail) >= 1 /\ Len(tail) \in Nat
    BY <2>1, <2>2
  <2>9. tail[1] = err[i]
    BY <2>1, <2>2
  <2>10. \A j \in 1 .. Len(tail) : tail[j] = err[i + j - 1] /\ i + j - 1 \in 1 .. Len(err)
    BY <2>1, <2>2
  <2>11. \/ /\ AsType(tail, types) = <<>>
            /\ \A j \in 1 .. Len(tail) : tail[j].type \notin types
         \/ \E k \in 1 .. Len(tail) :
             /\ AsType(tail, types) = SubSeq(tail, k, Len(tail))
             /\ \A j \in 1 .. k - 1 : tail[j].type \notin types
    BY <2>1, AsTypeIs
  <2>12. PICK k \in 1 .. Len(tail) :
             /\ AsType(tail, types) = SubSeq(tail, k, Len(tail))
             /\ \A j \in 1 .. k - 1 : tail[j].type \notin types
    BY <1>2, <2>8, <2>9, <2>11
  <2>4. k = 1
    BY <1>2, <2>8, <2>9, <2>12
  <2>5. AsType(tail, types) = tail
    BY <2>3, <2>4, <2>12
  <2>6. ASSUME AsType(err, others) = <<>> PROVE AsType(tail, others) = <<>>
    BY <2>1, <2>6, <2>10, AsTypeType
  <2>7. QED
    BY <1>2, <2>5, <2>6 DEF tail
<1>3. QED
  BY <1>1, <1>2, AsTypeIs

(* A StatusError classifies as itself and hides none of the types below it. *)
LEMMA StatusErrorType ==
    ASSUME NEW s \in SentinelNames, NEW n \in Int, NEW c \in Chains
    PROVE  /\ StatusError(s, n, c) \in Chains
           /\ ClassifyError(StatusError(s, n, c)) = StatusError(s, n, c)
           /\ \A t : t # "StatusError" =>
                 AsType(StatusError(s, n, c), {t}) = AsType(c, {t})
<1> DEFINE x == [type |-> "StatusError", status |-> n, exhausted |-> FALSE, sentinel |-> s]
<1>1. x \in ErrorLayers
  BY DEF ErrorLayers, ErrorTypes
<1>2. x.type = "StatusError" /\ StatusError(s, n, c) = <<x>> \o c
  BY DEF StatusError
<1> HIDE DEF x
<1>3. <<x>> \o c \in Chains /\ <<x>> \o c # <<>>
  BY <1>1, ConsType DEF Chains
<1>4. AsType(<<x>> \o c, {"StatusError"}) = <<x>> \o c
  BY <1>1, <1>2, AsTypeCons
<1>5. ASSUME NEW t, t # "StatusError" PROVE AsType(<<x>> \o c, {t}) = AsType(c, {t})
  BY <1>1, <1>2, <1>5, AsTypeCons
<1>6. QED
  BY <1>2, <1>3, <1>4, <1>5 DEF ClassifyError

(* A response's sentinel is one of the sentinels or none. *)
LEMMA SentinelOfType ==
    ASSUME NEW x \in ErrorLayers
    PROVE  SentinelOf(x) \in SentinelNames
BY DEF SentinelOf, SentinelNames, ErrorLayers

(* ClassifyError returns a chain. *)
LEMMA ClassifiedType ==
    ASSUME NEW err \in Chains
    PROVE  ClassifyError(err) \in Chains
<1> DEFINE limited  == AsType(err, {"RateLimitError"})
           abused   == AsType(err, {"AbuseRateLimitError"})
           response == AsType(err, {"ErrorResponse"})
<1>1. limited \in Chains /\ abused \in Chains /\ response \in Chains
  BY AsTypeType
<1>2. ASSUME NEW c \in Chains, c # <<>> PROVE c[1] \in ErrorLayers
  BY <1>2 DEF Chains
<1>3. ASSUME NEW c \in Chains, c # <<>>
      PROVE  classifyRateLimit(c) \in Chains /\ classifyResponseError(c) \in Chains
  <2>1. c[1].status \in Int
    BY <1>2, <1>3 DEF ErrorLayers
  <2>2. SentinelOf(c[1]) \in SentinelNames
    BY <1>2, <1>3, SentinelOfType
  <2>3. QED
    BY <2>1, <2>2, StatusErrorType
       DEF classifyRateLimit, classifyResponseError, SentinelNames
<1>4. StatusError("ErrAPIUnavailable", 0, err) \in Chains
  BY StatusErrorType DEF SentinelNames
<1> HIDE DEF limited, abused, response
<1>5. QED
  BY <1>1, <1>3, <1>4 DEF ClassifyError, limited, abused, response

(* ClassifyError may be applied to its own result: for every error chain,   *)
(* classifying twice gives what classifying once does (errors.go:93-96      *)
(* returns an error that already has a StatusError).                        *)
THEOREM ClassifyIdempotent ==
    ASSUME NEW err \in Chains
    PROVE  ClassifyError(ClassifyError(err)) = ClassifyError(err)
<1> DEFINE limited  == AsType(err, {"RateLimitError"})
           abused   == AsType(err, {"AbuseRateLimitError"})
           response == AsType(err, {"ErrorResponse"})
           again(e) == ClassifyError(e) = e
<1>0. ClassifyError(err) =
        IF err = <<>> \/ AsType(err, {"StatusError"}) # <<>> THEN err
        ELSE IF limited # <<>> THEN classifyRateLimit(limited)
        ELSE IF abused # <<>> THEN classifyRateLimit(abused)
        ELSE IF response # <<>> /\ response[1].status # 0
        THEN classifyResponseError(response)
        ELSE IF AsType(err, {"url.Error"}) # <<>> \/ isNetError(err)
        THEN StatusError("ErrAPIUnavailable", 0, err)
        ELSE err
  BY DEF ClassifyError
<1>1. limited \in Chains /\ abused \in Chains /\ response \in Chains
  BY AsTypeType
<1>2. ASSUME NEW c \in Chains, c # <<>> PROVE c[1] \in ErrorLayers /\ c[1].status \in Int
  <2>1. c[1] \in ErrorLayers
    BY <1>2 DEF Chains
  <2>2. QED
    BY <2>1 DEF ErrorLayers
<1>3. ASSUME NEW c \in Chains, c # <<>> PROVE again(classifyRateLimit(c))
  BY <1>2, <1>3, StatusErrorType DEF classifyRateLimit, SentinelNames
<1>4. again(StatusError("ErrAPIUnavailable", 0, err))
  BY StatusErrorType DEF SentinelNames
<1>5. ASSUME err # <<>>, AsType(err, {"StatusError"}) = <<>>, limited = <<>>, abused = <<>>,
             response # <<>>, response[1].status # 0
      PROVE  again(classifyResponseError(response))
  <2>1. CASE SentinelOf(response[1]) = "none"
    <3>1. classifyResponseError(response) = response
      BY <2>1 DEF classifyResponseError
    <3>2. /\ AsType(response, {"StatusError"}) = <<>>
          /\ AsType(response, {"RateLimitError"}) = <<>>
          /\ AsType(response, {"AbuseRateLimitError"}) = <<>>
          /\ AsType(response, {"ErrorResponse"}) = response
      BY <1>5, AsTypeSuffix
    <3> HIDE DEF response
    <3>3. QED
      BY <1>5, <3>1, <3>2 DEF ClassifyError
  <2>2. CASE SentinelOf(response[1]) # "none"
    <3>1. SentinelOf(response[1]) \in SentinelNames
      BY <1>1, <1>2, <1>5, SentinelOfType
    <3> HIDE DEF response
    <3>2. QED
      BY <1>1, <1>2, <1>5, <2>2, <3>1, StatusErrorType DEF classifyResponseError
  <2>3. QED
    BY <2>1, <2>2
<1> HIDE DEF limited, abused, response
<1> HIDE DEF again
<1>6. CASE err = <<>> \/ AsType(err, {"StatusError"}) # <<>>
  BY <1>0, <1>6 DEF again
<1>7. CASE ~(err = <<>> \/ AsType(err, {"StatusError"}) # <<>>)
  <2>1. CASE limited # <<>>
    BY <1>0, <1>1, <1>3, <1>7, <2>1 DEF again
  <2>2. CASE limited = <<>> /\ abused # <<>>
    BY <1>0, <1>1, <1>3, <1>7, <2>2 DEF again
  <2>3. CASE limited = <<>> /\ abused = <<>> /\ response # <<>> /\ response[1].status # 0
    BY <1>0, <1>5, <1>7, <2>3 DEF again
  <2>4. CASE /\ limited = <<>> /\ abused = <<>>
             /\ ~(response # <<>> /\ response[1].status # 0)
    BY <1>0, <1>4, <1>7, <2>4 DEF again
  <2>5. QED
    BY <2>1, <2>2, <2>3, <2>4
<1>8. QED
  BY <1>6, <1>7

(* errors.Is looks at the outermost layer and at the rest. *)
LEMMA IsCons ==
    ASSUME NEW x \in ErrorLayers, NEW err \in Chains, NEW s
    PROVE  Is(<<x>> \o err, s) <=> x.sentinel = s \/ Is(err, s)
<1> DEFINE all == <<x>> \o err
<1>1. /\ all \in Chains /\ Len(all) = Len(err) + 1 /\ all[1] = x
      /\ \A j \in 1 .. Len(err) : all[j + 1] = err[j]
  BY ConsType
<1>2. /\ DOMAIN all = 1 .. Len(all) /\ DOMAIN err = 1 .. Len(err) /\ Len(err) \in Nat
  BY <1>1 DEF Chains
<1> HIDE DEF all
<1>3. \A j \in 1 .. Len(all) : j = 1 \/ (j - 1 \in 1 .. Len(err) /\ all[j] = err[j - 1])
  BY <1>1, <1>2
<1>4. \A j \in 1 .. Len(err) : j + 1 \in 1 .. Len(all)
  BY <1>1, <1>2
<1>5. 1 \in 1 .. Len(all)
  BY <1>1, <1>2
<1>6. ASSUME Is(all, s) PROVE x.sentinel = s \/ Is(err, s)
  <2>1. PICK j \in 1 .. Len(all) : all[j].sentinel = s
    BY <1>2, <1>6 DEF Is
  <2>2. QED
    BY <1>1, <1>2, <1>3, <2>1 DEF Is
<1>7. ASSUME x.sentinel = s PROVE Is(all, s)
  BY <1>1, <1>2, <1>5, <1>7 DEF Is
<1>8. ASSUME Is(err, s) PROVE Is(all, s)
  <2>1. PICK j \in 1 .. Len(err) : err[j].sentinel = s
    BY <1>2, <1>8 DEF Is
  <2>2. all[j + 1].sentinel = s /\ j + 1 \in DOMAIN all
    BY <1>1, <1>2, <1>4, <2>1
  <2>3. QED
    BY <2>2 DEF Is
<1>9. QED
  BY <1>6, <1>7, <1>8 DEF all

(* A StatusError is its sentinel and everything its cause is. *)
LEMMA StatusErrorIs ==
    ASSUME NEW n \in SentinelNames, NEW c \in Chains, NEW k \in Int, NEW s
    PROVE  Is(StatusError(n, k, c), s) <=> n = s \/ Is(c, s)
<1> DEFINE x == [type |-> "StatusError", status |-> k, exhausted |-> FALSE, sentinel |-> n]
<1>1. x \in ErrorLayers
  BY DEF ErrorLayers, ErrorTypes
<1>2. x.sentinel = n /\ StatusError(n, k, c) = <<x>> \o c
  BY DEF StatusError
<1> HIDE DEF x
<1>3. QED
  BY <1>1, <1>2, IsCons

(* The sentinels themselves. *)
KitSentinels == SentinelNames \ {"none"}

(* The branches of ClassifyError, one implication each. *)
LEMMA ClassifyCases ==
    ASSUME NEW err \in Chains, err # <<>>, AsType(err, {"StatusError"}) = <<>>
    PROVE  LET limited  == AsType(err, {"RateLimitError"})
               abused   == AsType(err, {"AbuseRateLimitError"})
               response == AsType(err, {"ErrorResponse"})
           IN  /\ limited # <<>> => ClassifyError(err) = classifyRateLimit(limited)
               /\ limited = <<>> /\ abused # <<>> =>
                     ClassifyError(err) = classifyRateLimit(abused)
               /\ limited = <<>> /\ abused = <<>> /\ response # <<>>
                  /\ response[1].status # 0 =>
                     ClassifyError(err) = classifyResponseError(response)
               /\ limited = <<>> /\ abused = <<>>
                  /\ ~(response # <<>> /\ response[1].status # 0) =>
                     ClassifyError(err) =
                        IF AsType(err, {"url.Error"}) # <<>> \/ isNetError(err)
                        THEN StatusError("ErrAPIUnavailable", 0, err) ELSE err
BY DEF ClassifyError

(* Two errors in which ClassifyError finds the same things get the same     *)
(* sentinels.                                                               *)
LEMMA SameSentinels ==
    ASSUME NEW err \in Chains, err # <<>>, NEW all \in Chains, all # <<>>,
           AsType(all, {"StatusError"}) = AsType(err, {"StatusError"}),
           AsType(all, {"RateLimitError"}) = AsType(err, {"RateLimitError"}),
           AsType(all, {"AbuseRateLimitError"}) = AsType(err, {"AbuseRateLimitError"}),
           AsType(all, {"ErrorResponse"}) = AsType(err, {"ErrorResponse"}),
           AsType(all, {"url.Error"}) = <<>> <=> AsType(err, {"url.Error"}) = <<>>,
           isNetError(all) <=> isNetError(err),
           NEW s, Is(all, s) <=> Is(err, s)
    PROVE  Is(ClassifyError(all), s) <=> Is(ClassifyError(err), s)
<1> DEFINE limited  == AsType(err, {"RateLimitError"})
           abused   == AsType(err, {"AbuseRateLimitError"})
           response == AsType(err, {"ErrorResponse"})
<1>1. /\ AsType(all, {"StatusError"}) = AsType(err, {"StatusError"})
      /\ AsType(all, {"RateLimitError"}) = limited
      /\ AsType(all, {"AbuseRateLimitError"}) = abused
      /\ AsType(all, {"ErrorResponse"}) = response
  BY DEF SDKTypes
<1>2. /\ Is(StatusError("ErrAPIUnavailable", 0, err), s) <=>
            "ErrAPIUnavailable" = s \/ Is(err, s)
      /\ Is(StatusError("ErrAPIUnavailable", 0, all), s) <=>
            "ErrAPIUnavailable" = s \/ Is(all, s)
  BY StatusErrorIs DEF SentinelNames
<1> HIDE DEF limited, abused, response
<1>3. CASE AsType(err, {"StatusError"}) # <<>>
  <2>1. ClassifyError(err) = err /\ ClassifyError(all) = all
    BY <1>1, <1>3 DEF ClassifyError
  <2>2. QED
    BY <2>1
<1>4. CASE AsType(err, {"StatusError"}) = <<>>
  <2>1. CASE \/ limited # <<>> \/ abused # <<>>
             \/ response # <<>> /\ response[1].status # 0
    <3>1. ClassifyError(all) = ClassifyError(err)
      BY <1>1, <1>4, <2>1, ClassifyCases DEF limited, abused, response
    <3>2. QED
      BY <3>1
  <2>2. CASE /\ limited = <<>> /\ abused = <<>>
             /\ ~(response # <<>> /\ response[1].status # 0)
    <3>1. /\ ClassifyError(err) =
                IF AsType(err, {"url.Error"}) # <<>> \/ isNetError(err)
                THEN StatusError("ErrAPIUnavailable", 0, err) ELSE err
          /\ ClassifyError(all) =
                IF AsType(all, {"url.Error"}) # <<>> \/ isNetError(all)
                THEN StatusError("ErrAPIUnavailable", 0, all) ELSE all
      BY <1>1, <1>4, <2>2, ClassifyCases DEF limited, abused, response
    <3>2. QED
      BY <1>2, <3>1
  <2>3. QED
    BY <2>1, <2>2
<1>5. QED
  BY <1>3, <1>4

(* A plain layer on top hides no type and adds no sentinel. *)
LEMMA ConsAsTypes ==
    ASSUME NEW type \in ErrorTypes, NEW err \in Chains
    PROVE  /\ <<Layer(type)>> \o err \in Chains /\ <<Layer(type)>> \o err # <<>>
           /\ \A types : AsType(<<Layer(type)>> \o err, types) =
                 IF type \in types THEN <<Layer(type)>> \o err ELSE AsType(err, types)
           /\ \A s \in KitSentinels : Is(<<Layer(type)>> \o err, s) <=> Is(err, s)
<1>1. /\ Layer(type) \in ErrorLayers
      /\ Layer(type).type = type /\ Layer(type).sentinel = "none"
  BY LayerType DEF Layer
<1>2. <<Layer(type)>> \o err \in Chains /\ <<Layer(type)>> \o err # <<>>
  BY <1>1, ConsType DEF Chains
<1>3. ASSUME NEW types
      PROVE  AsType(<<Layer(type)>> \o err, types) =
                IF type \in types THEN <<Layer(type)>> \o err ELSE AsType(err, types)
  BY <1>1, AsTypeCons
<1>4. ASSUME NEW s \in KitSentinels
      PROVE  Is(<<Layer(type)>> \o err, s) <=> Is(err, s)
  BY <1>1, IsCons DEF KitSentinels
<1>5. QED
  BY <1>2, <1>3, <1>4

(* Wrapping an error with %w before it is classified, as every layer of the *)
(* kit and its callers do, never changes which sentinels errors.Is finds    *)
(* afterwards, for every error chain.                                       *)
THEOREM ClassifyWrapped ==
    ASSUME NEW err \in Chains, err # <<>>, NEW s \in KitSentinels
    PROVE  Is(ClassifyError(Wrapped(err)), s) <=> Is(ClassifyError(err), s)
<1> DEFINE all == <<Layer("fmt")>> \o err
<1>1. /\ all \in Chains /\ all # <<>>
      /\ (Is(all, s) <=> Is(err, s))
      /\ \A types : "fmt" \notin types => AsType(all, types) = AsType(err, types)
  BY ConsAsTypes DEF ErrorTypes
<1> HIDE DEF all
<1>2. /\ AsType(all, {"StatusError"}) = AsType(err, {"StatusError"})
      /\ AsType(all, {"RateLimitError"}) = AsType(err, {"RateLimitError"})
      /\ AsType(all, {"AbuseRateLimitError"}) = AsType(err, {"AbuseRateLimitError"})
      /\ AsType(all, {"ErrorResponse"}) = AsType(err, {"ErrorResponse"})
  BY <1>1
<1>3. AsType(all, {"url.Error"}) = AsType(err, {"url.Error"})
  BY <1>1
<1>4. isNetError(all) <=> isNetError(err)
  BY <1>1 DEF isNetError
<1>5. Is(ClassifyError(all), s) <=> Is(ClassifyError(err), s)
  BY <1>1, <1>2, <1>3, <1>4, SameSentinels
<1>6. QED
  BY <1>5 DEF Wrapped, all

(* The same under the url.Error that http.Client puts on top. *)
LEMMA ClassifySentWrapped ==
    ASSUME NEW err \in Chains, NEW s \in KitSentinels
    PROVE  Is(ClassifyError(<<Layer("url.Error")>> \o Wrapped(err)), s) <=>
           Is(ClassifyError(<<Layer("url.Error")>> \o err), s)
<1> DEFINE inner == <<Layer("fmt")>> \o err
           all == <<Layer("url.Error")>> \o inner
           short == <<Layer("url.Error")>> \o err
<1>1. /\ inner \in Chains
      /\ (Is(inner, s) <=> Is(err, s))
      /\ \A types : "fmt" \notin types => AsType(inner, types) = AsType(err, types)
  BY ConsAsTypes DEF ErrorTypes
<1> HIDE DEF inner
<1>2. /\ all \in Chains /\ all # <<>>
      /\ (Is(all, s) <=> Is(inner, s))
      /\ \A types : AsType(all, types) =
            IF "url.Error" \in types THEN all ELSE AsType(inner, types)
  BY <1>1, ConsAsTypes DEF ErrorTypes
<1>3. /\ short \in Chains /\ short # <<>>
      /\ (Is(short, s) <=> Is(err, s))
      /\ \A types : AsType(short, types) =
            IF "url.Error" \in types THEN short ELSE AsType(err, types)
  BY ConsAsTypes DEF ErrorTypes
<1> HIDE DEF all, short
<1>4. /\ AsType(all, {"StatusError"}) = AsType(short, {"StatusError"})
      /\ AsType(all, {"RateLimitError"}) = AsType(short, {"RateLimitError"})
      /\ AsType(all, {"AbuseRateLimitError"}) = AsType(short, {"AbuseRateLimitError"})
      /\ AsType(all, {"ErrorResponse"}) = AsType(short, {"ErrorResponse"})
  BY <1>1, <1>2, <1>3
<1>5. isNetError(all) <=> isNetError(short)
  BY <1>1, <1>2, <1>3 DEF isNetError
<1>6. AsType(all, {"url.Error"}) = <<>> <=> AsType(short, {"url.Error"}) = <<>>
  BY <1>2, <1>3
<1>7. Is(all, s) <=> Is(short, s)
  BY <1>1, <1>2, <1>3
<1>8. Is(ClassifyError(all), s) <=> Is(ClassifyError(short), s)
  BY <1>2, <1>3, <1>4, <1>5, <1>6, <1>7, SameSentinels
<1>9. QED
  BY <1>8 DEF Wrapped, all, short, inner

(* At most one error of a chain is go-github's. *)
OneSDK(err) ==
    \A i, j \in 1 .. Len(err) :
        err[i].type \in SDKTypes /\ err[j].type \in SDKTypes => i = j

(* The go-github error survives classification: errors.AsType finds the     *)
(* same ErrorResponse, RateLimitError or AbuseRateLimitError before and     *)
(* after (errors.go:82-85), for every chain with at most one of them, which *)
(* is what go-github returns.                                               *)
THEOREM ClassifyKeeps ==
    ASSUME NEW err \in Chains, OneSDK(err), NEW t \in SDKTypes, AsType(err, {t}) # <<>>
    PROVE  AsType(ClassifyError(err), {t}) = AsType(err, {t})
<1> DEFINE limited  == AsType(err, {"RateLimitError"})
           abused   == AsType(err, {"AbuseRateLimitError"})
           response == AsType(err, {"ErrorResponse"})
           kept == AsType(err, {t})
<1>1. /\ limited \in Chains /\ abused \in Chains /\ response \in Chains
      /\ kept \in Chains /\ AsType(kept, {t}) = kept
  BY AsTypeType, AsTypeSuffix
<1>2. ASSUME NEW u \in SDKTypes, u # t PROVE AsType(err, {u}) = <<>>
  <2>1. PICK i \in 1 .. Len(err) : err[i].type = t
    BY AsTypeType
  <2>2. \A j \in 1 .. Len(err) : err[j].type # u
    BY <1>2, <2>1 DEF OneSDK
  <2>3. QED
    BY <2>2, AsTypeType
<1>3. err # <<>>
  <2>1. PICK i \in 1 .. Len(err) : err[i].type = t
    BY AsTypeType
  <2>2. QED
    BY <2>1
<1>4. kept[1] \in ErrorLayers /\ kept[1].status \in Int
  <2>1. kept[1] \in ErrorLayers
    BY <1>1 DEF Chains
  <2>2. QED
    BY <2>1 DEF ErrorLayers
<1>5. t # "StatusError"
  BY DEF SDKTypes
<1>6. ASSUME NEW n \in SentinelNames, NEW k \in Int, NEW c \in Chains
      PROVE  AsType(StatusError(n, k, c), {t}) = AsType(c, {t})
  BY <1>5, StatusErrorType
<1>10. AsType(classifyRateLimit(kept), {t}) = AsType(kept, {t})
  BY <1>1, <1>4, <1>6 DEF classifyRateLimit, SentinelNames
<1>11. SentinelOf(kept[1]) \in SentinelNames
  BY <1>4, SentinelOfType
<1>12. AsType(classifyResponseError(kept), {t}) = AsType(kept, {t})
  <2>1. AsType(StatusError(SentinelOf(kept[1]), kept[1].status, kept), {t}) = AsType(kept, {t})
    BY <1>1, <1>4, <1>6, <1>11
  <2> HIDE DEF kept
  <2>2. QED
    BY <2>1 DEF classifyResponseError
<1>13. AsType(StatusError("ErrAPIUnavailable", 0, err), {t}) = kept
  <2>1. "ErrAPIUnavailable" \in SentinelNames /\ 0 \in Int
    BY DEF SentinelNames
  <2>2. QED
    BY <1>6, <2>1
<1>14. SUFFICES AsType(ClassifyError(err), {t}) = kept
  OBVIOUS
<1> HIDE DEF limited, abused, response, kept
<1>7. CASE AsType(err, {"StatusError"}) # <<>>
  BY <1>7 DEF ClassifyError, kept
<1>8. CASE AsType(err, {"StatusError"}) = <<>>
  <2>1. CASE t = "RateLimitError"
    <3>1. limited = kept /\ ClassifyError(err) = classifyRateLimit(kept)
      BY <1>3, <1>8, <2>1, ClassifyCases DEF limited, kept
    <3>2. QED
      BY <1>1, <1>10, <3>1
  <2>2. CASE t = "AbuseRateLimitError"
    <3>1. limited = <<>> /\ abused = kept
      BY <1>2, <2>2 DEF limited, abused, kept, SDKTypes
    <3>2. ClassifyError(err) = classifyRateLimit(kept)
      BY <1>3, <1>8, <2>2, <3>1, ClassifyCases DEF limited, abused, kept
    <3>3. QED
      BY <1>1, <1>10, <3>2
  <2>3. CASE t = "ErrorResponse"
    <3>1. limited = <<>> /\ abused = <<>> /\ response = kept /\ kept # <<>>
      BY <1>2, <2>3 DEF limited, abused, response, kept, SDKTypes
    <3>2. CASE kept[1].status # 0
      <4>1. ClassifyError(err) = classifyResponseError(kept)
        BY <1>3, <1>8, <2>3, <3>1, <3>2, ClassifyCases DEF limited, abused, response, kept
      <4>2. QED
        BY <1>1, <1>12, <4>1
    <3>3. CASE kept[1].status = 0
      <4>1. ClassifyError(err) \in {err, StatusError("ErrAPIUnavailable", 0, err)}
        BY <1>3, <1>8, <2>3, <3>1, <3>3, ClassifyCases DEF limited, abused, response, kept
      <4>2. QED
        BY <1>13, <4>1 DEF kept
    <3>4. QED
      BY <3>2, <3>3
  <2>4. QED
    BY <2>1, <2>2, <2>3 DEF SDKTypes
<1>9. QED
  BY <1>7, <1>8

(* err is classified under sentinel x alone, "none" for no sentinel. *)
Names(err, x) == \A s \in KitSentinels : Is(ClassifyError(err), s) <=> s = x

(* Wrapping keeps the sentinel ... *)
LEMMA NamesWrapped ==
    ASSUME NEW err \in Chains, err # <<>>, NEW x, Names(err, x)
    PROVE  Names(Wrapped(err), x)
BY ClassifyWrapped DEF Names

(* ... under a url.Error too, *)
LEMMA NamesSentWrapped ==
    ASSUME NEW err \in Chains, NEW x, Names(<<Layer("url.Error")>> \o err, x)
    PROVE  Names(<<Layer("url.Error")>> \o Wrapped(err), x)
BY ClassifySentWrapped DEF Names

(* and so does classifying. *)
LEMMA NamesClassified ==
    ASSUME NEW err \in Chains, NEW x, Names(err, x)
    PROVE  Names(ClassifyError(err), x)
BY ClassifyIdempotent DEF Names

(* A single layer, bare or under a url.Error: what AsType and Is find in    *)
(* it.                                                                      *)
LEMMA Tip ==
    ASSUME NEW l \in ErrorLayers, NEW err \in {<<l>>, <<Layer("url.Error")>> \o <<l>>}
    PROVE  /\ err \in Chains /\ err # <<>>
           /\ \A types : "url.Error" \notin types =>
                 AsType(err, types) = IF l.type \in types THEN <<l>> ELSE <<>>
           /\ \A s \in KitSentinels : Is(err, s) <=> l.sentinel = s
<1>0. <<>> \in Chains /\ Len(<<>>) = 0
  BY DEF Chains
<1>1. <<l>> \in Chains /\ <<l>> # <<>> /\ <<l>> = <<l>> \o <<>>
  BY DEF Chains
<1>2. ASSUME NEW types PROVE AsType(<<>>, types) = <<>>
  BY <1>0, AsTypeType
<1>3. ASSUME NEW s PROVE ~Is(<<>>, s)
  BY DEF Is
<1>4. ASSUME NEW types
      PROVE  AsType(<<l>>, types) = IF l.type \in types THEN <<l>> ELSE <<>>
  <2>1. PICK e \in Chains : e = <<>>
    BY <1>0
  <2>2. /\ <<l>> \o e = <<l>>
        /\ AsType(e, types) = <<>>
    BY <1>1, <1>2, <2>1, Zenon
  <2>3. AsType(<<l>> \o e, types) = IF l.type \in types THEN <<l>> \o e ELSE AsType(e, types)
    BY AsTypeCons
  <2>4. QED
    BY <2>2, <2>3, Zenon
<1>5. \A s : Is(<<l>>, s) <=> l.sentinel = s
  BY <1>0, <1>1, <1>3, IsCons
<1>6. CASE err = <<l>>
  BY <1>1, <1>4, <1>5, <1>6
<1>7. CASE err = <<Layer("url.Error")>> \o <<l>>
  <2>0. "url.Error" \in ErrorTypes
    BY DEF ErrorTypes
  <2>a. <<l>> \in Chains
    BY <1>1
  <2>b. /\ <<Layer("url.Error")>> \o <<l>> \in Chains
        /\ <<Layer("url.Error")>> \o <<l>> # <<>>
    BY <2>0, <2>a, ConsAsTypes, Zenon
  <2>c. \A types : AsType(<<Layer("url.Error")>> \o <<l>>, types) =
                 IF "url.Error" \in types THEN <<Layer("url.Error")>> \o <<l>>
                 ELSE AsType(<<l>>, types)
    BY <2>0, <2>a, ConsAsTypes, Zenon
  <2>d. \A s \in KitSentinels : Is(<<Layer("url.Error")>> \o <<l>>, s) <=> Is(<<l>>, s)
    BY <2>0, <2>a, ConsAsTypes, Zenon
  <2>1. /\ err \in Chains /\ err # <<>>
        /\ \A types : AsType(err, types) =
                 IF "url.Error" \in types THEN err ELSE AsType(<<l>>, types)
        /\ \A s \in KitSentinels : Is(err, s) <=> Is(<<l>>, s)
    BY <1>7, <2>b, <2>c, <2>d, Zenon
  <2>2. QED
    BY <1>4, <1>5, <2>1
<1>8. QED
  BY <1>6, <1>7

(* An ErrorResponse with a status is classified by the status. *)
LEMMA NamesResponse ==
    ASSUME NEW n \in Int, n # 0, NEW b \in BOOLEAN,
           NEW l, l = ResponseLayer("ErrorResponse", n, b),
           NEW err \in {<<l>>, <<Layer("url.Error")>> \o <<l>>}
    PROVE  Names(err, SentinelOf(l))
<1>1. l \in ErrorLayers /\ l.type = "ErrorResponse" /\ l.status = n /\ l.sentinel = "none"
  BY LayerType DEF ResponseLayer, ErrorTypes, SDKTypes
<1>2. /\ err \in Chains /\ err # <<>>
      /\ AsType(err, {"StatusError"}) = <<>>
      /\ AsType(err, {"RateLimitError"}) = <<>>
      /\ AsType(err, {"AbuseRateLimitError"}) = <<>>
      /\ AsType(err, {"ErrorResponse"}) = <<l>>
  BY <1>1, Tip
<1>3. ClassifyError(err) = classifyResponseError(<<l>>)
  BY <1>1, <1>2, ClassifyCases
<1>4. <<l>> \in Chains /\ <<l>>[1] = l /\ SentinelOf(l) \in SentinelNames
  BY <1>1, SentinelOfType DEF Chains
<1>5. \A s \in KitSentinels : ~Is(<<l>>, s)
  BY <1>1, Tip DEF KitSentinels
<1>6. CASE SentinelOf(l) = "none"
  BY <1>3, <1>4, <1>5, <1>6 DEF Names, classifyResponseError, KitSentinels
<1>7. CASE SentinelOf(l) # "none"
  <2>1. ClassifyError(err) = StatusError(SentinelOf(l), n, <<l>>)
    BY <1>1, <1>3, <1>4, <1>7 DEF classifyResponseError
  <2>2. QED
    BY <1>4, <1>5, <2>1, StatusErrorIs DEF Names
<1>8. QED
  BY <1>6, <1>7

(* The two rate-limit errors of go-github are ErrRateLimited. *)
LEMMA NamesLimited ==
    ASSUME NEW type \in {"RateLimitError", "AbuseRateLimitError"},
           NEW n \in Int, NEW b \in BOOLEAN
    PROVE  Names(<<ResponseLayer(type, n, b)>>, "ErrRateLimited")
<1> DEFINE l == ResponseLayer(type, n, b)
           err == <<l>>
<1>1. l \in ErrorLayers /\ l.type = type /\ l.status = n /\ l.sentinel = "none"
  BY LayerType DEF ResponseLayer, ErrorTypes, SDKTypes
<1> HIDE DEF l
<1>2. /\ err \in Chains /\ err # <<>>
      /\ AsType(err, {"StatusError"}) = <<>>
      /\ AsType(err, {"RateLimitError"}) = IF type = "RateLimitError" THEN err ELSE <<>>
      /\ AsType(err, {"AbuseRateLimitError"}) =
            IF type = "AbuseRateLimitError" THEN err ELSE <<>>
  BY <1>1, Tip
<1>3. ClassifyError(err) = classifyRateLimit(err)
  BY <1>2, ClassifyCases
<1>4. ClassifyError(err) = StatusError("ErrRateLimited", n, err)
  BY <1>1, <1>3 DEF classifyRateLimit
<1>5. \A s \in KitSentinels : ~Is(err, s)
  BY <1>1, Tip DEF KitSentinels
<1>6. "ErrRateLimited" \in SentinelNames
  BY DEF SentinelNames
<1>7. Names(err, "ErrRateLimited")
  BY <1>2, <1>4, <1>5, <1>6, StatusErrorIs DEF Names
<1>8. QED
  BY <1>7 DEF l

(* A network error or an expired deadline is ErrAPIUnavailable. *)
LEMMA NamesNet ==
    ASSUME NEW type \in {"net.Error", "DeadlineExceeded"},
           NEW err \in {<<Layer(type)>>, <<Layer("url.Error")>> \o <<Layer(type)>>}
    PROVE  Names(err, "ErrAPIUnavailable")
<1> DEFINE l == Layer(type)
<1>1. l \in ErrorLayers /\ l.type = type /\ l.sentinel = "none"
  BY LayerType DEF Layer, ErrorTypes
<1> HIDE DEF l
<1>2. /\ err \in Chains /\ err # <<>>
      /\ AsType(err, {"StatusError"}) = <<>>
      /\ AsType(err, {"RateLimitError"}) = <<>>
      /\ AsType(err, {"AbuseRateLimitError"}) = <<>>
      /\ AsType(err, {"ErrorResponse"}) = <<>>
      /\ AsType(err, {"net.Error", "DeadlineExceeded"}) = <<l>>
  BY <1>1, Tip DEF l
<1>3. ClassifyError(err) = StatusError("ErrAPIUnavailable", 0, err)
  BY <1>2, ClassifyCases DEF isNetError
<1>5. \A s \in KitSentinels : ~Is(err, s)
  BY <1>1, Tip DEF KitSentinels, l
<1>6. "ErrAPIUnavailable" \in SentinelNames
  BY DEF SentinelNames
<1>7. QED
  BY <1>2, <1>3, <1>5, <1>6, StatusErrorIs DEF Names

(* An error that no branch of ClassifyError knows is its own                *)
(* classification.                                                          *)
LEMMA NamesBare ==
    ASSUME NEW l \in ErrorLayers, l.type \in {"Canceled", "sentinel"}
    PROVE  Names(<<l>>, l.sentinel)
<1>2. /\ <<l>> \in Chains /\ <<l>> # <<>>
      /\ AsType(<<l>>, {"StatusError"}) = <<>>
      /\ AsType(<<l>>, {"RateLimitError"}) = <<>>
      /\ AsType(<<l>>, {"AbuseRateLimitError"}) = <<>>
      /\ AsType(<<l>>, {"ErrorResponse"}) = <<>>
      /\ AsType(<<l>>, {"net.Error", "DeadlineExceeded"}) = <<>>
  BY Tip
<1>3. AsType(<<l>>, {"url.Error"}) = <<>>
  <2>1. <<>> \in Chains /\ <<l>> = <<l>> \o <<>> /\ Len(<<>>) = 0
    BY DEF Chains
  <2>2. AsType(<<>>, {"url.Error"}) = <<>>
    BY <2>1, AsTypeType
  <2>3. AsType(<<l>> \o <<>>, {"url.Error"}) = AsType(<<>>, {"url.Error"})
    BY <2>1, AsTypeCons
  <2>4. QED
    BY <2>1, <2>2, <2>3, Zenon
<1>4. ClassifyError(<<l>>) = <<l>>
  BY <1>2, <1>3, ClassifyCases DEF isNetError
<1>5. QED
  BY <1>4, Tip DEF Names

(* A StatusError keeps its sentinel, under a url.Error too. *)
LEMMA NamesStatus ==
    ASSUME NEW x \in KitSentinels, NEW c \in Chains, \A s \in KitSentinels : ~Is(c, s),
           NEW err \in {StatusError(x, 0, c), <<Layer("url.Error")>> \o StatusError(x, 0, c)}
    PROVE  Names(err, x)
<1> DEFINE st == StatusError(x, 0, c)
<1>1. st \in Chains /\ ClassifyError(st) = st
  BY StatusErrorType DEF KitSentinels
<1>2. \A s : Is(st, s) <=> x = s \/ Is(c, s)
  BY StatusErrorIs DEF KitSentinels
<1>3. AsType(st, {"StatusError"}) # <<>>
  <2>1. st[1].type = "StatusError" /\ Len(st) >= 1
    BY DEF StatusError, Chains
  <2>2. QED
    BY <1>1, <2>1, AsTypeType
<1> HIDE DEF st
<1>4. CASE err = st
  BY <1>1, <1>2, <1>4 DEF Names
<1>5. CASE err = <<Layer("url.Error")>> \o st
  <2>1. /\ AsType(err, {"StatusError"}) = AsType(st, {"StatusError"})
        /\ \A s \in KitSentinels : Is(err, s) <=> Is(st, s)
    BY <1>1, <1>5, ConsAsTypes DEF ErrorTypes
  <2>2. ClassifyError(err) = err
    BY <1>3, <2>1 DEF ClassifyError
  <2>3. QED
    BY <1>2, <2>1, <2>2 DEF Names
<1>6. QED
  BY <1>4, <1>5 DEF st

(* A layer that is not go-github's adds no SDK error to a chain; *)
LEMMA OneSDKCons ==
    ASSUME NEW x \in ErrorLayers, x.type \notin SDKTypes, NEW err \in Chains, OneSDK(err)
    PROVE  OneSDK(<<x>> \o err)
<1> DEFINE all == <<x>> \o err
<1>1. /\ Len(all) = Len(err) + 1 /\ all[1] = x
      /\ \A j \in 1 .. Len(err) : all[j + 1] = err[j]
  BY ConsType
<1>2. Len(err) \in Nat
  BY DEF Chains
<1> HIDE DEF all
<1>3. ASSUME NEW j \in 1 .. Len(all), all[j].type \in SDKTypes
      PROVE  j - 1 \in 1 .. Len(err) /\ err[j - 1].type \in SDKTypes
  <2>1. j # 1
    BY <1>1, <1>3
  <2>2. j - 1 \in 1 .. Len(err) /\ (j - 1) + 1 = j
    BY <1>1, <1>2, <2>1
  <2>3. all[(j - 1) + 1] = err[j - 1]
    BY <1>1, <2>2
  <2>4. QED
    BY <1>3, <2>2, <2>3
<1>4. ASSUME NEW i \in 1 .. Len(all), NEW j \in 1 .. Len(all),
             all[i].type \in SDKTypes, all[j].type \in SDKTypes
      PROVE  i = j
  <2>1. /\ i - 1 \in 1 .. Len(err) /\ err[i - 1].type \in SDKTypes
        /\ j - 1 \in 1 .. Len(err) /\ err[j - 1].type \in SDKTypes
    BY <1>3, <1>4
  <2>2. i - 1 = j - 1
    BY <2>1 DEF OneSDK
  <2>3. QED
    BY <2>2
<1>5. OneSDK(all)
  BY <1>4 DEF OneSDK
<1>6. QED
  BY <1>5 DEF all

(* neither does unwrapping, *)
LEMMA OneSDKSuffix ==
    ASSUME NEW err \in Chains, OneSDK(err), NEW types
    PROVE  OneSDK(AsType(err, types))
<1>1. CASE AsType(err, types) = <<>>
  BY <1>1 DEF OneSDK
<1>2. ASSUME NEW k \in 1 .. Len(err), AsType(err, types) = SubSeq(err, k, Len(err))
      PROVE  OneSDK(AsType(err, types))
  <2> DEFINE tail == SubSeq(err, k, Len(err))
  <2>1. /\ Len(tail) = Len(err) - k + 1
        /\ \A j \in 1 .. Len(err) - k + 1 : tail[j] = err[k + j - 1]
    BY DEF Chains
  <2>2. Len(err) \in Nat /\ k \in Nat /\ k >= 1 /\ k <= Len(err)
    BY DEF Chains
  <2> HIDE DEF tail
  <2>3. \A j \in 1 .. Len(tail) : tail[j] = err[k + j - 1] /\ k + j - 1 \in 1 .. Len(err)
    BY <2>1, <2>2
  <2>4. ASSUME NEW i \in 1 .. Len(tail), NEW j \in 1 .. Len(tail),
               tail[i].type \in SDKTypes, tail[j].type \in SDKTypes
        PROVE  i = j
    <3>1. k + i - 1 = k + j - 1
      BY <2>3, <2>4 DEF OneSDK
    <3>2. QED
      BY <2>1, <2>2, <3>1
  <2>5. QED
    BY <1>2, <2>4 DEF OneSDK, tail
<1>3. QED
  BY <1>1, <1>2, AsTypeIs

(* a StatusError, *)
LEMMA OneSDKStatus ==
    ASSUME NEW n \in SentinelNames, NEW k \in Int, NEW c \in Chains, OneSDK(c)
    PROVE  OneSDK(StatusError(n, k, c))
<1> DEFINE x == [type |-> "StatusError", status |-> k, exhausted |-> FALSE, sentinel |-> n]
<1>1. x \in ErrorLayers
  BY DEF ErrorLayers, ErrorTypes
<1>2. x.type \notin SDKTypes /\ StatusError(n, k, c) = <<x>> \o c
  BY DEF StatusError, SDKTypes
<1> HIDE DEF x
<1>3. QED
  BY <1>1, <1>2, OneSDKCons

(* classifying, *)
LEMMA OneSDKClassified ==
    ASSUME NEW err \in Chains, OneSDK(err)
    PROVE  OneSDK(ClassifyError(err))
<1> DEFINE limited  == AsType(err, {"RateLimitError"})
           abused   == AsType(err, {"AbuseRateLimitError"})
           response == AsType(err, {"ErrorResponse"})
<1>1. /\ limited \in Chains /\ abused \in Chains /\ response \in Chains
      /\ OneSDK(limited) /\ OneSDK(abused) /\ OneSDK(response)
  BY AsTypeType, OneSDKSuffix
<1>2. ASSUME NEW c \in Chains, c # <<>>, OneSDK(c)
      PROVE  OneSDK(classifyRateLimit(c)) /\ OneSDK(classifyResponseError(c))
  <2>1. c[1] \in ErrorLayers
    BY <1>2 DEF Chains
  <2>2. c[1].status \in Int /\ SentinelOf(c[1]) \in SentinelNames
    BY <2>1, SentinelOfType DEF ErrorLayers
  <2>3. "ErrRateLimited" \in SentinelNames
    BY DEF SentinelNames
  <2>4. QED
    BY <1>2, <2>2, <2>3, OneSDKStatus DEF classifyRateLimit, classifyResponseError
<1>3. OneSDK(StatusError("ErrAPIUnavailable", 0, err))
  BY OneSDKStatus DEF SentinelNames
<1> HIDE DEF limited, abused, response
<1>4. QED
  BY <1>1, <1>2, <1>3 DEF ClassifyError, limited, abused, response

(* a plain layer, *)
LEMMA OneSDKLayer ==
    ASSUME NEW type \in ErrorTypes \ SDKTypes, NEW err \in Chains, OneSDK(err)
    PROVE  OneSDK(<<Layer(type)>> \o err)
<1>1. Layer(type) \in ErrorLayers /\ Layer(type).type \notin SDKTypes
  BY LayerType DEF Layer
<1>2. QED
  BY <1>1, OneSDKCons

(* or wrapping. *)
LEMMA OneSDKWrapped ==
    ASSUME NEW err \in Chains, OneSDK(err)
    PROVE  OneSDK(Wrapped(err))
<1>1. "fmt" \in ErrorTypes \ SDKTypes
  BY DEF ErrorTypes, SDKTypes
<1>2. QED
  BY <1>1, OneSDKLayer DEF Wrapped

(* A chain of one layer, and nil, have at most one. *)
LEMMA OneSDKTip ==
    ASSUME NEW l
    PROVE  OneSDK(<<l>>) /\ OneSDK(<<>>)
BY DEF OneSDK

==============================================================================
