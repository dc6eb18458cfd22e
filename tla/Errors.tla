------------------------------- MODULE Errors --------------------------------
(***************************************************************************)
(* ClassifyError (errors.go) on error chains.  An error is the sequence of *)
(* errors that unwrapping visits, outermost first; a StatusError carries   *)
(* its sentinel as a field, since it unwraps to both.                      *)
(***************************************************************************)
EXTENDS Integers, Sequences, SequencesExt

(* One error of a chain: status is 0 without a response, exhausted says     *)
(* that the response's X-RateLimit-Remaining is 0.                          *)
Layer(type) ==
    [type |-> type, status |-> 0, exhausted |-> FALSE, sentinel |-> "none"]

Wrapped(err) == <<Layer("fmt")>> \o err

ResponseLayer(type, status, exhausted) ==
    [type |-> type, status |-> status, exhausted |-> exhausted,
     sentinel |-> "none"]

(* errors.AsType: the first error of one of the types and all below it,     *)
(* <<>> if there is none.                                                   *)
AsType(err, types) ==
    LET i == SelectInSeq(err, LAMBDA layer : layer.type \in types)
    IN  IF i = 0 THEN <<>> ELSE SubSeq(err, i, Len(err))

(* errors.Is, for the kit's sentinels. *)
Is(err, sentinel) == \E i \in DOMAIN err : err[i].sentinel = sentinel

StatusError(sentinel, status, cause) ==
    <<[type |-> "StatusError", status |-> status, exhausted |-> FALSE,
       sentinel |-> sentinel]>> \o cause

(* Variant: the error keeps the status only. *)
RateLimitBare(cause) == StatusError("ErrRateLimited", cause[1].status, <<>>)

(* The cause is the go-github error; what wrapped it is left behind. *)
classifyRateLimit(cause) ==
    StatusError("ErrRateLimited", cause[1].status, cause)

(* Variant: every 403 is a permissions denial. *)
SentinelIgnoringBudget(layer) ==
    CASE layer.status = 401 -> "ErrAuthRequired"
      [] layer.status = 404 -> "ErrNotFound"
      [] layer.status = 429 -> "ErrRateLimited"
      [] layer.status = 403 -> "ErrForbidden"
      [] layer.status >= 500 -> "ErrAPIUnavailable"
      [] OTHER -> "none"

SentinelOf(layer) ==
    CASE layer.status = 401 -> "ErrAuthRequired"
      [] layer.status = 404 -> "ErrNotFound"
      [] layer.status = 429 -> "ErrRateLimited"
      [] layer.status = 403 -> IF layer.exhausted THEN "ErrRateLimited"
                               ELSE "ErrForbidden"
      [] layer.status >= 500 -> "ErrAPIUnavailable"
      [] OTHER -> "none"

(* An error without a sentinel is returned bare. *)
classifyResponseError(cause) ==
    IF SentinelOf(cause[1]) = "none" THEN cause
    ELSE StatusError(SentinelOf(cause[1]), cause[1].status, cause)

(* net.Error and *net.OpError; a deadline's error is a net.Error too. *)
isNetError(err) == AsType(err, {"net.Error", "DeadlineExceeded"}) # <<>>

ClassifyError(err) ==
    LET limited  == AsType(err, {"RateLimitError"})
        abused   == AsType(err, {"AbuseRateLimitError"})
        response == AsType(err, {"ErrorResponse"})
    IN
    IF err = <<>> \/ AsType(err, {"StatusError"}) # <<>> THEN err
    ELSE IF limited # <<>> THEN classifyRateLimit(limited)
    ELSE IF abused # <<>> THEN classifyRateLimit(abused)
    ELSE IF response # <<>> /\ response[1].status # 0
    THEN classifyResponseError(response)
    ELSE IF AsType(err, {"url.Error"}) # <<>> \/ isNetError(err)
    THEN StatusError("ErrAPIUnavailable", 0, err)
    ELSE err

=============================================================================
