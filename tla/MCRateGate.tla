----------------------------- MODULE MCRateGate ------------------------------
(* Bounded instances of RateGate for TLC. *)
EXTENDS RateGate

CONSTANTS c1, c2

(* One caller, every kind of call and of fault, no retries, and a local     *)
(* clock that is ahead.                                                     *)
Sequential ==
    [Callers |-> {c1}, Kinds |-> {"api", "rate_limit", "refresh"},
     Faults |-> {"lost", "headers", "status"}, Enabled |-> TRUE,
     MinRemaining |-> 1, MaxWait |-> 2, MaxRetries |-> 0, probeCooldown |-> 2,
     Timeout |-> 3, Limit |-> 3, Window |-> 3, Ahead |-> 1, MaxStray |-> 1]

(* Two callers that share a budget of one request, and a local clock that   *)
(* is behind.                                                               *)
Burst ==
    [Callers |-> {c1, c2}, Kinds |-> {"api", "refresh"}, Faults |-> {"headers"},
     Enabled |-> TRUE, MinRemaining |-> 0, MaxWait |-> 1, MaxRetries |-> 1,
     probeCooldown |-> 2, Timeout |-> 2, Limit |-> 1, Window |-> 2,
     Ahead |-> -1, MaxStray |-> 0]

(* The gate is off, and headers still feed the cache. *)
Ungated ==
    [Burst EXCEPT !.Enabled = FALSE, !.Kinds = {"api"}, !.Faults = {"lost"},
                  !.Ahead = 0, !.MaxStray = 1]

AllSetups == {Sequential, Burst, Ungated}

(* Two callers that share a budget of one request, and nothing that goes    *)
(* wrong.                                                                   *)
TwoCalls ==
    {[Burst EXCEPT !.Kinds = {"api"}, !.Faults = {}, !.MaxRetries = 0,
                   !.Window = 3, !.Ahead = 0]}
=============================================================================
