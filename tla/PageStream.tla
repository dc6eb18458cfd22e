----------------------------- MODULE PageStream ------------------------------
(***************************************************************************)
(* What StreamPages promises its caller, with no goroutine in sight: pages *)
(* 1, 2, 3 ... are handed to onPage one call at a time, the next only when *)
(* the one before was accepted; a successful end means that every page     *)
(* handed over was accepted; after the end onPage is never called again.   *)
(***************************************************************************)
EXTENDS Naturals, Sequences

VARIABLES
    output,    \* pages handed to onPage, in call order
    accepted,  \* how many of them onPage has accepted
    outcome    \* "open" while the walk runs, then how it ended

vars == <<output, accepted, outcome>>

Init ==
    /\ output = <<>>
    /\ accepted = 0
    /\ outcome = "open"

(* onPage is called with the page after the last one it accepted. *)
Hand ==
    /\ outcome = "open"
    /\ accepted = Len(output)
    /\ output' = Append(output, accepted + 1)
    /\ UNCHANGED <<accepted, outcome>>

(* onPage returns nil; the walk may return in the same step. *)
Accept ==
    /\ outcome = "open"
    /\ accepted + 1 = Len(output)
    /\ accepted' = accepted + 1
    /\ outcome' \in {"open", "complete"}
    /\ UNCHANGED output

(* The walk returns nil: nothing it handed over is left unaccepted. *)
Complete ==
    /\ outcome = "open"
    /\ accepted = Len(output)
    /\ outcome' = "complete"
    /\ UNCHANGED <<output, accepted>>

(* The walk returns an error, at any time. *)
Fail ==
    /\ outcome = "open"
    /\ outcome' = "failed"
    /\ UNCHANGED <<output, accepted>>

Next == Hand \/ Accept \/ Complete \/ Fail

Spec == Init /\ [][Next]_vars
=============================================================================
