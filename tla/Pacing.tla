------------------------------- MODULE Pacing --------------------------------
(***************************************************************************)
(* pacingTransport (secondary.go): concurrent requests reserve start slots *)
(* under a mutex and wait for them outside it.                             *)
(*                                                                         *)
(* Every instant is kept as the number of ticks until it is reached, 0     *)
(* once it is past.                                                        *)
(***************************************************************************)
EXTENDS Integers

CONSTANTS
    Requests,   \* goroutines that send requests through one Kernel
    interval,
    Lag,        \* ticks that a goroutine may be late once its slot has come
    Cancels,    \* a request's context may end while it waits
    Horizon     \* bound: no slot further away than this is asked for

ASSUME PacingAssumption ==
    /\ interval \in Int
    /\ Lag \in Nat /\ Cancels \in BOOLEAN /\ Horizon \in Nat

VARIABLES
    reserved,  \* ticks until the next slot to grant
    pc,        \* where each request is
    wait,      \* ticks until the slot of a waiting request
    late,      \* ticks that a request has let pass since its slot
    quiet      \* ticks since a request was last sent, at most interval

vars == <<reserved, pc, wait, late, quiet>>

-----------------------------------------------------------------------------
Init ==
    /\ reserved = 0
    /\ pc = [r \in Requests |-> "idle"]
    /\ wait = [r \in Requests |-> 0]
    /\ late = [r \in Requests |-> 0]
    /\ quiet = interval

(* Variant: every request is given the slot after the last one sent. *)
NextSlotShared == interval

(* The slot after the one just granted. *)
NextSlot == reserved + interval

(* The critical section: take the next slot, now if it is past. *)
Reserve(r) ==
    /\ pc[r] = "idle"
    /\ reserved <= Horizon
    /\ IF interval <= 0
       THEN pc' = [pc EXCEPT ![r] = "send"] /\ UNCHANGED <<reserved, wait>>
       ELSE /\ wait' = [wait EXCEPT ![r] = reserved]
            /\ reserved' = NextSlot
            /\ pc' = [pc EXCEPT ![r] = IF reserved > 0 THEN "sleep" ELSE "send"]
    /\ UNCHANGED <<late, quiet>>

(* The timer of the sleep has fired and the goroutine runs again. *)
Wake(r) ==
    /\ pc[r] = "sleep"
    /\ wait[r] = 0
    /\ pc' = [pc EXCEPT ![r] = "send"]
    /\ UNCHANGED <<reserved, wait, late, quiet>>

(* The context ends during the sleep: the slot stays spent. *)
Cancel(r) ==
    /\ Cancels
    /\ pc[r] = "sleep"
    /\ pc' = [pc EXCEPT ![r] = "idle"]
    /\ wait' = [wait EXCEPT ![r] = 0]
    /\ late' = [late EXCEPT ![r] = 0]
    /\ UNCHANGED <<reserved, quiet>>

(* next.RoundTrip starts. *)
Send(r) ==
    /\ pc[r] = "send"
    /\ pc' = [pc EXCEPT ![r] = "idle"]
    /\ late' = [late EXCEPT ![r] = 0]
    /\ quiet' = 0
    /\ UNCHANGED <<reserved, wait>>

(* The slot of r has come and r has not started. *)
Due(r) == pc[r] = "send" \/ (pc[r] = "sleep" /\ wait[r] = 0)

(* Variant: a slot in the past is granted as it stands. *)
BeforeUnclamped(n) == n - 1

(* A slot that is past counts as now. *)
Before(n) == IF n > 0 THEN n - 1 ELSE 0

(* Time passes.  Nothing makes a goroutine run at the instant its timer     *)
(* fires or the mutex is released: it may be up to Lag ticks late.          *)
Tick ==
    /\ \A r \in Requests : Due(r) => late[r] < Lag
    /\ late' = [r \in Requests |-> IF Due(r) THEN late[r] + 1 ELSE late[r]]
    /\ reserved' = Before(reserved)
    /\ wait' = [r \in Requests |-> Before(wait[r])]
    /\ quiet' = IF quiet < interval THEN quiet + 1 ELSE quiet
    /\ UNCHANGED pc

RoundTrip(r) == Reserve(r) \/ Wake(r) \/ Cancel(r) \/ Send(r)

Next == Tick \/ \E r \in Requests : RoundTrip(r)

Spec == Init /\ [][Next]_vars

-----------------------------------------------------------------------------
(* Properties. *)

(* The type invariant: slots never run ahead of the requests asking for them. *)
TypeOK ==
    /\ reserved \in Nat
    /\ interval > 0 => reserved <= Horizon + interval
    /\ pc \in [Requests -> {"idle", "sleep", "send"}]
    /\ wait \in [Requests -> Nat]
    /\ late \in [Requests -> 0..Lag]
    /\ quiet \in Int

(* "N concurrent requests reserve N consecutive slots" (secondary.go:17-19):*)
(* no two waiting requests have slots closer than interval, also when       *)
(* others have given up theirs, and the next slot to grant is after all.    *)
SlotsSpaced ==
    \A q, r \in Requests :
        /\ pc[q] = "sleep" /\ wait[q] > 0
        => /\ wait[q] + interval <= reserved
           /\ q # r /\ pc[r] = "sleep" /\ wait[r] > 0 =>
                 wait[q] + interval <= wait[r] \/ wait[r] + interval <= wait[q]

(* The spacing of the starts themselves (secondary.go:10-11).  A late      *)
(* request eats into the distance to the next one, whose slot was granted   *)
(* before: no request is sent less than interval - Lag after another,       *)
(* however many are late and whichever are cancelled.  The comment's        *)
(* "at least interval apart" is the case of goroutines that are never late. *)
StartsSpaced ==
    [][(\E r \in Requests : pc[r] = "send" /\ pc'[r] # "send")
       => quiet >= interval - Lag]_vars

=============================================================================
