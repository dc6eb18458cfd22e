---------------------------- MODULE PacingProofs -----------------------------
(***************************************************************************)
(* Proofs about Pacing, for any number of requests and any interval.       *)
(*                                                                         *)
(* Granted is the invariant behind SlotsSpaced.  StartsSpaced needs a      *)
(* stronger one, Timely: a request that has been granted a slot and has    *)
(* not started keeps the distance of its slot from the other slots and     *)
(* from the next one to grant, also once the slot is past, and the last    *)
(* start was at most Lag after a slot an interval before.  (When Lag is    *)
(* not less than interval nothing is left of the spacing to prove.)        *)
(***************************************************************************)
EXTENDS Pacing, TLAPS

(* A request whose slot lies ahead. *)
Waiting(r) == pc[r] = "sleep" /\ wait[r] > 0

(* A request with a slot that it has not used yet. *)
Active(r) == pc[r] \in {"sleep", "send"}

(* The slot of r, in ticks from now: below 0 once it is past. *)
Slot(r) == wait[r] - late[r]

Apart(q, r) == wait[q] + interval <= wait[r] \/ wait[r] + interval <= wait[q]

Granted ==
    /\ \A q \in Requests : Waiting(q) => wait[q] + interval <= reserved
    /\ \A q, r \in Requests : q # r /\ Waiting(q) /\ Waiting(r) => Apart(q, r)

Unpaced ==
    /\ quiet >= 0 \/ quiet >= interval
    /\ interval <= 0 => /\ reserved = 0
                        /\ \A r \in Requests : pc[r] # "sleep" /\ wait[r] = 0

Timely ==
    /\ quiet + reserved + Lag >= interval
    /\ \A q \in Requests : /\ wait[q] > 0 => late[q] = 0
                           /\ ~Active(q) => late[q] = 0
                           /\ pc[q] = "send" => wait[q] = 0
    /\ \A q \in Requests : Active(q) => /\ Slot(q) + interval <= reserved
                                        /\ quiet + Slot(q) + Lag >= interval
    /\ \A q, r \in Requests : q # r /\ Active(q) /\ Active(r)
          => Slot(q) + interval <= Slot(r) \/ Slot(r) + interval <= Slot(q)

Inv == TypeOK /\ Unpaced /\ Granted /\ (Lag < interval => Timely)

-----------------------------------------------------------------------------
(* The invariant holds before the first request. *)
LEMMA InvInit == Init => Inv
  BY PacingAssumption
     DEF Init, Inv, TypeOK, Unpaced, Granted, Waiting, Timely, Active, Slot, Apart

(* Every step keeps the types; Horizon bounds the slots that are asked for. *)
LEMMA TypeStep == Inv /\ [Next]_vars => TypeOK' /\ Unpaced'
<1> SUFFICES ASSUME Inv, [Next]_vars PROVE TypeOK' /\ Unpaced'
  OBVIOUS
<1> USE PacingAssumption DEF Inv, TypeOK, Unpaced
<1>1. ASSUME NEW r \in Requests, Reserve(r) PROVE TypeOK' /\ Unpaced'
  BY <1>1 DEF Reserve, NextSlot
<1>2. ASSUME NEW r \in Requests, Wake(r) PROVE TypeOK' /\ Unpaced'
  BY <1>2 DEF Wake
<1>3. ASSUME NEW r \in Requests, Cancel(r) PROVE TypeOK' /\ Unpaced'
  BY <1>3 DEF Cancel
<1>4. ASSUME NEW r \in Requests, Send(r) PROVE TypeOK' /\ Unpaced'
  BY <1>4 DEF Send
<1>5. CASE Tick
  BY <1>5 DEF Tick, Before, Due
<1>6. CASE UNCHANGED vars
  BY <1>6 DEF vars
<1> QED  BY <1>1, <1>2, <1>3, <1>4, <1>5, <1>6 DEF Next, RoundTrip

(* A new slot is granted behind all others, and time moves them together. *)
LEMMA GrantedStep == Inv /\ [Next]_vars => Granted'
<1> SUFFICES ASSUME Inv, [Next]_vars PROVE Granted'
  OBVIOUS
<1> USE PacingAssumption DEF Inv, TypeOK, Unpaced, Granted, Waiting, Apart
<1>1. ASSUME NEW r \in Requests, Reserve(r) PROVE Granted'
  BY <1>1 DEF Reserve, NextSlot
<1>2. ASSUME NEW r \in Requests, Wake(r) PROVE Granted'
  BY <1>2 DEF Wake
<1>3. ASSUME NEW r \in Requests, Cancel(r) PROVE Granted'
  BY <1>3 DEF Cancel
<1>4. ASSUME NEW r \in Requests, Send(r) PROVE Granted'
  BY <1>4 DEF Send
<1>5. CASE Tick
  BY <1>5 DEF Tick, Before
<1>6. CASE UNCHANGED vars
  BY <1>6 DEF vars
<1> QED  BY <1>1, <1>2, <1>3, <1>4, <1>5, <1>6 DEF Next, RoundTrip

(* A start is at most Lag after its slot, and the slots that are left keep  *)
(* an interval from it.                                                     *)
LEMMA TimelyStep == Lag < interval /\ Inv /\ [Next]_vars => Timely'
<1> SUFFICES ASSUME Lag < interval, Inv, [Next]_vars PROVE Timely'
  OBVIOUS
<1> USE PacingAssumption DEF Inv, TypeOK, Timely, Active, Slot
<1>1. ASSUME NEW r \in Requests, Reserve(r) PROVE Timely'
  BY <1>1 DEF Reserve, NextSlot
<1>2. ASSUME NEW r \in Requests, Wake(r) PROVE Timely'
  BY <1>2 DEF Wake
<1>3. ASSUME NEW r \in Requests, Cancel(r) PROVE Timely'
  BY <1>3 DEF Cancel
<1>4. ASSUME NEW r \in Requests, Send(r) PROVE Timely'
  BY <1>4 DEF Send
<1>5. CASE Tick
  BY <1>5 DEF Tick, Before, Due
<1>6. CASE UNCHANGED vars
  BY <1>6 DEF vars
<1> QED  BY <1>1, <1>2, <1>3, <1>4, <1>5, <1>6 DEF Next, RoundTrip

(* The inductive step. *)
LEMMA InvStep == Inv /\ [Next]_vars => Inv'
  BY TypeStep, GrantedStep, TimelyStep DEF Inv

(* Inv holds in every reachable state. *)
LEMMA Invariance == Spec => []Inv
  BY InvInit, InvStep, PTL DEF Spec

-----------------------------------------------------------------------------
(* The slots of pacingTransport never run ahead of what was asked for. *)
THEOREM TypeCorrect == Spec => []TypeOK
<1>1. Inv => TypeOK
  BY DEF Inv
<1> QED  BY <1>1, Invariance, PTL

(* N concurrent requests reserve N slots an interval apart, for any N and   *)
(* whichever of them are cancelled.                                         *)
THEOREM SlotsAreSpaced == Spec => []SlotsSpaced
<1>1. Inv => SlotsSpaced
  BY DEF Inv, Granted, Waiting, Apart, SlotsSpaced
<1> QED  BY <1>1, Invariance, PTL

(* However late goroutines run, up to Lag ticks after their slots,          *)
(* consecutive requests start at least interval - Lag apart.                *)
THEOREM StartsAreSpaced == Spec => StartsSpaced
<1>1. Inv /\ [Next]_vars =>
        [(\E r \in Requests : pc[r] = "send" /\ pc'[r] # "send")
         => quiet >= interval - Lag]_vars
  <2> SUFFICES ASSUME Inv, NEW r \in Requests, pc[r] = "send"
               PROVE  quiet >= interval - Lag
    OBVIOUS
  <2> USE PacingAssumption DEF Inv, TypeOK
  <2>1. CASE Lag < interval
    BY <2>1 DEF Timely, Active, Slot
  <2>2. CASE ~(Lag < interval)
    BY <2>2 DEF Unpaced
  <2> QED  BY <2>1, <2>2
<1> QED  BY <1>1, Invariance, PTL DEF Spec, StartsSpaced

=============================================================================
