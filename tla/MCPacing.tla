------------------------------ MODULE MCPacing -------------------------------
(* Bounded instances of Pacing for TLC. *)
EXTENDS Pacing, TLC

CONSTANTS r1, r2, r3, r4

(* The requests are interchangeable. *)
Senders == Permutations(Requests)
=============================================================================
