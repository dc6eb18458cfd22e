---------------------------- MODULE MCETagCache ------------------------------
(* Bounded instances of ETagCache for TLC. *)
EXTENDS ETagCache, TLC

CONSTANTS r1, r2

(* Servers that give each credential its own ETags and servers that do not, *)
(* with the caller's Authorization or below a transport that rotates tokens.*)
Servers == [inner : BOOLEAN, discerning : BOOLEAN]

(* The second kind of server, with rotating tokens. *)
BlindServers == {[inner |-> TRUE, discerning |-> FALSE]}

(* The goroutines are interchangeable. *)
Goroutines == Permutations(Requests)
=============================================================================
