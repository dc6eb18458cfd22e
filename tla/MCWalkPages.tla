----------------------------- MODULE MCWalkPages -----------------------------
(* Bounded instances of WalkPages for TLC. *)
EXTENDS WalkPages

Opt(m, p, c) == [MaxPages |-> m, PerPage |-> p, Concurrency |-> c]

(* A walk that is refused, a single page, a sequential walk, two workers    *)
(* for three pages, and the defaults (100 per page, 3 workers).             *)
MixedOptions == {Opt(0, 2, 1), Opt(1, 2, 2), Opt(4, 2, 1), Opt(4, 2, 2),
                 Opt(4, 0, 0)}

(* One option set with more pages than the workers can hold. *)
WideOptions == {Opt(5, 2, 2)}

(* An empty collection, one that ends on a page boundary, one that ends     *)
(* within a page, and one that is longer than MaxPages.                     *)
MixedCollections == {[full |-> 0, rest |-> 0], [full |-> 2, rest |-> 0],
                     [full |-> 2, rest |-> 1], [full |-> 5, rest |-> 0]}

LongCollection == {[full |-> 5, rest |-> 0]}
=============================================================================
