------------------------------ MODULE MCKernel -------------------------------
(* A bounded instance of Kernel for TLC. *)
EXTENDS Kernel

CONSTANT g1

(* The default list finds its first variable, the others none or their last. *)
Environs == {{"GITHUB_TOKEN", "GH_TOKEN"}}
Lists    == {<<>>, <<"MY_TOKEN">>, <<"MY_TOKEN", "GH_TOKEN">>}

Hosted   == [empty |-> FALSE, parses |-> TRUE, host |-> TRUE, slash |-> FALSE]
URLs     == {Hosted, [Hosted EXCEPT !.host = FALSE]}

Clients  == {[set |-> TRUE, transport |-> TRUE, timeout |-> 5]}

Limits   == {[MinRemaining |-> 2, MaxWait |-> 5]}
Retrying == {[MaxRetries |-> 2]}

(* Known to be spent until long after the default wait, and not spent. *)
Budgets  == {[remaining |-> 0, resetIn |-> 3], [remaining |-> 1, resetIn |-> 3]}
=============================================================================
