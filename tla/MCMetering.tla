----------------------------- MODULE MCMetering -----------------------------
(* Two events of one customer, one billable and one a cache hit, in a topic *)
(* of three messages: room for a duplicate and for a message behind it.     *)
EXTENDS Metering, TLC
CONSTANTS e1, e2, c1

MCEvents     == {e1, e2}
MCCustomerOf == [e \in MCEvents |-> c1]
MCCost       == (e1 :> 1) @@ (e2 :> 0)
=============================================================================
