------------------------------ MODULE MCBudget ------------------------------
(***************************************************************************)
(* Two instances of Budget.  MCBudgetRate fills rate windows: the clock    *)
(* moves, replies are lost, limits and costs play no part.  MCBudgetSpend  *)
(* races calls for one limit: costs and limits vary, the clock stands.     *)
(***************************************************************************)
EXTENDS Budget, TLC
CONSTANTS r1, r2, r3, c1

MCCalls      == {r1, r2, r3}
MCCustomers  == {c1}
MCCustomerOf == [r \in MCCalls |-> c1]
MCLimits     == {-1, 2}
MCSymmetry   == Permutations(MCCalls)
=============================================================================
