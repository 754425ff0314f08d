--------------------------- MODULE MCMarginPilot ---------------------------
(* Two requests of one customer, of one price, with different prompts or    *)
(* one prompt, and a limit that one request uses up.                        *)
EXTENDS MarginPilot, TLC
CONSTANTS q1, q2, c1, p1, p2

MCRequests    == {q1, q2}
MCCustomerOf  == [r \in MCRequests |-> c1]
MCPrompts     == {p1, p2}
MCPromptOf    == (q1 :> p1) @@ (q2 :> p2)
MCSamePrompt  == [r \in MCRequests |-> p1]
MCGuard       == [p \in MCPrompts |-> p]
MCFingerprint == (p1 :> 1) @@ (p2 :> 2)
MCPrice       == [r \in MCRequests |-> 1]

\* For MCSamePrompt only.
MCSymmetry    == Permutations(MCRequests)
\* The clock and the operator meet, and so do a drop, a fault and a rejoin,
\* but one of these does not meet one of those.
MCBound ==
  LET outside == now + Cardinality({c \in Customers : limit[c] # 0})
  IN  outside = 0 \/ drops + faults + rejoins = 0
=============================================================================
