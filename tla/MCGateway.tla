----------------------------- MODULE MCGateway -----------------------------
(* Three requests: one with a plain prompt, one whose prompt differs from   *)
(* it only in the personal data that the guardrail redacts, so that the two *)
(* share a cache key once guarded, and one whose prompt it blocks.          *)
EXTENDS Gateway, TLC
CONSTANTS q1, q2, q3, plain, personal, listed

MCPrompts     == {plain, personal, listed}
MCPromptOf    == (q1 :> plain) @@ (q2 :> personal) @@ (q3 :> listed)
MCGuard       == (plain :> plain) @@ (personal :> plain) @@ (listed :> Nothing)
MCFingerprint == (plain :> 1) @@ (personal :> 2) @@ (listed :> 3)
=============================================================================
