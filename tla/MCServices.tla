----------------------------- MODULE MCServices -----------------------------
(* Two of rating's models with the numbers of its seed and one it does not  *)
(* know, two demo keys and one of an operator's, and two tenants with a     *)
(* customer of the same name, subscribed in one of them.                    *)
EXTENDS Services, FiniteSets, TLC
CONSTANTS mini, echo, dflt, other, k1, k2, k3, t1, t2, c1, c2

Rate(i, o)  == [in |-> i, out |-> o]
Changed(r)  == (0 :> r) @@ (1 :> Rate(r.in + 1, r.out))

MCSeedRows  == <<mini, echo, dflt>>
MCRates     == (mini :> Changed(Rate(3, 12))) @@ (echo :> Changed(Rate(2, 2)))
                 @@ (dflt :> Changed(Rate(20, 60)))
MCDemoKeys  == <<k1, k2>>
MCDemoSubs  == <<<<t1, c1>>, <<t1, c2>>>>
MCSubs      == {<<t1, c1>>, <<t1, c2>>}
MCAccounts  == {<<t1, c1>>, <<t2, c1>>}

(***************************************************************************)
(* What need not meet: a row that the operator deletes and others that the *)
(* operator changes; in billing, two such rows, or one and a usage row.    *)
(***************************************************************************)
MCTouched == {k \in Rows : table[k] > 0} \cup Range(deleted)
MCBound   ==
  \/ MCTouched = {}
  \/ deleted = << >> /\ service # "billing"
  \/ Cardinality(MCTouched) = 1 /\ \A a \in Accounts : usage[a] = 0
=============================================================================
