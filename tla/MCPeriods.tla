----------------------------- MODULE MCPeriods -----------------------------
(* Two events of different costs over three months of two days, and two     *)
(* exports: a counter can be charged on the first day of its month, be read *)
(* on the last, expire, and be revived by an event two months late.         *)
EXTENDS Periods, TLC
CONSTANTS e1, e2, x1, x2

MCCost     == (e1 :> 1) @@ (e2 :> 2)
\* A lost event and a failed export are no more than one that never was.  A
\* lost reply, of one event at most, need not meet a second export.
HasLost(e) == charges[e] > IF stage[e] \in {"expire", "charged"} THEN 1 ELSE 0
MCBound    ==
  /\ \A e \in Events : stage[e] # "lost"
  /\ \A x \in Exports : export[x] # "failed"
  /\ Cardinality({e \in Events : HasLost(e)}) <= 1
  /\ (\E e \in Events : HasLost(e)) => \E x \in Exports : export[x] = "idle"
MCSymmetry == Permutations({x1, x2})
=============================================================================
