----------------------------- MODULE Anomalies -----------------------------
(***************************************************************************)
(* Analytics' anomaly rule for one customer: a day's spend stands out when *)
(* it is above the mean of all days by more than three times their         *)
(* standard deviation.  Days are the groups of the query, so a day without *)
(* a usage row is no day, and one with cache hits alone is a day of spend  *)
(* 0.  The order of the days plays no part, and days of equal spend are    *)
(* flagged together; so the days are a bag of spends here.                 *)
(*                                                                         *)
(* Mean and deviation are compared without their division and root.  Where *)
(* both sides are equal, the floats of the code may go either way.         *)
(***************************************************************************)
EXTENDS Integers, Functions

\* Natural numbers.
CONSTANTS Costs,    \* costs of a usage row
          MaxSpend, \* bound: spend of a day
          MaxDays   \* bound: days with usage

VARIABLES days, \* days[v]: how many days before today have spend v
          today \* the spend of today, or NoRows

vars == <<days, today>>

----------------------------------------------------------------------------
Spends == 0 .. MaxSpend
NoRows == -1

\* What the query returns: the number of days of each spend.
Points == [v \in Spends |-> days[v] + (IF v = today THEN 1 ELSE 0)]

Number  == SumFunctionOnSet(Points, Spends)
Total   == SumFunctionOnSet([v \in Spends |-> v * Points[v]], Spends)
Squares == SumFunctionOnSet([v \in Spends |-> v * v * Points[v]], Spends)

\* Mutant: twice the deviation.
TwoDeviations == 2

\* How many deviations above the mean stand out.
Deviations == 3

Excess(v) == Number * v - Total              \* Number times the distance to the mean
Spread    == Number * Squares - Total * Total \* the square of Number times the deviation
Limit     == Deviations * Deviations * Spread

Above(v)  == Points[v] > 0 /\ Excess(v) > 0 /\ Excess(v) * Excess(v) > Limit
OnEdge(v) == Points[v] > 0 /\ Excess(v) > 0 /\ Excess(v) * Excess(v) = Limit

\* The sets of spends that anomalies may flag.
Flagged ==
  IF Number < 3 \/ Spread = 0 THEN {{}}
  ELSE {{v \in Spends : Above(v)} \cup edge : edge \in SUBSET {v \in Spends : OnEdge(v)}}

----------------------------------------------------------------------------
Init == days = [v \in Spends |-> 0] /\ today = NoRows

\* A usage row of today.
Row(c) ==
  /\ today' = (IF today = NoRows THEN 0 ELSE today) + c
  /\ today' <= MaxSpend /\ Number < MaxDays
  /\ UNCHANGED days

\* A row of an earlier day, stored late: of one with rows or the first of its day.
LateRow(v, c) ==
  /\ days[v] > 0 /\ v + c <= MaxSpend
  /\ days' = [u \in Spends |-> days[u] - (IF u = v THEN 1 ELSE 0) + (IF u = v + c THEN 1 ELSE 0)]
  /\ UNCHANGED today

FirstLateRow(c) ==
  /\ c <= MaxSpend /\ Number < MaxDays
  /\ days' = [days EXCEPT ![c] = @ + 1]
  /\ UNCHANGED today

Midnight ==
  /\ today # NoRows
  /\ days' = Points /\ today' = NoRows

Next ==
  \/ Midnight
  \/ \E c \in Costs : Row(c) \/ FirstLateRow(c) \/ \E v \in Spends : LateRow(v, c)

Spec == Init /\ [][Next]_vars

----------------------------------------------------------------------------
(***************************************************************************)
(* Every variable stays in its range.                                      *)
(***************************************************************************)
TypeOK ==
  /\ days \in [Spends -> 0 .. MaxDays] /\ today \in Spends \cup {NoRows}
  /\ Number <= MaxDays

(***************************************************************************)
(* What the rule can find depends on the number of days more than on what  *)
(* was spent: never more than a tenth of the days are flagged, so none at  *)
(* all of fewer than ten, however large, although the code looks from the  *)
(* third day on; and of more than ten, a single day above days of equal    *)
(* spend always is, however small the step.                                *)
(***************************************************************************)
SpikesTakeElevenDays ==
  \A flagged \in Flagged :
    /\ 10 * SumFunctionOnSet(Points, flagged) <= Number
    /\ \A v, w \in Spends :
         v < w /\ Points[w] = 1 /\ Points[v] = Number - 1 /\ Number > 10 => w \in flagged
=============================================================================
