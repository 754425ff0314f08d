--------------------------- MODULE Periods_proofs ---------------------------
(***************************************************************************)
(* Proofs about billing months: the type invariant, the completeness of    *)
(* the running counter, that no month pays for another, and what billing   *)
(* exports.                                                                *)
(***************************************************************************)
EXTENDS Periods, SumTheorems

USE EventsAssumption, ExportsAssumption, TimeAssumption, ResendsAssumption

Stages == {"none", "sent", "lost", "row", "failed", "expire", "charged"}

----------------------------------------------------------------------------
(* Facts about months.                                                      *)

\* A day lies in its month.
LEMMA DayInMonth ==
  ASSUME NEW t \in Nat
  PROVE  /\ MonthOf(t) \in Nat
         /\ MonthLength * MonthOf(t) <= t
         /\ t < MonthLength * MonthOf(t) + MonthLength
  BY SMT DEF MonthOf

\* Months follow each other as days do.
LEMMA MonthsInOrder ==
  ASSUME NEW s \in Nat, NEW t \in Nat, s <= t
  PROVE  MonthOf(s) <= MonthOf(t)
  BY SMT DEF MonthOf

LEMMA MonthInRange == ASSUME NEW t \in 0 .. Horizon PROVE MonthOf(t) \in Months
<1>1. t \in Nat /\ Horizon \in Nat /\ t <= Horizon
  BY SMT
<1>2. MonthOf(t) \in Nat /\ MonthOf(Horizon) \in Nat /\ MonthOf(t) <= MonthOf(Horizon)
  BY <1>1, DayInMonth, MonthsInOrder
<1> QED
  BY <1>2, SMT DEF Months

LEMMA MonthsFinite == IsFiniteSet(Months) /\ Months \subseteq Nat
<1>1. MonthOf(Horizon) \in Nat
  BY DayInMonth
<1> QED
  BY <1>1, FS_Interval DEF Months

----------------------------------------------------------------------------
(* Facts about costs.                                                       *)

LEMMA CostType == ASSUME NEW S \in SUBSET Events PROVE CostOf(S) \in Nat
<1>1. IsFiniteSet(S)
  BY FS_Subset
<1> QED
  BY <1>1, SumNat DEF CostOf

LEMMA CostSubset ==
  ASSUME NEW S \in SUBSET Events, NEW T \in SUBSET S
  PROVE  CostOf(T) <= CostOf(S)
<1>1. IsFiniteSet(S)
  BY FS_Subset
<1> QED
  BY <1>1, SumSubset DEF CostOf

\* A month's rows are events.
LEMMA RowsOfMonth ==
  ASSUME NEW m PROVE In(Rows, m) \in SUBSET Events /\ IsFiniteSet(In(Rows, m))
<1>1. In(Rows, m) \in SUBSET Events
  BY DEF In, Rows
<1> QED
  BY <1>1, FS_Subset

LEMMA RowsOfMonthNext ==
  ASSUME NEW m PROVE In(Rows, m)' \in SUBSET Events /\ IsFiniteSet(In(Rows, m)')
<1>1. In(Rows, m)' \in SUBSET Events
  BY DEF In, Rows
<1> QED
  BY <1>1, FS_Subset

----------------------------------------------------------------------------
(* Facts about what has been added to the counters.                         *)

Taken == [e \in Events |-> charges[e] * Cost[e]]

LEMMA AddedIsSum == \A m : Added(m) = SumFunctionOnSet(Taken, In(Rows, m))
  BY DEF Added, Taken

LEMMA TakenType == TypeOK => Taken \in [Events -> Nat] /\ Taken \in [Events -> Int]
<1> SUFFICES ASSUME TypeOK PROVE \A e \in Events : charges[e] * Cost[e] \in Nat
  BY DEF Taken
<1>1. \A e \in Events : charges[e] \in Nat /\ Cost[e] \in Nat
  BY SMT DEF TypeOK
<1> QED
  BY <1>1, ProductNat

LEMMA AddedType == ASSUME TypeOK, NEW m PROVE Added(m) \in Nat
  BY TakenType, AddedIsSum, RowsOfMonth, SumNat

\* Redis applies an INCRBY once per attempt of its client.
LEMMA AddedPerAttempt ==
  ASSUME TypeOK, NEW m
  PROVE  /\ Added(m) <= (Resends + 1) * CostOf(In(Rows, m))
         /\ (Resends + 1) * CostOf(In(Rows, m)) \in Nat
<1> DEFINE k == Resends + 1
           Most == [e \in Events |-> k * Cost[e]]
<1>1. k \in Nat /\ k \in Int
  OBVIOUS
<1>2. \A e \in Events : Most[e] \in Nat /\ Most[e] = k * Cost[e]
  <2>1. \A e \in Events : k * Cost[e] \in Nat
    BY <1>1, ProductNat
  <2> QED
    BY <2>1
<1>3. \A e \in Events : Taken[e] <= Most[e]
  <2> TAKE e \in Events
  <2>1. charges[e] \in Nat /\ charges[e] <= k /\ Cost[e] \in Nat
    BY SMT DEF TypeOK
  <2> HIDE DEF k
  <2>2. Cost[e] * k >= Cost[e] * charges[e]
    <3>1. charges[e] \in Int /\ k \in Int /\ k >= charges[e]
      BY <1>1, <2>1, SMT
    <3> QED
      BY <2>1, <3>1, ProductGrows
  <2>3. Cost[e] * k = k * Cost[e] /\ Cost[e] * charges[e] = charges[e] * Cost[e]
    BY <1>1, <2>1, SMT
  <2>4. Taken[e] = charges[e] * Cost[e]
    BY DEF Taken
  <2>5. charges[e] * Cost[e] \in Nat /\ k * Cost[e] \in Nat
    BY <1>1, <2>1, ProductNat
  <2> QED
    BY <1>2, <2>2, <2>3, <2>4, <2>5
<1>4. Most \in [Events -> Int] /\ Cost \in [Events -> Int] /\ Taken \in [Events -> Int]
  BY <1>2, TakenType
<1> HIDE DEF k, Most
<1>5. SumFunctionOnSet(Taken, In(Rows, m)) <= SumFunctionOnSet(Most, In(Rows, m))
  <2>1. In(Rows, m) \in SUBSET (Events \cap Events) /\ \A e \in In(Rows, m) : Taken[e] <= Most[e]
    BY <1>3, RowsOfMonth
  <2> QED
    BY <1>4, <2>1, RowsOfMonth, SumMonotone
<1>6. SumFunctionOnSet(Most, In(Rows, m)) = k * SumFunctionOnSet(Cost, In(Rows, m))
  <2>1. /\ In(Rows, m) \in SUBSET (Events \cap Events)
        /\ \A e \in In(Rows, m) : Most[e] = k * Cost[e]
    BY <1>2, RowsOfMonth
  <2> QED
    BY <1>1, <1>4, <2>1, RowsOfMonth, SumScale
<1>7. k * CostOf(In(Rows, m)) \in Nat
  BY <1>1, RowsOfMonth, CostType, ProductNat
<1> QED
  BY <1>5, <1>6, <1>7, AddedIsSum DEF k, CostOf

----------------------------------------------------------------------------
LEMMA InitTypeOK == Init => TypeOK
<1> SUFFICES ASSUME Init PROVE TypeOK
  OBVIOUS
<1>1. 0 \in 0 .. Horizon /\ MonthOf(0) \in Months
  BY MonthInRange, SMT
<1>2. 0 \in Months
  BY DayInMonth, SMT DEF Months
<1> QED
  BY <1>1, <1>2 DEF Init, TypeOK

LEMMA NextTypeOK == TypeOK /\ [Next]_vars => TypeOK'
<1> SUFFICES ASSUME TypeOK, [Next]_vars PROVE TypeOK'
  OBVIOUS
<1> USE DEF TypeOK, ledgerVars, exportVars
<1>0. now \in 0 .. Horizon /\ MonthOf(now) \in Months /\ now \in Nat
  BY MonthInRange, SMT
<1>1. ASSUME NEW e \in Events, Emit(e) PROVE TypeOK'
  BY <1>0, <1>1 DEF Emit, Move
<1>2. ASSUME NEW e \in Events, Lose(e) \/ Insert(e) \/ IncrByFails(e) \/ ExpireFails(e)
      PROVE  TypeOK'
  BY <1>2 DEF Lose, Insert, IncrByFails, ExpireFails, Move
<1>3. ASSUME NEW e \in Events, IncrBy(e) \/ IncrByLost(e) PROVE TypeOK'
  <2>1. ApplyIncrBy(e) /\ stage' \in [Events -> Stages]
    BY <1>3 DEF IncrBy, IncrByLost, Move, Stages
  <2>2. KeyOf(e) \in Months
    BY MonthInRange DEF KeyOf, Month
  <2>3. spend[KeyOf(e)] + Cost[e] \in Nat
    BY <2>2
  <2>4. spend' \in [Months -> Nat] /\ live' \subseteq Months
    BY <2>1, <2>2, <2>3 DEF ApplyIncrBy
  <2>5. charges' \in [Events -> 0 .. Resends + 1]
    <3>1. charges[e] + 1 \in 0 .. Resends + 1
      BY <2>1, SMT DEF ApplyIncrBy
    <3> QED
      BY <2>1, <3>1 DEF ApplyIncrBy
  <2> QED
    BY <2>1, <2>4, <2>5 DEF ApplyIncrBy, Stages
<1>4. ASSUME NEW e \in Events, Expire(e) \/ ExpireLost(e) PROVE TypeOK'
  <2>1. ApplyExpire(e) /\ stage' \in [Events -> Stages]
    BY <1>4 DEF Expire, ExpireLost, Move, Stages
  <2>2. Renewed \in Nat
    BY <1>0 DEF Renewed
  <2>3. expiry' \in [Months -> Nat]
    BY <2>1, <2>2 DEF ApplyExpire
  <2> QED
    BY <2>1, <2>3 DEF ApplyExpire, Stages
<1>5. ASSUME NEW x \in Exports, ReadCogs(x) PROVE TypeOK'
  <2>1. CostOf(In(Rows, MonthOf(now))) \in Nat
    <3>1. In(Rows, MonthOf(now)) \in SUBSET Events
      BY DEF In, Rows
    <3> QED
      BY <3>1, CostType
  <2>2. value' \in [Exports -> Nat] /\ readIn' \in [Exports -> Months]
    BY <1>0, <1>5, <2>1 DEF ReadCogs
  <2>3. export' \in [Exports -> {"idle", "read", "posted", "failed"}]
    BY <1>5 DEF ReadCogs, Step
  <2> QED
    BY <1>5, <2>2, <2>3 DEF ReadCogs
<1>6. ASSUME NEW x \in Exports, Post(x) PROVE TypeOK'
  <2>1. meter[MonthOf(now)] + value[x] \in Nat
    BY <1>0
  <2>2. meter' \in [Months -> Nat]
    BY <1>0, <1>6, <2>1 DEF Post
  <2> QED
    BY <1>6, <2>2 DEF Post, Step
<1>7. ASSUME NEW x \in Exports, ExportFails(x) PROVE TypeOK'
  BY <1>7 DEF ExportFails, Step
<1>8. ASSUME Tick PROVE TypeOK'
  <2>1. now' \in 0 .. Horizon
    BY <1>8, SMT DEF Tick
  <2>2. spend' \in [Months -> Nat] /\ expiry' \in [Months -> Nat] /\ live' \subseteq Months
    BY <1>8 DEF Tick
  <2> QED
    BY <1>8, <2>1, <2>2 DEF Tick
<1>9. CASE UNCHANGED vars
  BY <1>9 DEF vars
<1> QED
  BY <1>1, <1>2, <1>3, <1>4, <1>5, <1>6, <1>7, <1>8, <1>9 DEF Next, Meter

\* Every variable stays in its range, for months of any length, any TTL of
\* at least a month, and any number of events and exports.
THEOREM TypeCorrect == Spec => []TypeOK
  BY InitTypeOK, NextTypeOK, PTL DEF Spec

----------------------------------------------------------------------------
(***************************************************************************)
(* The counters.  RunningCounterComplete is not inductive: the month that  *)
(* begins next must be complete too, with no charge in it yet, and a TTL   *)
(* must be known to end after the month it is for.                         *)
(***************************************************************************)
CounterInv ==
  /\ \A e \in Events : occurred[e] <= now
  /\ \A e \in Events : charges[e] # 0 => e \in Rows
  /\ \A m \in Months : expiry[m] # 0 => expiry[m] >= MonthLength * m + MonthLength
  /\ \A m \in Months : m >= MonthOf(now) => spend[m] = Added(m)
  /\ \A m \in Months : spend[m] <= Added(m)

\* The steps that add to a counter.
Charging == \E e \in Events : ApplyIncrBy(e)

\* What they leave alone, and what the others do to charges.
LEMMA OthersChargeNothing ==
  [Next]_vars => Charging \/ charges' = charges
BY DEF Next, Meter, Emit, Lose, Insert, IncrBy, IncrByLost, IncrByFails, Expire, ExpireLost,
       ExpireFails, ApplyExpire, ReadCogs, Post, ExportFails, Tick, vars, ledgerVars, Charging

\* An event that has a row keeps it, in its month; a new row is no charge yet.
LEMMA RowsGrow ==
  ASSUME TypeOK, [Next]_vars
  PROVE  \/ \A e \in Events : /\ e \in Rows' <=> e \in Rows
                              /\ e \in Rows => occurred'[e] = occurred[e]
         \/ \E d \in Events : Insert(d)
<1> USE DEF TypeOK
<1>1. ASSUME NEW d \in Events, Emit(d) \/ Meter(d), ~Insert(d), NEW e \in Events
      PROVE  (e \in Rows' <=> e \in Rows) /\ (e \in Rows => occurred'[e] = occurred[e])
  BY <1>1 DEF Meter, Emit, Lose, IncrBy, IncrByLost, IncrByFails, Expire, ExpireLost,
              ExpireFails, ApplyExpire, ApplyIncrBy, Move, Rows
<1>2. ASSUME UNCHANGED <<stage, occurred>>, NEW e \in Events
      PROVE  (e \in Rows' <=> e \in Rows) /\ (e \in Rows => occurred'[e] = occurred[e])
  BY <1>2 DEF Rows
<1>3. \/ \E d \in Events : Emit(d) \/ Meter(d)
      \/ UNCHANGED <<stage, occurred>>
  BY DEF Next, ReadCogs, Post, ExportFails, Tick, vars
<1> QED
  BY <1>1, <1>2, <1>3

LEMMA MonthsRowsStay ==
  ASSUME TypeOK, [Next]_vars, ~(\E d \in Events : Insert(d)), NEW m
  PROVE  In(Rows, m)' = In(Rows, m)
<1>1. \A e \in Events : e \in In(Rows, m)' <=> e \in In(Rows, m)
  BY RowsGrow DEF In, Month
<1> QED
  BY <1>1, RowsOfMonth, RowsOfMonthNext

\* No other step changes what has been added.
LEMMA AddedStays ==
  ASSUME TypeOK, CounterInv, [Next]_vars, ~Charging, NEW m
  PROVE  Added(m)' = Added(m)
<1>1. charges' = charges /\ Taken' = Taken
  BY OthersChargeNothing DEF Taken
<1>2. CASE \E d \in Events : Insert(d)
  <2>1. PICK d \in Events : Insert(d)
    BY <1>2
  <2>2. Rows' = Rows \cup {d} /\ d \notin Rows /\ occurred' = occurred
    BY <2>1 DEF Rows, Insert, Move, TypeOK
  <2>3. CASE m = Month(d)
    <3>1. In(Rows, m)' = In(Rows, m) \cup {d} /\ d \in Events \ In(Rows, m)
      BY <2>2, <2>3 DEF In, Month
    <3>2. Taken[d] = 0
      <4>1. charges[d] = 0 /\ Cost[d] \in Nat
        BY <2>2 DEF CounterInv
      <4> QED
        BY <4>1, SMT DEF Taken
    <3>3. SumFunctionOnSet(Taken, In(Rows, m) \cup {d})
            = Taken[d] + SumFunctionOnSet(Taken, In(Rows, m))
      BY <3>1, TakenType, RowsOfMonth, SumAdd
    <3>4. SumFunctionOnSet(Taken, In(Rows, m)) \in Nat
      BY AddedType, AddedIsSum
    <3>5. Added(m)' = SumFunctionOnSet(Taken, In(Rows, m) \cup {d})
      BY <1>1, <3>1, AddedIsSum DEF Added, Taken
    <3> QED
      BY <3>2, <3>3, <3>4, <3>5, AddedIsSum
  <2>4. CASE m # Month(d)
    <3>1. In(Rows, m)' = In(Rows, m)
      BY <2>2, <2>4 DEF In, Month
    <3> QED
      BY <1>1, <3>1 DEF Added
  <2> QED
    BY <2>3, <2>4
<1>3. CASE ~(\E d \in Events : Insert(d))
  BY <1>1, <1>3, MonthsRowsStay DEF Added
<1> QED
  BY <1>2, <1>3

\* A charge adds its cost to its month.
LEMMA ChargeCounts ==
  ASSUME TypeOK, TypeOK', [Next]_vars, NEW e \in Events, ApplyIncrBy(e), NEW m
  PROVE  Added(m)' = Added(m) + (IF m = Month(e) THEN Cost[e] ELSE 0)
<1>1. /\ charges \in [Events -> Nat] /\ charges' \in [Events -> Nat]
      /\ charges'[e] = charges[e] + 1 /\ \A d \in Events \ {e} : charges'[d] = charges[d]
  BY SMT DEF TypeOK, ApplyIncrBy
<1>2. Taken \in [Events -> Int] /\ Taken' \in [Events -> Int]
  <2>1. \A d \in Events : charges'[d] * Cost[d] \in Nat
    BY <1>1, ProductNat
  <2> QED
    BY <2>1, TakenType DEF Taken
<1>3. Taken'[e] = Taken[e] + Cost[e]
  <2>1. charges[e] \in Nat /\ Cost[e] \in Nat
    BY <1>1
  <2>2. (charges[e] + 1) * Cost[e] = charges[e] * Cost[e] + Cost[e]
    BY <2>1, SMT
  <2> QED
    BY <1>1, <2>2 DEF Taken
<1>4. \A d \in Events \ {e} : Taken'[d] = Taken[d]
  BY <1>1 DEF Taken
<1>5. In(Rows, m)' = In(Rows, m)
  <2>1. stage[e] = "row"
    BY DEF ApplyIncrBy
  <2>2. ASSUME NEW d \in Events, Insert(d) PROVE FALSE
    BY <1>1, <2>2 DEF Insert, ledgerVars, ApplyIncrBy, TypeOK
  <2> QED
    BY <2>2, MonthsRowsStay
<1>6. SumFunctionOnSet(Taken', In(Rows, m))
        = SumFunctionOnSet(Taken, In(Rows, m)) + (IF e \in In(Rows, m) THEN Cost[e] ELSE 0)
  <2>1. Cost[e] \in Int
    OBVIOUS
  <2> QED
    BY <1>2, <1>3, <1>4, <2>1, RowsOfMonth, SumGrows
<1>7. e \in In(Rows, m) <=> m = Month(e)
  BY DEF ApplyIncrBy, In, Rows
<1>8. Added(m)' = SumFunctionOnSet(Taken', In(Rows, m))
  BY <1>5 DEF Added, Taken
<1> QED
  BY <1>6, <1>7, <1>8, AddedIsSum

LEMMA InitCounterInv == Init => CounterInv
<1> SUFFICES ASSUME Init PROVE CounterInv
  OBVIOUS
<1>1. \A m \in Months : Added(m) = 0
  <2>1. \A m \in Months : In(Rows, m) = {}
    BY DEF Init, In, Rows
  <2> QED
    BY <2>1, AddedIsSum, SumEmpty
<1>2. \A m \in Months : expiry[m] = 0 /\ spend[m] = 0 /\ spend[m] <= Added(m)
  BY <1>1 DEF Init
<1>3. \A e \in Events : occurred[e] <= now /\ charges[e] = 0
  BY SMT DEF Init
<1> QED
  BY <1>1, <1>2, <1>3 DEF CounterInv

LEMMA RowStays ==
  ASSUME TypeOK, [Next]_vars, NEW e \in Events, e \in Rows PROVE e \in Rows'
<1>1. CASE \E d \in Events : Insert(d)
  BY <1>1 DEF Insert, Move, Rows, TypeOK
<1> QED
  BY <1>1, RowsGrow

LEMMA NextCounterInv == TypeOK /\ TypeOK' /\ CounterInv /\ [Next]_vars => CounterInv'
<1> SUFFICES ASSUME TypeOK, TypeOK', CounterInv, [Next]_vars PROVE CounterInv'
  OBVIOUS
<1>0. /\ now \in Nat /\ occurred \in [Events -> Nat]
      /\ spend \in [Months -> Nat] /\ expiry \in [Months -> Nat]
  BY SMT DEF TypeOK
<1>1. \A m \in Months : m \in Nat /\ Added(m) \in Nat
  BY AddedType, MonthsFinite
<1>2. CASE Charging
  <2>1. PICK e \in Events : ApplyIncrBy(e)
    BY <1>2 DEF Charging
  <2>2. UNCHANGED <<now, occurred, expiry>> /\ KeyOf(e) = Month(e)
    BY <2>1 DEF ApplyIncrBy, KeyOf
  <2>3. ASSUME NEW m \in Months
        PROVE  spend'[m] = spend[m] + (IF m = Month(e) THEN Cost[e] ELSE 0)
    <3>1. m # Month(e) => spend'[m] = spend[m]
      BY <1>0, <2>1, <2>2 DEF ApplyIncrBy
    <3>2. m = Month(e) => spend'[m] = spend[m] + Cost[e]
      BY <1>0, <2>1, <2>2 DEF ApplyIncrBy
    <3>3. spend[m] \in Nat
      BY <1>0
    <3> QED
      BY <3>1, <3>2, <3>3
  <2>4. ASSUME NEW m \in Months
        PROVE  /\ spend'[m] <= Added(m)'
               /\ m >= MonthOf(now) => spend'[m] = Added(m)'
    <3> DEFINE k == IF m = Month(e) THEN Cost[e] ELSE 0
    <3>1. k \in Nat /\ spend[m] \in Nat /\ Added(m) \in Nat
      BY <1>0, <1>1
    <3>2. /\ spend[m] <= Added(m)
          /\ m >= MonthOf(now) => spend[m] = Added(m)
      BY DEF CounterInv
    <3>3. spend'[m] = spend[m] + k /\ Added(m)' = Added(m) + k
      BY <2>1, <2>3, ChargeCounts
    <3> HIDE DEF k
    <3> QED
      BY <3>1, <3>2, <3>3
  <2>5. MonthOf(now)' = MonthOf(now) /\ Months' = Months
    BY <2>2 DEF MonthOf, Months
  <2>6. ASSUME NEW d \in Events, charges'[d] # 0 PROVE d \in Rows'
    <3>1. d \in Rows
      <4>1. d = e \/ charges'[d] = charges[d]
        BY <2>1 DEF ApplyIncrBy, TypeOK
      <4>2. e \in Rows
        BY <2>1 DEF ApplyIncrBy, Rows
      <4> QED
        BY <2>6, <4>1, <4>2 DEF CounterInv
    <3> QED
      BY <3>1, RowStays
  <2> QED
    BY <2>2, <2>4, <2>5, <2>6 DEF CounterInv
<1>3. CASE ~Charging
  <2>0. \A m \in Months : Added(m)' = Added(m)
    BY <1>3, AddedStays
  <2>c. ASSUME NEW d \in Events, charges'[d] # 0 PROVE d \in Rows'
    BY <1>3, <2>c, OthersChargeNothing, RowStays DEF CounterInv
  <2>1. CASE \E e \in Events : Emit(e)
    <3>1. PICK e \in Events : Emit(e)
      BY <2>1
    <3>2. \A d \in Events : occurred'[d] <= now
      BY <1>0, <3>1 DEF Emit, CounterInv
    <3>3. UNCHANGED <<now, spend, expiry>>
      BY <3>1 DEF Emit, ledgerVars
    <3> QED
      BY <2>0, <2>c, <3>2, <3>3 DEF CounterInv, MonthOf, Months
  <2>2. CASE \E e \in Events : ApplyExpire(e)
    <3>1. PICK e \in Events : ApplyExpire(e)
      BY <2>2
    <3>2. UNCHANGED <<now, occurred, spend>>
      BY <3>1 DEF ApplyExpire
    <3>3. Renewed \in Nat /\ Renewed >= MonthLength * Month(e) + MonthLength
      <4>1. occurred[e] \in Nat /\ occurred[e] <= now
        BY <1>0 DEF CounterInv
      <4>2. MonthLength * Month(e) <= occurred[e] /\ Month(e) \in Nat
        BY <4>1, DayInMonth DEF Month
      <4>3. MonthLength * Month(e) \in Nat
        BY <4>2, SMT
      <4> QED
        BY <1>0, <4>1, <4>2, <4>3 DEF Renewed
    <3>4. \A m \in Months : expiry'[m] = expiry[m] \/ (m = Month(e) /\ expiry'[m] = Renewed)
      BY <1>0, <3>1 DEF ApplyExpire, KeyOf
    <3>5. \A m \in Months : expiry'[m] # 0 => expiry'[m] >= MonthLength * m + MonthLength
      BY <3>3, <3>4 DEF CounterInv
    <3> QED
      BY <2>0, <2>c, <3>2, <3>5 DEF CounterInv, MonthOf, Months
  <2>3. CASE Tick
    <3>1. now' = now + 1 /\ occurred' = occurred
      BY <2>3 DEF Tick
    <3>2. \A d \in Events : occurred'[d] <= now'
      BY <1>0, <3>1 DEF CounterInv
    <3>3. ASSUME NEW m \in Months
          PROVE  \/ spend'[m] = spend[m] /\ expiry'[m] = expiry[m]
                 \/ expiry[m] # 0 /\ expiry[m] <= now + 1 /\ spend'[m] = 0 /\ expiry'[m] = 0
      <4>1. /\ spend' = [k \in Months |-> IF expiry[k] # 0 /\ expiry[k] <= now + 1
                                        THEN 0 ELSE spend[k]]
            /\ expiry' = [k \in Months |-> IF expiry[k] # 0 /\ expiry[k] <= now + 1
                                         THEN 0 ELSE expiry[k]]
        BY <2>3 DEF Tick
      <4> QED
        BY <4>1
    <3>4. \A m \in Months : expiry'[m] # 0 => expiry'[m] >= MonthLength * m + MonthLength
      BY <3>3 DEF CounterInv
    <3>5. \A m \in Months : spend'[m] <= Added(m)'
      BY <1>0, <1>1, <2>0, <3>3 DEF CounterInv
    <3>6. ASSUME NEW m \in Months, m >= MonthOf(now + 1)
          PROVE  spend'[m] = Added(m)'
      <4>1. MonthOf(now) \in Nat /\ MonthOf(now + 1) \in Nat /\ MonthOf(now) <= MonthOf(now + 1)
            /\ now + 1 < MonthLength * MonthOf(now + 1) + MonthLength
        <5>1. now + 1 \in Nat /\ now <= now + 1
          BY <1>0
        <5> QED
          BY <1>0, <5>1, DayInMonth, MonthsInOrder
      <4>2. m >= MonthOf(now)
        BY <1>1, <3>6, <4>1
      <4>3. now + 1 < MonthLength * m + MonthLength
        <5> DEFINE n == MonthOf(now + 1)
        <5>1. n \in Nat /\ m \in Nat /\ m >= n /\ now + 1 < MonthLength * n + MonthLength
          BY <1>1, <3>6, <4>1
        <5> HIDE DEF n
        <5>2. MonthLength * m >= MonthLength * n
          BY <5>1, SMT
        <5> QED
          BY <1>0, <5>1, <5>2, SMT
      <4>4. MonthLength * m \in Nat /\ expiry[m] \in Nat
        BY <1>0, <1>1, SMT
      <4>5. ~(expiry[m] # 0 /\ expiry[m] <= now + 1)
        BY <1>0, <4>3, <4>4 DEF CounterInv
      <4>6. spend'[m] = spend[m]
        BY <3>3, <4>5
      <4> QED
        BY <2>0, <4>2, <4>6 DEF CounterInv
    <3>7. MonthOf(now)' = MonthOf(now + 1) /\ Months' = Months
      BY <3>1 DEF MonthOf, Months
    <3> QED
      BY <2>c, <3>2, <3>4, <3>5, <3>6, <3>7 DEF CounterInv
  <2>4. CASE UNCHANGED <<now, occurred, spend, expiry>>
    BY <2>0, <2>c, <2>4 DEF CounterInv, MonthOf, Months
  <2>5. \/ \E e \in Events : Emit(e) \/ ApplyExpire(e)
        \/ Tick \/ UNCHANGED <<now, occurred, spend, expiry>>
    BY <1>3 DEF Next, Meter, Lose, Insert, IncrBy, IncrByLost, IncrByFails, Expire, ExpireLost,
                ExpireFails, ReadCogs, Post, ExportFails, vars, ledgerVars, Charging
  <2> QED
    BY <2>1, <2>2, <2>3, <2>4, <2>5
<1> QED
  BY <1>2, <1>3

LEMMA CounterInvHolds == Spec => []CounterInv
<1>1. Spec => []TypeOK
  BY TypeCorrect
<1> QED
  BY <1>1, InitCounterInv, NextCounterInv, PTL DEF Spec

\* For any length of the month, as long as the TTL is at least that: the
\* counter of the running month misses no charge.
THEOREM NoChargeExpiresInItsMonth == Spec => []RunningCounterComplete
<1>1. TypeOK /\ CounterInv => RunningCounterComplete
  <2> SUFFICES ASSUME TypeOK, CounterInv PROVE RunningCounterComplete
    OBVIOUS
  <2>1. MonthOf(now) \in Months /\ MonthOf(now) >= MonthOf(now)
    <3>1. MonthOf(now) \in Months
      BY MonthInRange DEF TypeOK
    <3>2. MonthOf(now) \in Nat
      BY <3>1, MonthsFinite
    <3> QED
      BY <3>1, <3>2, SMT
  <2> QED
    BY <2>1 DEF CounterInv, RunningCounterComplete
<1> QED
  BY <1>1, TypeCorrect, CounterInvHolds, PTL

\* However late the events are charged, in whatever order, and however often
\* a lost reply makes the client of Redis repeat itself: a counter shows no
\* more than was consumed in its month, once per attempt.
THEOREM NoMonthPaysForAnother == Spec => []NoCarryOver
<1>1. TypeOK /\ CounterInv => NoCarryOver
  <2> SUFFICES ASSUME TypeOK, CounterInv, NEW m \in Months
               PROVE  spend[m] <= (Resends + 1) * CostOf(In(Rows, m))
    BY DEF NoCarryOver
  <2>1. spend[m] \in Nat /\ spend[m] <= Added(m) /\ Added(m) \in Nat
    BY AddedType DEF TypeOK, CounterInv
  <2>2. /\ Added(m) <= (Resends + 1) * CostOf(In(Rows, m))
        /\ (Resends + 1) * CostOf(In(Rows, m)) \in Nat
    BY AddedPerAttempt
  <2> QED
    BY <2>1, <2>2
<1> QED
  BY <1>1, TypeCorrect, CounterInvHolds, PTL

\* Whatever was charged late or lost: what the export reads, counted once per
\* attempt of the client of Redis, is at least what the customer could have
\* been blocked for.
THEOREM BilledWhatBlocked == Spec => ExportCoversCounter
<1>1. TypeOK /\ CounterInv /\ [Next]_vars =>
        [\A x \in Exports : export[x] = "idle" /\ export'[x] = "read"
                              => (Resends + 1) * value'[x] >= spend[MonthOf(now)]]_vars
  <2> SUFFICES ASSUME TypeOK, CounterInv, Next,
                      NEW x \in Exports, export[x] = "idle", export'[x] = "read"
               PROVE  (Resends + 1) * value'[x] >= spend[MonthOf(now)]
    OBVIOUS
  <2> DEFINE m == MonthOf(now)
  <2>1. m \in Months
    BY MonthInRange DEF TypeOK
  <2>2. ReadCogs(x)
    BY DEF Next, Meter, Emit, Lose, Insert, IncrBy, IncrByLost, IncrByFails, ApplyIncrBy, Expire,
           ExpireLost, ExpireFails, ApplyExpire, ReadCogs, Post, ExportFails, Tick, Step, TypeOK,
           exportVars
  <2>3. value'[x] = CostOf(In(Rows, m))
    BY <2>2 DEF ReadCogs, TypeOK
  <2>4. spend[m] \in Nat /\ spend[m] <= Added(m) /\ Added(m) \in Nat
    BY <2>1, AddedType DEF TypeOK, CounterInv
  <2>5. /\ Added(m) <= (Resends + 1) * CostOf(In(Rows, m))
        /\ (Resends + 1) * CostOf(In(Rows, m)) \in Nat
    BY AddedPerAttempt
  <2> HIDE DEF m
  <2>6. (Resends + 1) * value'[x] >= spend[m]
    BY <2>3, <2>4, <2>5
  <2> QED
    BY <2>6 DEF m
<1>2. Spec => []TypeOK /\ []CounterInv
  BY TypeCorrect, CounterInvHolds
<1> QED
  BY <1>1, <1>2, PTL DEF Spec, ExportCoversCounter

----------------------------------------------------------------------------
(***************************************************************************)
(* The export.  What the provider has received is what the posted calls    *)
(* have read, each at most the rows of the month it has read.              *)
(***************************************************************************)
HasRead(x) == export[x] \in {"read", "posted"}

ExportInv ==
  /\ \A x \in Exports : HasRead(x) => value[x] <= CostOf(In(Rows, readIn[x]))
  /\ SumFunctionOnSet(meter, Months) = SumFunctionOnSet(value, Posted)

LEMMA PostedFinite == Posted \in SUBSET Exports /\ IsFiniteSet(Posted)
  BY FS_Subset DEF Posted

LEMMA PostedFiniteNext == Posted' \in SUBSET Exports /\ IsFiniteSet(Posted')
  BY FS_Subset DEF Posted

\* A row stays, in its month.
LEMMA RowsStay ==
  ASSUME TypeOK, [Next]_vars, NEW m \in Months
  PROVE  In(Rows, m) \subseteq In(Rows, m)' /\ In(Rows, m)' \in SUBSET Events
<1>1. CASE \E d \in Events : Insert(d)
  BY <1>1, RowsOfMonthNext DEF Insert, Move, In, Rows, Month, TypeOK
<1>2. CASE ~(\E d \in Events : Insert(d))
  BY <1>2, MonthsRowsStay, RowsOfMonthNext
<1> QED
  BY <1>1, <1>2

\* So what has been read stays covered by the rows.
LEMMA ReadStaysCovered ==
  ASSUME TypeOK, TypeOK', [Next]_vars, NEW x \in Exports, HasRead(x),
         value[x] <= CostOf(In(Rows, readIn[x])), value'[x] = value[x], readIn'[x] = readIn[x]
  PROVE  value'[x] <= CostOf(In(Rows, readIn[x]))'
<1> DEFINE m == readIn[x]
<1>1. m \in Months /\ value[x] \in Nat
  BY DEF TypeOK
<1>2. In(Rows, m) \subseteq In(Rows, m)' /\ In(Rows, m)' \in SUBSET Events
  BY <1>1, RowsStay
<1>3. /\ CostOf(In(Rows, m)) <= CostOf(In(Rows, m)')
      /\ CostOf(In(Rows, m)) \in Nat /\ CostOf(In(Rows, m)') \in Nat
  BY <1>2, CostSubset, CostType
<1>4. CostOf(In(Rows, readIn[x]))' = CostOf(In(Rows, m)')
  BY DEF CostOf, In
<1> QED
  BY <1>1, <1>3, <1>4

\* What the meters add up to when one of them changes.
LEMMA MeterUpdate ==
  ASSUME NEW f \in [Months -> Int], NEW g \in [Months -> Int], NEW a \in Months,
         \A k \in Months \ {a} : g[k] = f[k]
  PROVE  SumFunctionOnSet(g, Months) = SumFunctionOnSet(f, Months) + (g[a] - f[a])
<1>1. IsFiniteSet(Months) /\ Months \in SUBSET Months
  BY MonthsFinite
<1> QED
  BY <1>1, SumUpdate

LEMMA InitExportInv == Init => ExportInv
<1> SUFFICES ASSUME Init PROVE ExportInv
  OBVIOUS
<1>1. Posted = {} /\ SumFunctionOnSet(value, {}) = 0
  BY SumEmpty DEF Init, Posted
<1>4. SumFunctionOnSet(meter, Months) = 0
  <2>1. meter \in [Months -> Int] /\ \A m \in Months : meter[m] = 0
    BY DEF Init
  <2> QED
    BY <2>1, MonthsFinite, SumZero
<1>5. \A x \in Exports : ~HasRead(x)
  BY DEF Init, HasRead
<1> QED
  BY <1>1, <1>4, <1>5 DEF ExportInv

LEMMA NextExportInv == TypeOK /\ TypeOK' /\ ExportInv /\ [Next]_vars => ExportInv'
<1> SUFFICES ASSUME TypeOK, TypeOK', ExportInv, [Next]_vars PROVE ExportInv'
  OBVIOUS
<1>0. /\ value \in [Exports -> Nat] /\ meter \in [Months -> Nat]
      /\ value \in [Exports -> Int] /\ meter \in [Months -> Int]
      /\ value' \in [Exports -> Int] /\ meter' \in [Months -> Int]
      /\ export \in [Exports -> {"idle", "read", "posted", "failed"}]
      /\ readIn \in [Exports -> Months]
  BY DEF TypeOK
<1>m. Months' = Months
  BY DEF Months, MonthOf
<1>1. CASE \E x \in Exports : ReadCogs(x)
  <2>1. PICK x \in Exports : ReadCogs(x)
    BY <1>1
  <2>2. UNCHANGED <<meter, stage, occurred>> /\ export[x] = "idle" /\ export'[x] = "read"
    BY <1>0, <2>1 DEF ReadCogs, Step
  <2>3. \A y \in Exports : y # x => UNCHANGED <<export[y], value[y], readIn[y]>>
    BY <1>0, <2>1 DEF ReadCogs, Step
  <2>4. Posted' = Posted /\ x \notin Posted
    BY <2>2, <2>3 DEF Posted
  <2>5. SumFunctionOnSet(value', Posted) = SumFunctionOnSet(value, Posted)
    <3>1. \A y \in Posted : value'[y] = value[y]
      BY <2>3, <2>4, PostedFinite
    <3>2. Posted \in SUBSET (Exports \cap Exports)
      BY PostedFinite
    <3> QED
      BY <1>0, <3>1, <3>2, PostedFinite, SumSame
  <2>6. value'[x] <= CostOf(In(Rows, readIn[x]))'
    <3>1. value'[x] = CostOf(In(Rows, MonthOf(now))) /\ readIn'[x] = MonthOf(now)
      BY <1>0, <2>1 DEF ReadCogs
    <3>2. CostOf(In(Rows, readIn[x]))' = CostOf(In(Rows, MonthOf(now)))
      BY <2>2, <3>1 DEF CostOf, In, Rows, Month, MonthOf
    <3>3. value'[x] \in Int
      BY <1>0
    <3> QED
      BY <3>1, <3>2, <3>3
  <2>7. ASSUME NEW y \in Exports, HasRead(y)' PROVE value'[y] <= CostOf(In(Rows, readIn[y]))'
    <3>1. CASE y = x
      BY <2>6, <3>1
    <3>2. CASE y # x
      <4>1. HasRead(y) /\ value'[y] = value[y] /\ readIn'[y] = readIn[y]
        BY <2>3, <2>7, <3>2 DEF HasRead
      <4>2. value[y] <= CostOf(In(Rows, readIn[y]))
        BY <4>1 DEF ExportInv
      <4> QED
        BY <4>1, <4>2, ReadStaysCovered
    <3> QED
      BY <3>1, <3>2
  <2> QED
    BY <1>m, <2>2, <2>4, <2>5, <2>7 DEF ExportInv
<1>2. CASE \E x \in Exports : Post(x)
  <2>1. PICK x \in Exports : Post(x)
    BY <1>2
  <2> DEFINE m == MonthOf(now)
  <2>2. UNCHANGED <<value, readIn>> /\ export[x] = "read" /\ export'[x] = "posted"
    BY <1>0, <2>1 DEF Post, Step
  <2>3. \A y \in Exports : y # x => export'[y] = export[y]
    BY <1>0, <2>1 DEF Post, Step
  <2>4. Posted' = Posted \cup {x} /\ x \in Exports \ Posted
    BY <2>2, <2>3 DEF Posted
  <2>5. SumFunctionOnSet(value, Posted \cup {x}) = value[x] + SumFunctionOnSet(value, Posted)
    BY <1>0, <2>4, PostedFinite, SumAdd
  <2>6. SumFunctionOnSet(meter', Months) = SumFunctionOnSet(meter, Months) + value[x]
    <3>1. m \in Months
      BY MonthInRange DEF TypeOK
    <3>2. meter'[m] = meter[m] + value[x] /\ \A k \in Months \ {m} : meter'[k] = meter[k]
      BY <1>0, <2>1, <3>1 DEF Post
    <3> HIDE DEF m
    <3>3. SumFunctionOnSet(meter', Months)
            = SumFunctionOnSet(meter, Months) + (meter'[m] - meter[m])
      <4>1. /\ meter \in [Months -> Int] /\ meter' \in [Months -> Int] /\ m \in Months
            /\ \A k \in Months \ {m} : meter'[k] = meter[k]
        BY <1>0, <3>1, <3>2
      <4> QED
        BY <4>1, MeterUpdate
    <3>4. meter[m] \in Nat /\ value[x] \in Nat
      BY <1>0, <3>1
    <3> QED
      BY <3>2, <3>3, <3>4
  <2>7. SumFunctionOnSet(meter, Months) = SumFunctionOnSet(value, Posted)
        /\ SumFunctionOnSet(value, Posted) \in Int /\ value[x] \in Int
    BY <1>0, PostedFinite, SumType DEF ExportInv
  <2>8. SumFunctionOnSet(meter', Months) = SumFunctionOnSet(value', Posted')
    BY <2>2, <2>4, <2>5, <2>6, <2>7
  <2>9. ASSUME NEW y \in Exports, HasRead(y)' PROVE value'[y] <= CostOf(In(Rows, readIn[y]))'
    <3>1. HasRead(y) /\ value'[y] = value[y] /\ readIn'[y] = readIn[y]
      BY <2>2, <2>3, <2>9 DEF HasRead
    <3>2. value[y] <= CostOf(In(Rows, readIn[y]))
      BY <3>1 DEF ExportInv
    <3> QED
      BY <3>1, <3>2, ReadStaysCovered
  <2> QED
    BY <1>m, <2>8, <2>9 DEF ExportInv
<1>3. CASE \E x \in Exports : ExportFails(x)
  <2>1. PICK x \in Exports : ExportFails(x)
    BY <1>3
  <2>2. UNCHANGED <<value, readIn, meter>> /\ export[x] # "posted" /\ export'[x] = "failed"
    BY <1>0, <2>1 DEF ExportFails, Step
  <2>3. \A y \in Exports : y # x => export'[y] = export[y]
    BY <1>0, <2>1 DEF ExportFails, Step
  <2>4. Posted' = Posted
    BY <2>2, <2>3 DEF Posted
  <2>5. ASSUME NEW y \in Exports, HasRead(y)' PROVE value'[y] <= CostOf(In(Rows, readIn[y]))'
    <3>1. HasRead(y) /\ value'[y] = value[y] /\ readIn'[y] = readIn[y]
      BY <2>2, <2>3, <2>5 DEF HasRead
    <3>2. value[y] <= CostOf(In(Rows, readIn[y]))
      BY <3>1 DEF ExportInv
    <3> QED
      BY <3>1, <3>2, ReadStaysCovered
  <2> QED
    BY <1>m, <2>2, <2>4, <2>5 DEF ExportInv
<1>4. CASE UNCHANGED exportVars
  <2>1. UNCHANGED <<export, value, readIn, meter>> /\ Posted' = Posted
    BY <1>4 DEF exportVars, Posted
  <2>2. ASSUME NEW y \in Exports, HasRead(y)' PROVE value'[y] <= CostOf(In(Rows, readIn[y]))'
    <3>1. HasRead(y) /\ value'[y] = value[y] /\ readIn'[y] = readIn[y]
      BY <2>1, <2>2 DEF HasRead
    <3>2. value[y] <= CostOf(In(Rows, readIn[y]))
      BY <3>1 DEF ExportInv
    <3> QED
      BY <3>1, <3>2, ReadStaysCovered
  <2> QED
    BY <1>m, <2>1, <2>2 DEF ExportInv
<1> QED
  BY <1>1, <1>2, <1>3, <1>4
     DEF Next, Meter, Emit, Lose, Insert, IncrBy, IncrByLost, IncrByFails, ApplyIncrBy, Expire,
         ExpireLost, ExpireFails, ApplyExpire, Tick, vars

\* For any number of exports, each read in one month and taken in that or a
\* later one: no row is billed more often than its month was exported.
THEOREM OncePerExport == Spec => []BilledOncePerExport
<1>1. Spec => []TypeOK
  BY TypeCorrect
<1>2. Spec => []ExportInv
  BY <1>1, InitExportInv, NextExportInv, PTL DEF Spec
<1>3. TypeOK /\ ExportInv => BilledOncePerExport
  <2> SUFFICES ASSUME TypeOK, ExportInv PROVE BilledOncePerExport
    OBVIOUS
  <2> DEFINE R == [x \in Exports |-> CostOf(In(Rows, readIn[x]))]
  <2>1. SumFunction(meter) = SumFunctionOnSet(value, Posted)
    BY DEF SumFunction, TypeOK, ExportInv
  <2>2. R \in [Exports -> Int] /\ value \in [Exports -> Int]
    <3>1. \A x \in Exports : CostOf(In(Rows, readIn[x])) \in Nat
      BY RowsOfMonth, CostType
    <3> QED
      BY <3>1 DEF TypeOK
  <2>3. Posted \in SUBSET (Exports \cap Exports) /\ \A x \in Posted : value[x] <= R[x]
    BY PostedFinite DEF ExportInv, HasRead, Posted
  <2> HIDE DEF R
  <2>4. SumFunctionOnSet(value, Posted) <= SumFunctionOnSet(R, Posted)
    BY <2>2, <2>3, PostedFinite, SumMonotone
  <2> QED
    BY <2>1, <2>4 DEF BilledOncePerExport, R
<1> QED
  BY <1>1, <1>2, <1>3, PTL
=============================================================================
