--------------------------- MODULE Budget_proofs ---------------------------
(***************************************************************************)
(* Theorems about the budget service, for any number of calls and          *)
(* customers, any rate cap and window, any limits, costs and re-sends.     *)
(***************************************************************************)
EXTENDS Budget, FiniteSetTheorems, TLAPS

USE CallsAssumption, RateAssumption, LimitAssumption, BoundAssumption

----------------------------------------------------------------------------
(* Facts about windows and about sets of calls.                            *)

\* A time within the horizon has its window among the buckets.
LEMMA BucketInRange == ASSUME NEW t \in 0 .. Horizon PROVE BucketOf(t) \in Buckets
<1>1. Horizon \in Nat /\ t \in Nat /\ t <= Horizon
  BY SMT
<1>2. BucketOf(t) \in Nat /\ BucketOf(Horizon) \in Nat
  BY <1>1, SMT DEF BucketOf
<1>3. BucketOf(t) <= BucketOf(Horizon)
  BY <1>1, SMT DEF BucketOf
<1> QED
  BY <1>2, <1>3, SMT DEF Buckets

\* A set of calls is finite, and so has a number of elements.
LEMMA CallSetsFinite == ASSUME NEW S \in SUBSET Calls
                        PROVE  IsFiniteSet(S) /\ Cardinality(S) \in Nat
  BY FS_Subset, FS_CardinalityType

\* The verdict is one of the terminal stages of a call.
LEMMA VerdictIsStage == ASSUME NEW ok \in BOOLEAN, NEW m \in Int
                        PROVE  Verdict(ok, m) \in {"allowed", "rate_limit", "budget"}
  BY DEF Verdict

\* A limit that is used is the default or a positive one.
LEMMA EffectiveLimitType ==
  ASSUME NEW l \in Limits \cup {0}
  PROVE  /\ EffectiveLimit(l) \in {DefaultLimit} \cup {x \in Limits : x > 0}
         /\ EffectiveLimit(l) \in Int
  BY DEF EffectiveLimit

\* Updating a function, or a function of functions, keeps its type.
LEMMA Update ==
  ASSUME NEW S, NEW T, NEW f \in [S -> T], NEW a \in S, NEW v \in T
  PROVE  [f EXCEPT ![a] = v] \in [S -> T]
  OBVIOUS

LEMMA UpdateKey ==
  ASSUME NEW f \in [Customers -> [Buckets -> Nat]], NEW c \in Customers, NEW b \in Buckets,
         NEW v \in Nat
  PROVE  [f EXCEPT ![c][b] = v] \in [Customers -> [Buckets -> Nat]]
  OBVIOUS

----------------------------------------------------------------------------
(* Types.                                                                  *)

LEMMA InitTypeOK == Init => TypeOK
<1> SUFFICES ASSUME Init PROVE TypeOK
  OBVIOUS
<1>1. 0 \in Buckets /\ 0 \in 0 .. Horizon
  BY BucketInRange, SMT DEF BucketOf, Buckets
<1> QED
  BY <1>1 DEF Init, TypeOK, Stages

LEMMA NextTypeOK == TypeOK /\ [Next]_vars => TypeOK'
<1> SUFFICES ASSUME TypeOK, [Next]_vars PROVE TypeOK'
  OBVIOUS
<1> USE DEF TypeOK, Stages, redisVars, callVars, billVars
<1>1. ASSUME NEW r \in Calls, Arrive(r) PROVE TypeOK'
  BY <1>1, BucketInRange DEF Arrive
<1>2. ASSUME NEW r \in Calls, Incr(r) PROVE TypeOK'
  BY <1>2 DEF Incr, ApplyIncr, RateOK
<1>3. ASSUME NEW r \in Calls, IncrLost(r) PROVE TypeOK'
  BY <1>3 DEF IncrLost, ApplyIncr
<1>4. ASSUME NEW r \in Calls, IncrFails(r) \/ ReadFails(r) PROVE TypeOK'
  BY <1>4 DEF IncrFails, ReadFails, Fails
<1>5. ASSUME NEW r \in Calls, Expire(r) PROVE TypeOK'
  <2>1. CustomerOf[r] \in Customers /\ bucket[r] \in Buckets
    OBVIOUS
  <2>2. now + Window \in Nat
    OBVIOUS
  <2>3. \/ expiry' = expiry
        \/ expiry' = [expiry EXCEPT ![CustomerOf[r]][bucket[r]] = now + Window]
    BY <1>5 DEF Expire, RateTTL
  <2>4. expiry' \in [Customers -> [Buckets -> Nat]]
    <3>1. expiry \in [Customers -> [Buckets -> Nat]]
      OBVIOUS
    <3> HIDE DEF TypeOK
    <3>2. [expiry EXCEPT ![CustomerOf[r]][bucket[r]] = now + Window]
            \in [Customers -> [Buckets -> Nat]]
      BY <2>1, <2>2, <3>1, UpdateKey
    <3> QED
      BY <2>3, <3>1, <3>2
  <2>5. stage' \in [Calls -> Stages]
    BY <1>5 DEF Expire
  <2> QED
    BY <1>5, <2>4, <2>5 DEF Expire
<1>6. ASSUME NEW r \in Calls, ReadLimit(r) PROVE TypeOK'
  <2>1. limit[CustomerOf[r]] \in Limits \cup {0}
    OBVIOUS
  <2>2. lim' = [lim EXCEPT ![r] = EffectiveLimit(limit[CustomerOf[r]])]
    BY <1>6 DEF ReadLimit
  <2>3. lim' \in [Calls -> {DefaultLimit} \cup {x \in Limits : x > 0}]
    BY <2>1, <2>2, EffectiveLimitType, Update
  <2>4. stage' \in [Calls -> Stages] /\ afford' \subseteq Calls
    BY <1>6 DEF ReadLimit
  <2> QED
    BY <1>6, <2>3, <2>4 DEF ReadLimit
<1>7. ASSUME NEW r \in Calls, ReadSpend(r) PROVE TypeOK'
  <2> DEFINE c == CustomerOf[r]
             v == Verdict(okRate[r], lim[r] - spend[c])
             n == Cardinality(Unbilled(c) \cup {r})
  <2>1. c \in Customers /\ lim[r] - spend[c] \in Int /\ okRate[r] \in BOOLEAN
    <3>1. lim[r] \in Int /\ c \in Customers /\ okRate[r] \in BOOLEAN
      OBVIOUS
    <3>2. spend[c] \in Nat
      BY <3>1
    <3> QED
      BY <3>1, <3>2
  <2>2. v \in {"allowed", "rate_limit", "budget"}
    BY <2>1, VerdictIsStage
  <2>3. n \in Nat
    BY CallSetsFinite DEF Unbilled
  <2> HIDE DEF v, n
  <2>4. stage' \in [Calls -> Stages]
    BY <1>7, <2>2 DEF ReadSpend, v
  <2>5. alert' \in [Calls -> {"none", "pending", "sent", "lost"}]
    BY <1>7 DEF ReadSpend
  <2>6. peak' \in [Customers -> Nat]
    BY <1>7, <2>1, <2>3 DEF ReadSpend, Larger, n
  <2> QED
    BY <1>7, <2>4, <2>5, <2>6 DEF ReadSpend
<1>8. ASSUME NEW r \in Calls, PublishAlert(r) PROVE TypeOK'
  BY <1>8 DEF PublishAlert
<1>9. ASSUME NEW r \in Calls, NEW m \in 0 .. MaxCost, Charge(r, m) \/ ChargeAgain(r, m)
      PROVE  TypeOK'
  <2>1. CustomerOf[r] \in Customers /\ m \in Nat
    OBVIOUS
  <2>2. spend[CustomerOf[r]] + m \in Nat
    BY <2>1
  <2>3. spend' = [spend EXCEPT ![CustomerOf[r]] = spend[CustomerOf[r]] + m]
    BY <1>9 DEF Charge, ChargeAgain, AddSpend
  <2>4. spend' \in [Customers -> Nat]
    BY <2>1, <2>2, <2>3, Update
  <2>5. charged' \subseteq Calls
    BY <1>9 DEF Charge, ChargeAgain
  <2>6. extra' \in [Customers -> 0 .. MaxExtra]
    <3>1. CASE Charge(r, m)
      BY <3>1 DEF Charge
    <3>2. CASE ChargeAgain(r, m)
      <4>1. extra \in [Customers -> 0 .. MaxExtra]
        OBVIOUS
      <4>2. extra[CustomerOf[r]] + 1 \in 0 .. MaxExtra
        BY <2>1, <3>2, <4>1 DEF ChargeAgain
      <4>3. extra' = [extra EXCEPT ![CustomerOf[r]] = extra[CustomerOf[r]] + 1]
        BY <3>2 DEF ChargeAgain
      <4> QED
        BY <2>1, <4>1, <4>2, <4>3, Update
    <3> QED
      BY <1>9, <3>1, <3>2
  <2> QED
    BY <1>9, <2>4, <2>5, <2>6 DEF Charge, ChargeAgain, AddSpend
<1>10. ASSUME NEW c \in Customers, NEW l \in Limits, SetLimit(c, l) PROVE TypeOK'
  <2>1. limit' \in [Customers -> Limits \cup {0}]
    BY <1>10 DEF SetLimit
  <2>2. EffectiveLimit(l) \in Int
    BY EffectiveLimitType
  <2>3. ceiling' \in [Customers -> Int]
    BY <1>10, <2>2 DEF SetLimit, Larger
  <2> QED
    BY <1>10, <2>1, <2>3 DEF SetLimit
<1>11. CASE Crash
  BY <1>11 DEF Crash
<1>12. CASE Tick
  BY <1>12 DEF Tick
<1>13. CASE UNCHANGED vars
  BY <1>13 DEF vars
<1> QED
  BY <1>1, <1>2, <1>3, <1>4, <1>5, <1>6, <1>7, <1>8, <1>9, <1>10, <1>11, <1>12, <1>13
  DEF Next

(***************************************************************************)
(* Every variable stays in its range.                                      *)
(***************************************************************************)
THEOREM TypeCorrect == Spec => []TypeOK
  BY InitTypeOK, NextTypeOK, PTL DEF Spec

----------------------------------------------------------------------------
(* A grant is one that a single atomic look would have given.              *)

\* A call that could not afford its limit when it read it never will.
AffordInv ==
  \A r \in Calls : stage[r] = "spend" => r \in afford \/ spend[CustomerOf[r]] >= lim[r]

LEMMA InitAffordInv == Init => AffordInv
  BY DEF Init, AffordInv

LEMMA NextAffordInv == TypeOK /\ AffordInv /\ [Next]_vars => AffordInv'
<1> SUFFICES ASSUME TypeOK, AffordInv, [Next]_vars,
                    NEW q \in Calls, stage'[q] = "spend"
             PROVE  q \in afford' \/ spend'[CustomerOf[q]] >= lim'[q]
  BY DEF AffordInv
<1> USE DEF redisVars, callVars, billVars
<1>t. /\ stage \in [Calls -> Stages] /\ lim \in [Calls -> Int]
      /\ spend \in [Customers -> Nat] /\ CustomerOf \in [Calls -> Customers]
      /\ limit \in [Customers -> Limits \cup {0}]
  BY DEF TypeOK
<1>u. CustomerOf[q] \in Customers /\ spend[CustomerOf[q]] \in Nat /\ lim[q] \in Int
  BY <1>t
<1>i. stage[q] = "spend" => q \in afford \/ spend[CustomerOf[q]] >= lim[q]
  BY DEF AffordInv
<1>1. ASSUME NEW r \in Calls, ReadLimit(r) PROVE q \in afford' \/ spend'[CustomerOf[q]] >= lim'[q]
  <2>1. CASE r = q
    <3> DEFINE l == EffectiveLimit(limit[CustomerOf[q]])
    <3>1. l \in Int
      BY <1>t, EffectiveLimitType
    <3>2. lim'[q] = l /\ spend' = spend
      BY <1>1, <1>t, <2>1 DEF ReadLimit
    <3>3. spend[CustomerOf[q]] < l => q \in afford'
      BY <1>1, <2>1 DEF ReadLimit
    <3> HIDE DEF l
    <3> QED
      BY <1>u, <3>1, <3>2, <3>3
  <2>2. CASE r # q
    BY <1>1, <1>t, <1>i, <2>2 DEF ReadLimit
  <2> QED
    BY <2>1, <2>2
<1>2. ASSUME NEW r \in Calls,
             \/ Arrive(r) \/ Incr(r) \/ IncrLost(r) \/ IncrFails(r) \/ Expire(r)
             \/ ReadFails(r) \/ PublishAlert(r)
      PROVE  q \in afford' \/ spend'[CustomerOf[q]] >= lim'[q]
  BY <1>2, <1>t, <1>i
  DEF Arrive, Incr, IncrLost, ApplyIncr, IncrFails, ReadFails, Fails, Expire, PublishAlert
<1>3. ASSUME NEW r \in Calls, ReadSpend(r) PROVE q \in afford' \/ spend'[CustomerOf[q]] >= lim'[q]
  <2>1. stage'[r] # "spend"
    BY <1>3, <1>t DEF ReadSpend, Verdict
  <2> QED
    BY <1>3, <1>t, <1>i, <2>1 DEF ReadSpend
<1>4. ASSUME NEW r \in Calls, NEW m \in 0 .. MaxCost, Charge(r, m) \/ ChargeAgain(r, m)
      PROVE  q \in afford' \/ spend'[CustomerOf[q]] >= lim'[q]
  <2>1. spend'[CustomerOf[q]] >= spend[CustomerOf[q]] /\ spend'[CustomerOf[q]] \in Nat
    BY <1>4, <1>t, <1>u DEF Charge, ChargeAgain, AddSpend
  <2>2. lim' = lim /\ stage' = stage /\ afford' = afford
    BY <1>4 DEF Charge, ChargeAgain, AddSpend
  <2> QED
    BY <1>u, <1>i, <2>1, <2>2
<1>5. ASSUME NEW c \in Customers, NEW l \in Limits, SetLimit(c, l)
      PROVE  q \in afford' \/ spend'[CustomerOf[q]] >= lim'[q]
  BY <1>5, <1>i DEF SetLimit
<1>6. CASE Crash
  BY <1>6, <1>i DEF Crash
<1>7. CASE Tick
  BY <1>7, <1>i DEF Tick
<1>8. CASE UNCHANGED vars
  BY <1>8, <1>i DEF vars
<1> QED
  BY <1>1, <1>2, <1>3, <1>4, <1>5, <1>6, <1>7, <1>8 DEF Next

\* Only the reading of the spend grants a call, and only above it.
LEMMA NextGrantWasAffordable ==
  TypeOK /\ AffordInv /\ [Next]_vars =>
    \A r \in Calls : stage[r] # "allowed" /\ stage'[r] = "allowed" => r \in afford
<1> SUFFICES ASSUME TypeOK, AffordInv, [Next]_vars,
                    NEW q \in Calls, stage[q] # "allowed", stage'[q] = "allowed"
             PROVE  q \in afford
  OBVIOUS
<1> USE DEF redisVars, callVars, billVars
<1>t. stage \in [Calls -> Stages]
  BY DEF TypeOK
<1>1. ReadSpend(q)
  <2>1. ASSUME NEW r \in Calls,
               \/ Arrive(r) \/ Incr(r) \/ IncrLost(r) \/ IncrFails(r) \/ Expire(r)
               \/ ReadLimit(r) \/ ReadFails(r) \/ PublishAlert(r)
        PROVE  FALSE
    BY <1>t, <2>1 DEF Arrive, Incr, IncrLost, ApplyIncr, IncrFails, ReadFails, Fails, Expire,
                      ReadLimit, PublishAlert
  <2>2. ASSUME NEW r \in Calls, ReadSpend(r) PROVE ReadSpend(q)
    BY <1>t, <2>2 DEF ReadSpend
  <2>3. ASSUME NEW r \in Calls, NEW m \in 0 .. MaxCost, Charge(r, m) \/ ChargeAgain(r, m)
        PROVE  FALSE
    BY <2>3 DEF Charge, ChargeAgain, AddSpend
  <2>4. ASSUME NEW c \in Customers, NEW l \in Limits, SetLimit(c, l) PROVE FALSE
    BY <2>4 DEF SetLimit
  <2>5. CASE Crash \/ Tick \/ UNCHANGED vars
    BY <1>t, <2>5 DEF Crash, Tick, vars
  <2> QED
    BY <2>1, <2>2, <2>3, <2>4, <2>5 DEF Next
<1>2. stage[q] = "spend" /\ Verdict(okRate[q], lim[q] - spend[CustomerOf[q]]) = "allowed"
  BY <1>1, <1>t DEF ReadSpend
<1>3. lim[q] \in Int /\ spend[CustomerOf[q]] \in Nat /\ okRate[q] \in BOOLEAN
  <2>1. lim[q] \in Int /\ okRate[q] \in BOOLEAN /\ CustomerOf[q] \in Customers
    BY DEF TypeOK
  <2> QED
    BY <2>1 DEF TypeOK
<1>4. lim[q] > spend[CustomerOf[q]]
  BY <1>2, <1>3 DEF Verdict
<1> QED
  BY <1>2, <1>3, <1>4 DEF AffordInv

(***************************************************************************)
(* Allow reads the limit and the spend in two commands, and still grants   *)
(* only a call whose customer was below the limit when the limit was read. *)
(***************************************************************************)
THEOREM GrantsAffordable == Spec => GrantWasAffordable
<1>1. TypeOK /\ AffordInv /\ [Next]_vars =>
        [\A r \in Calls : stage[r] # "allowed" /\ stage'[r] = "allowed" => r \in afford]_vars
  BY NextGrantWasAffordable
<1> QED
  BY <1>1, InitTypeOK, NextTypeOK, InitAffordInv, NextAffordInv, PTL
  DEF Spec, GrantWasAffordable

----------------------------------------------------------------------------
(* What checking before charging can cost.                                 *)

\* No limit in use is above the ceiling, and the bound itself.
CeilingInv ==
  /\ \A c \in Customers : EffectiveLimit(limit[c]) <= ceiling[c]
  /\ \A r \in Calls : stage[r] = "spend" => lim[r] <= ceiling[CustomerOf[r]]

OverspendInv == CeilingInv /\ OverspendBounded

\* Arithmetic of a product with a count that moves by one.
LEMMA Product ==
  ASSUME NEW m \in Nat, NEW a \in Nat, NEW b \in Nat
  PROVE  /\ m * a \in Nat
         /\ m * (a + 1) = m * a + m
         /\ a <= b => m * a <= m * b
  BY SMT

\* The two sides of the bound are numbers.
LEMMA BoundTypes ==
  ASSUME TypeOK, NEW c \in Customers
  PROVE  /\ spend[c] \in Nat /\ Cardinality(Unbilled(c)) \in Nat
         /\ ceiling[c] \in Int /\ Headroom(ceiling[c]) \in Nat
         /\ peak[c] \in Nat /\ extra[c] \in Nat
<1>1. spend[c] \in Nat /\ ceiling[c] \in Int /\ peak[c] \in Nat /\ extra[c] \in Nat
  BY DEF TypeOK
<1>2. Headroom(ceiling[c]) \in Nat
  BY <1>1 DEF Headroom
<1>3. Cardinality(Unbilled(c)) \in Nat
  BY CallSetsFinite DEF Unbilled
<1> QED
  BY <1>1, <1>2, <1>3

LEMMA InitOverspendInv == Init => OverspendInv
<1> SUFFICES ASSUME Init PROVE OverspendInv
  OBVIOUS
<1>1. CeilingInv
  BY DEF Init, CeilingInv, EffectiveLimit
<1>2. ASSUME NEW c \in Customers
      PROVE  spend[c] + MaxCost * Cardinality(Unbilled(c))
               <= Headroom(ceiling[c]) + MaxCost * (peak[c] + extra[c])
  <2>1. Unbilled(c) = {}
    BY DEF Init, Unbilled
  <2>2. Cardinality(Unbilled(c)) = 0
    BY <2>1, FS_EmptySet
  <2>3. spend[c] = 0 /\ peak[c] = 0 /\ extra[c] = 0 /\ ceiling[c] = DefaultLimit
    BY DEF Init
  <2> QED
    BY <2>2, <2>3 DEF Headroom
<1> QED
  BY <1>1, <1>2 DEF OverspendInv, OverspendBounded

LEMMA NextCeilingInv == TypeOK /\ CeilingInv /\ [Next]_vars => CeilingInv'
<1> SUFFICES ASSUME TypeOK, CeilingInv, [Next]_vars PROVE CeilingInv'
  OBVIOUS
<1> USE DEF redisVars, callVars, billVars
<1>t. /\ stage \in [Calls -> Stages] /\ lim \in [Calls -> Int]
      /\ CustomerOf \in [Calls -> Customers]
      /\ limit \in [Customers -> Limits \cup {0}] /\ ceiling \in [Customers -> Int]
  BY DEF TypeOK
<1>1. ASSUME NEW r \in Calls, ReadLimit(r) PROVE CeilingInv'
  BY <1>1, <1>t DEF ReadLimit, CeilingInv
<1>2. ASSUME NEW r \in Calls,
             \/ Arrive(r) \/ Incr(r) \/ IncrLost(r) \/ IncrFails(r) \/ Expire(r)
             \/ ReadFails(r) \/ PublishAlert(r)
      PROVE  CeilingInv'
  BY <1>2, <1>t
  DEF Arrive, Incr, IncrLost, ApplyIncr, IncrFails, ReadFails, Fails, Expire, PublishAlert,
      CeilingInv
<1>3. ASSUME NEW r \in Calls, ReadSpend(r) PROVE CeilingInv'
  <2>1. stage'[r] # "spend"
    BY <1>3, <1>t DEF ReadSpend, Verdict
  <2> QED
    BY <1>3, <1>t, <2>1 DEF ReadSpend, CeilingInv
<1>4. ASSUME NEW r \in Calls, NEW m \in 0 .. MaxCost, Charge(r, m) \/ ChargeAgain(r, m)
      PROVE  CeilingInv'
  BY <1>4 DEF Charge, ChargeAgain, AddSpend, CeilingInv
<1>5. ASSUME NEW c \in Customers, NEW l \in Limits, SetLimit(c, l) PROVE CeilingInv'
  <2>1. EffectiveLimit(l) \in Int
    BY EffectiveLimitType
  <2>2. /\ limit' = [limit EXCEPT ![c] = l]
        /\ ceiling' = [ceiling EXCEPT ![c] = Larger(ceiling[c], EffectiveLimit(l))]
        /\ stage' = stage /\ lim' = lim
    BY <1>5 DEF SetLimit
  <2>3. Larger(ceiling[c], EffectiveLimit(l)) >= ceiling[c]
        /\ Larger(ceiling[c], EffectiveLimit(l)) >= EffectiveLimit(l)
        /\ Larger(ceiling[c], EffectiveLimit(l)) \in Int
    BY <1>t, <2>1 DEF Larger
  <2>4. ASSUME NEW d \in Customers
        PROVE  EffectiveLimit(limit'[d]) <= ceiling'[d] /\ ceiling[d] <= ceiling'[d]
               /\ ceiling'[d] \in Int
    BY <1>t, <2>1, <2>2, <2>3, <2>4 DEF CeilingInv
  <2>5. ASSUME NEW q \in Calls, stage'[q] = "spend" PROVE lim'[q] <= ceiling'[CustomerOf[q]]
    <3>1. lim[q] <= ceiling[CustomerOf[q]] /\ CustomerOf[q] \in Customers
      BY <1>t, <2>2, <2>5 DEF CeilingInv
    <3>2. lim[q] \in Int /\ ceiling[CustomerOf[q]] \in Int
      BY <1>t, <3>1
    <3>3. ceiling[CustomerOf[q]] <= ceiling'[CustomerOf[q]] /\ ceiling'[CustomerOf[q]] \in Int
      BY <2>4, <3>1
    <3> QED
      BY <2>2, <3>1, <3>2, <3>3
  <2> QED
    BY <2>4, <2>5 DEF CeilingInv, EffectiveLimit
<1>6. CASE Crash
  BY <1>6, <1>t DEF Crash, CeilingInv, InFlight
<1>7. CASE Tick
  BY <1>7 DEF Tick, CeilingInv
<1>8. CASE UNCHANGED vars
  BY <1>8 DEF vars, CeilingInv
<1> QED
  BY <1>1, <1>2, <1>3, <1>4, <1>5, <1>6, <1>7, <1>8 DEF Next

\* A step that leaves the ledger of every customer alone keeps the bound.
LEMMA LedgerUnchanged ==
  ASSUME TypeOK, OverspendBounded,
         spend' = spend, ceiling' = ceiling, peak' = peak, extra' = extra, charged' = charged,
         \A r \in Calls : stage[r] = "allowed" <=> stage'[r] = "allowed"
  PROVE  OverspendBounded'
<1>1. ASSUME NEW c \in Customers PROVE Unbilled(c)' = Unbilled(c)
  BY DEF Unbilled
<1> QED
  BY <1>1 DEF OverspendBounded, Headroom

LEMMA NextOverspendBounded ==
  TypeOK /\ TypeOK' /\ OverspendInv /\ CeilingInv' /\ [Next]_vars => OverspendBounded'
<1> SUFFICES ASSUME TypeOK, TypeOK', OverspendInv, CeilingInv', [Next]_vars
             PROVE  OverspendBounded'
  OBVIOUS
<1> USE DEF redisVars, callVars, billVars
<1>i. OverspendBounded
  BY DEF OverspendInv
<1>t. /\ stage \in [Calls -> Stages] /\ CustomerOf \in [Calls -> Customers]
      /\ spend \in [Customers -> Nat] /\ peak \in [Customers -> Nat]
      /\ extra \in [Customers -> Nat] /\ ceiling \in [Customers -> Int]
  BY DEF TypeOK
<1>1. ASSUME NEW r \in Calls,
             \/ Arrive(r) \/ Incr(r) \/ IncrLost(r) \/ IncrFails(r) \/ Expire(r)
             \/ ReadLimit(r) \/ ReadFails(r) \/ PublishAlert(r)
      PROVE  OverspendBounded'
  <2>1. \A q \in Calls : stage[q] = "allowed" <=> stage'[q] = "allowed"
    BY <1>1, <1>t DEF Arrive, Incr, IncrLost, ApplyIncr, IncrFails, ReadFails, Fails, Expire,
                      ReadLimit, PublishAlert
  <2>2. spend' = spend /\ ceiling' = ceiling /\ peak' = peak /\ extra' = extra
        /\ charged' = charged
    BY <1>1 DEF Arrive, Incr, IncrLost, ApplyIncr, IncrFails, ReadFails, Fails, Expire,
                ReadLimit, PublishAlert
  <2> QED
    BY <1>i, <2>1, <2>2, LedgerUnchanged
<1>2. ASSUME NEW r \in Calls, ReadSpend(r) PROVE OverspendBounded'
  <2> DEFINE d == CustomerOf[r]
             v == Verdict(okRate[r], lim[r] - spend[d])
  <2>1. stage[r] = "spend" /\ stage' = [stage EXCEPT ![r] = v]
        /\ spend' = spend /\ ceiling' = ceiling /\ extra' = extra /\ charged' = charged
    BY <1>2 DEF ReadSpend
  <2>2. CASE v # "allowed"
    <3>1. \A q \in Calls : stage[q] = "allowed" <=> stage'[q] = "allowed"
      BY <1>t, <2>1, <2>2
    <3>2. peak' = peak
      BY <1>2, <2>2 DEF ReadSpend
    <3> QED
      BY <1>i, <2>1, <3>1, <3>2, LedgerUnchanged
  <2>3. CASE v = "allowed"
    <3>1. d \in Customers /\ spend[d] \in Nat /\ lim[r] \in Int /\ okRate[r] \in BOOLEAN
      BY <1>t DEF TypeOK
    <3>2. lim[r] > spend[d]
      BY <2>3, <3>1 DEF Verdict
    <3>3. lim[r] <= ceiling[d] /\ ceiling[d] \in Int
      BY <1>t, <2>1 DEF OverspendInv, CeilingInv
    <3>4. spend[d] <= Headroom(ceiling[d])
      BY <3>1, <3>2, <3>3 DEF Headroom
    <3>5. ASSUME NEW c \in Customers
          PROVE  spend'[c] + MaxCost * Cardinality(Unbilled(c)')
                   <= Headroom(ceiling'[c]) + MaxCost * (peak'[c] + extra'[c])
      <4>1. CASE c = d
        <5>1. Unbilled(d)' \subseteq Unbilled(d) \cup {r}
          BY <1>t, <2>1, <2>3 DEF Unbilled
        <5> DEFINE n == Cardinality(Unbilled(d)')
                   k == Cardinality(Unbilled(d) \cup {r})
        <5>2. n <= k /\ n \in Nat /\ k \in Nat
          <6>1. Unbilled(d) \cup {r} \in SUBSET Calls /\ Unbilled(d)' \in SUBSET Calls
            BY DEF Unbilled
          <6> QED
            BY <5>1, <6>1, CallSetsFinite, FS_Subset
        <5>3. peak' = [peak EXCEPT ![d] = Larger(peak[d], k)]
          BY <1>2, <2>3 DEF ReadSpend
        <5> HIDE DEF n, k
        <5>4. n <= peak'[d] /\ peak'[d] \in Nat
          BY <1>t, <3>1, <5>2, <5>3 DEF Larger
        <5>5. n <= peak'[d] + extra'[d] /\ peak'[d] + extra'[d] \in Nat
          BY <1>t, <2>1, <3>1, <5>2, <5>4
        <5>6. MaxCost * n <= MaxCost * (peak'[d] + extra'[d])
              /\ MaxCost * n \in Nat /\ MaxCost * (peak'[d] + extra'[d]) \in Nat
          BY <5>2, <5>5, Product
        <5>7. spend[d] \in Nat /\ Headroom(ceiling[d]) \in Nat
          BY <3>1, BoundTypes
        <5>8. spend[d] + MaxCost * n <= Headroom(ceiling[d]) + MaxCost * (peak'[d] + extra'[d])
          BY <3>4, <5>6, <5>7
        <5> QED
          BY <2>1, <4>1, <5>8 DEF n, Headroom
      <4>2. CASE c # d
        <5>1. Unbilled(c)' = Unbilled(c)
          BY <1>t, <2>1, <4>2 DEF Unbilled
        <5>2. peak'[c] = peak[c]
          BY <1>2, <1>t, <2>3, <4>2 DEF ReadSpend
        <5> QED
          BY <1>i, <2>1, <5>1, <5>2 DEF OverspendBounded
      <4> QED
        BY <4>1, <4>2
    <3> QED
      BY <3>5 DEF OverspendBounded, Headroom
  <2> QED
    BY <2>2, <2>3
<1>3. ASSUME NEW r \in Calls, NEW m \in 0 .. MaxCost, Charge(r, m) PROVE OverspendBounded'
  <2> DEFINE d == CustomerOf[r]
  <2>1. /\ stage[r] = "allowed" /\ r \notin charged /\ charged' = charged \cup {r}
        /\ spend' = [spend EXCEPT ![d] = @ + m]
        /\ stage' = stage /\ ceiling' = ceiling /\ peak' = peak /\ extra' = extra
    BY <1>3 DEF Charge, AddSpend
  <2>2. ASSUME NEW c \in Customers
        PROVE  spend'[c] + MaxCost * Cardinality(Unbilled(c)')
                 <= Headroom(ceiling[c]) + MaxCost * (peak[c] + extra[c])
    <3>1. CASE c = d
      <4>1. r \in Unbilled(d) /\ Unbilled(d)' = Unbilled(d) \ {r}
        BY <2>1 DEF Unbilled
      <4> DEFINE n == Cardinality(Unbilled(d)')
      <4>2. Cardinality(Unbilled(d)) = n + 1 /\ n \in Nat
        <5>1. Unbilled(d) \in SUBSET Calls /\ Unbilled(d)' \in SUBSET Calls
          BY DEF Unbilled
        <5>2. IsFiniteSet(Unbilled(d)) /\ Cardinality(Unbilled(d)) \in Nat
              /\ Cardinality(Unbilled(d)') \in Nat
          BY <5>1, CallSetsFinite
        <5>3. Cardinality(Unbilled(d) \ {r}) = Cardinality(Unbilled(d)) - 1
          BY <4>1, <5>2, FS_RemoveElement
        <5> QED
          BY <4>1, <5>2, <5>3
      <4>3. d \in Customers /\ spend'[d] = spend[d] + m /\ spend[d] \in Nat
        BY <1>t, <2>1
      <4> HIDE DEF n
      <4>4. MaxCost * (n + 1) = MaxCost * n + MaxCost /\ MaxCost * n \in Nat
        BY <4>2, Product
      <4>5. spend[d] + MaxCost * (n + 1)
              <= Headroom(ceiling[d]) + MaxCost * (peak[d] + extra[d])
        BY <1>i, <4>2, <4>3 DEF OverspendBounded
      <4>6. /\ Headroom(ceiling[d]) \in Nat /\ peak[d] + extra[d] \in Nat
            /\ MaxCost * (peak[d] + extra[d]) \in Nat
        BY <4>3, BoundTypes, Product
      <4>7. m \in Nat /\ m <= MaxCost
        OBVIOUS
      <4>8. spend'[d] + MaxCost * n <= Headroom(ceiling[d]) + MaxCost * (peak[d] + extra[d])
        BY <4>3, <4>4, <4>5, <4>6, <4>7
      <4> QED
        BY <3>1, <4>8 DEF n
    <3>2. CASE c # d
      <4>1. Unbilled(c)' = Unbilled(c) /\ spend'[c] = spend[c]
        BY <1>t, <2>1, <3>2 DEF Unbilled
      <4> QED
        BY <1>i, <4>1 DEF OverspendBounded
    <3> QED
      BY <3>1, <3>2
  <2> QED
    BY <2>1, <2>2 DEF OverspendBounded, Headroom
<1>4. ASSUME NEW r \in Calls, NEW m \in 0 .. MaxCost, ChargeAgain(r, m) PROVE OverspendBounded'
  <2> DEFINE d == CustomerOf[r]
  <2>1. /\ charged' = charged /\ extra' = [extra EXCEPT ![d] = @ + 1]
        /\ spend' = [spend EXCEPT ![d] = @ + m]
        /\ stage' = stage /\ ceiling' = ceiling /\ peak' = peak
    BY <1>4 DEF ChargeAgain, AddSpend
  <2>2. ASSUME NEW c \in Customers
        PROVE  spend'[c] + MaxCost * Cardinality(Unbilled(c))
                 <= Headroom(ceiling[c]) + MaxCost * (peak[c] + extra'[c])
    <3>1. CASE c = d
      <4> DEFINE n == Cardinality(Unbilled(d))
                 e == peak[d] + extra[d]
      <4>1. /\ spend'[d] = spend[d] + m /\ peak[d] + extra'[d] = e + 1
            /\ spend[d] \in Nat /\ d \in Customers
        BY <1>t, <2>1
      <4>2. n \in Nat /\ e \in Nat /\ Headroom(ceiling[d]) \in Nat
        BY <4>1, BoundTypes
      <4>3. spend[d] + MaxCost * n <= Headroom(ceiling[d]) + MaxCost * e
        BY <1>i, <4>1 DEF OverspendBounded
      <4> HIDE DEF n, e
      <4>4. /\ MaxCost * (e + 1) = MaxCost * e + MaxCost
            /\ MaxCost * n \in Nat /\ MaxCost * e \in Nat
        BY <4>2, Product
      <4>5. m \in Nat /\ m <= MaxCost
        OBVIOUS
      <4>6. (spend[d] + m) + MaxCost * n <= Headroom(ceiling[d]) + MaxCost * (e + 1)
        BY <4>1, <4>2, <4>3, <4>4, <4>5
      <4> QED
        BY <3>1, <4>1, <4>6 DEF n
    <3>2. CASE c # d
      <4>1. spend'[c] = spend[c] /\ extra'[c] = extra[c]
        BY <1>t, <2>1, <3>2
      <4> QED
        BY <1>i, <4>1 DEF OverspendBounded
    <3> QED
      BY <3>1, <3>2
  <2>3. \A c \in Customers : Unbilled(c)' = Unbilled(c)
    BY <2>1 DEF Unbilled
  <2> QED
    BY <2>1, <2>2, <2>3 DEF OverspendBounded, Headroom
<1>5. ASSUME NEW c \in Customers, NEW l \in Limits, SetLimit(c, l) PROVE OverspendBounded'
  <2>1. /\ ceiling' = [ceiling EXCEPT ![c] = Larger(ceiling[c], EffectiveLimit(l))]
        /\ stage' = stage /\ spend' = spend /\ charged' = charged /\ peak' = peak
        /\ extra' = extra
    BY <1>5 DEF SetLimit
  <2>2. EffectiveLimit(l) \in Int
    BY EffectiveLimitType
  <2>3. ASSUME NEW d \in Customers
        PROVE  Headroom(ceiling[d]) <= Headroom(ceiling'[d]) /\ Headroom(ceiling'[d]) \in Nat
    BY <1>t, <2>1, <2>2 DEF Larger, Headroom
  <2>4. ASSUME NEW d \in Customers
        PROVE  spend[d] + MaxCost * Cardinality(Unbilled(d))
                 <= Headroom(ceiling'[d]) + MaxCost * (peak[d] + extra[d])
    <3> DEFINE a == MaxCost * Cardinality(Unbilled(d))
               b == MaxCost * (peak[d] + extra[d])
    <3>1. a \in Nat /\ b \in Nat /\ spend[d] \in Nat /\ Headroom(ceiling[d]) \in Nat
      BY BoundTypes, Product
    <3>2. spend[d] + a <= Headroom(ceiling[d]) + b
      BY <1>i DEF OverspendBounded
    <3> HIDE DEF a, b
    <3>3. spend[d] + a <= Headroom(ceiling'[d]) + b
      BY <2>3, <3>1, <3>2
    <3> QED
      BY <3>3 DEF a, b
  <2>5. \A d \in Customers : Unbilled(d)' = Unbilled(d)
    BY <2>1 DEF Unbilled
  <2> QED
    BY <2>1, <2>4, <2>5 DEF OverspendBounded, Headroom
<1>6. CASE Crash
  <2>1. \A q \in Calls : stage[q] = "allowed" <=> stage'[q] = "allowed"
    BY <1>6, <1>t DEF Crash, InFlight
  <2> QED
    BY <1>6, <1>i, <2>1, LedgerUnchanged DEF Crash
<1>7. CASE Tick
  BY <1>7, <1>i, LedgerUnchanged DEF Tick
<1>8. CASE UNCHANGED vars
  BY <1>8, <1>i, LedgerUnchanged DEF vars
<1> QED
  BY <1>1, <1>2, <1>3, <1>4, <1>5, <1>6, <1>7, <1>8 DEF Next

(***************************************************************************)
(* The overspend is bounded by the calls granted at once before any was    *)
(* metered, and by the charges applied twice.                              *)
(***************************************************************************)
THEOREM OverspendIsBounded == Spec => []OverspendBounded
<1>1. TypeOK /\ OverspendInv /\ [Next]_vars => OverspendInv'
  BY NextTypeOK, NextCeilingInv, NextOverspendBounded DEF OverspendInv
<1>2. OverspendInv => OverspendBounded
  BY DEF OverspendInv
<1> QED
  BY <1>1, <1>2, InitTypeOK, NextTypeOK, InitOverspendInv, PTL DEF Spec

----------------------------------------------------------------------------
(***************************************************************************)
(* The rate cap of the budget service, for any number of calls and         *)
(* customers, any cap and window, and any number of re-sends.              *)
(*                                                                         *)
(* RateCap is not inductive.  What carries it is that the counter of a     *)
(* window still open or to come counts every call whose INCR ran in it     *)
(* (CountBacked), because its key, if it has a TTL at all, outlives the    *)
(* window (KeyOutlivesWindow).                                             *)
(***************************************************************************)
\* The calls of c whose INCR ran inside window b, and those it let through.
Counted(c, b) == {r \in onTime : CustomerOf[r] = c /\ bucket[r] = b}
Passed(c, b)  == {r \in Counted(c, b) : okRate[r]}

CountBacked ==
  \A c \in Customers, b \in Buckets :
    b >= BucketOf(now) => Cardinality(Counted(c, b)) <= count[c][b]

KeyOutlivesWindow ==
  \A c \in Customers, b \in Buckets : expiry[c][b] # 0 => expiry[c][b] >= Window * b + Window

EnteredInWindow == \A r \in Calls : Window * bucket[r] <= now

PassedCap ==
  \A c \in Customers, b \in Buckets : Cardinality(Passed(c, b)) <= RateMax

GrantNeedsRate == \A r \in Calls : stage[r] = "allowed" => okRate[r]

CountedOnce == \A r \in Calls : stage[r] \in {"idle", "incr"} => r \notin onTime

RateInv ==
  /\ CountBacked /\ KeyOutlivesWindow /\ EnteredInWindow
  /\ PassedCap /\ GrantNeedsRate /\ CountedOnce

----------------------------------------------------------------------------
(* Facts about windows.                                                    *)

\* A time lies in its window.
LEMMA TimeInWindow ==
  ASSUME NEW t \in Nat
  PROVE  /\ BucketOf(t) \in Nat
         /\ Window * BucketOf(t) <= t
         /\ t < Window * BucketOf(t) + Window
  BY SMT DEF BucketOf

\* A window that has not closed ends later than now.
LEMMA OpenWindowEndsLater ==
  ASSUME NEW t \in Nat, NEW b \in Nat, b >= BucketOf(t)
  PROVE  t < Window * b + Window
<1> DEFINE a == BucketOf(t)
<1>1. a \in Nat /\ t < Window * a + Window
  BY TimeInWindow
<1> HIDE DEF a
<1>2. b >= a
  BY DEF a
<1>3. Window * b >= Window * a
  BY <1>1, <1>2, SMT
<1> QED
  BY <1>1, <1>3, SMT

\* Windows follow each other as times do.
LEMMA WindowsInOrder ==
  ASSUME NEW t \in Nat PROVE BucketOf(t) <= BucketOf(t + 1)
  BY SMT DEF BucketOf

\* The parts of TypeOK that this argument needs.
LEMMA RateTypes ==
  ASSUME TypeOK
  PROVE  /\ now \in Nat
         /\ count \in [Customers -> [Buckets -> Nat]]
         /\ expiry \in [Customers -> [Buckets -> Nat]]
         /\ stage \in [Calls -> Stages]
         /\ bucket \in [Calls -> Buckets]
         /\ okRate \in [Calls -> BOOLEAN]
         /\ onTime \subseteq Calls
  BY SMT DEF TypeOK

LEMMA BucketsAreNats == Buckets \subseteq Nat
<1>1. BucketOf(Horizon) \in Nat
  BY TimeInWindow
<1> QED
  BY <1>1, SMT DEF Buckets

\* Sets of calls that a window counts have a number of elements.
LEMMA CountedFinite ==
  ASSUME onTime \subseteq Calls, NEW c, NEW b
  PROVE  /\ IsFiniteSet(Counted(c, b)) /\ Cardinality(Counted(c, b)) \in Nat
         /\ IsFiniteSet(Passed(c, b)) /\ Cardinality(Passed(c, b)) \in Nat
         /\ Cardinality(Passed(c, b)) <= Cardinality(Counted(c, b))
<1>1. Counted(c, b) \in SUBSET Calls /\ Passed(c, b) \in SUBSET Calls
  BY DEF Counted, Passed
<1>2. Passed(c, b) \subseteq Counted(c, b)
  BY DEF Passed
<1> QED
  BY <1>1, <1>2, CallSetsFinite, FS_Subset

\* One more call makes a set at most one larger.
LEMMA OneMore ==
  ASSUME NEW S, IsFiniteSet(S), NEW r
  PROVE  Cardinality(S \cup {r}) <= Cardinality(S) + 1
<1>1. Cardinality(S) \in Nat
  BY FS_CardinalityType
<1> QED
  BY <1>1, FS_AddElement, SMT

----------------------------------------------------------------------------
LEMMA InitRateInv == Init => RateInv
<1> SUFFICES ASSUME Init PROVE RateInv
  OBVIOUS
<1>1. ASSUME NEW c \in Customers, NEW b \in Buckets
      PROVE  Cardinality(Counted(c, b)) = 0 /\ Cardinality(Passed(c, b)) = 0
  <2>1. Counted(c, b) = {} /\ Passed(c, b) = {}
    BY DEF Init, Counted, Passed
  <2> QED
    BY <2>1, FS_EmptySet
<1>2. \A c \in Customers, b \in Buckets : count[c][b] = 0
  BY DEF Init
<1>3. CountBacked /\ PassedCap
  BY <1>1, <1>2 DEF CountBacked, PassedCap
<1>4. KeyOutlivesWindow /\ EnteredInWindow
  BY SMT DEF Init, KeyOutlivesWindow, EnteredInWindow
<1>5. GrantNeedsRate /\ CountedOnce
  BY DEF Init, GrantNeedsRate, CountedOnce
<1> QED
  BY <1>3, <1>4, <1>5 DEF RateInv

(***************************************************************************)
(* Most steps touch neither clock nor rate keys: all that is left to show  *)
(* of them is what they do to the stages.                                  *)
(***************************************************************************)
LEMMA RateUntouched ==
  ASSUME RateInv,
         UNCHANGED <<now, count, expiry, bucket, okRate, onTime>>,
         \A r \in Calls : stage'[r] \in {"idle", "incr"} => stage[r] \in {"idle", "incr"},
         \A r \in Calls : stage'[r] = "allowed" => okRate[r]
  PROVE  RateInv'
<1>1. CountBacked' /\ PassedCap'
  BY DEF RateInv, CountBacked, PassedCap, Counted, Passed
<1>2. KeyOutlivesWindow' /\ EnteredInWindow'
  BY DEF RateInv, KeyOutlivesWindow, EnteredInWindow
<1>3. GrantNeedsRate' /\ CountedOnce'
  BY DEF RateInv, GrantNeedsRate, CountedOnce
<1> QED
  BY <1>1, <1>2, <1>3 DEF RateInv

LEMMA ArriveRateInv ==
  ASSUME TypeOK, RateInv, NEW r \in Calls, Arrive(r)
  PROVE  RateInv'
<1>t. /\ now \in Nat /\ onTime \subseteq Calls
      /\ stage \in [Calls -> Stages] /\ bucket \in [Calls -> Buckets]
  BY RateTypes
<1>1. /\ stage[r] = "idle" /\ stage' = [stage EXCEPT ![r] = "incr"]
      /\ bucket' = [bucket EXCEPT ![r] = BucketOf(now)]
      /\ UNCHANGED <<now, count, expiry, okRate, onTime>>
  BY DEF Arrive, redisVars
<1>2. r \notin onTime
  BY <1>1 DEF RateInv, CountedOnce
<1>3. \A q \in onTime : bucket'[q] = bucket[q]
  BY <1>t, <1>1, <1>2
<1>4. \A c, b : Counted(c, b)' = Counted(c, b) /\ Passed(c, b)' = Passed(c, b)
  BY <1>1, <1>3 DEF Counted, Passed
<1>5. CountBacked' /\ PassedCap'
  BY <1>1, <1>4 DEF RateInv, CountBacked, PassedCap, BucketOf
<1>6. KeyOutlivesWindow'
  BY <1>1 DEF RateInv, KeyOutlivesWindow
<1>7. Window * BucketOf(now) <= now
  BY <1>t, TimeInWindow
<1>8. EnteredInWindow'
  BY <1>t, <1>1, <1>7 DEF RateInv, EnteredInWindow
<1>9. GrantNeedsRate' /\ CountedOnce'
  BY <1>t, <1>1 DEF RateInv, GrantNeedsRate, CountedOnce
<1> QED
  BY <1>5, <1>6, <1>8, <1>9 DEF RateInv

\* An INCR leaves no window with fewer counts than it had.
LEMMA IncrRaisesCount ==
  ASSUME TypeOK, NEW r \in Calls, ApplyIncr(r), NEW c \in Customers, NEW b \in Buckets
  PROVE  /\ count[c][b] \in Nat /\ count'[c][b] \in Nat /\ count[c][b] <= count'[c][b]
         /\ c = CustomerOf[r] /\ b = bucket[r] => count'[c][b] = count[c][b] + 1
<1>1. /\ count \in [Customers -> [Buckets -> Nat]]
      /\ count' = [count EXCEPT ![CustomerOf[r]][bucket[r]] = count[CustomerOf[r]][bucket[r]] + 1]
  BY RateTypes DEF ApplyIncr
<1>2. CustomerOf[r] \in Customers /\ bucket[r] \in Buckets
  BY RateTypes
<1>3. count[c][b] \in Nat
  BY <1>1
<1>4. CASE c = CustomerOf[r] /\ b = bucket[r]
  BY <1>1, <1>2, <1>3, <1>4
<1>5. CASE ~(c = CustomerOf[r] /\ b = bucket[r])
  <2>1. count'[c][b] = count[c][b]
    BY <1>1, <1>2, <1>5
  <2> QED
    BY <2>1, <1>3, <1>5
<1> QED
  BY <1>4, <1>5

LEMMA IncrLostRateInv ==
  ASSUME TypeOK, RateInv, NEW r \in Calls, IncrLost(r)
  PROVE  RateInv'
<1>1. UNCHANGED <<now, expiry, bucket, stage, okRate, onTime>>
  BY DEF IncrLost, ApplyIncr
<1>2. ApplyIncr(r)
  BY DEF IncrLost
<1>3. \A c, b : Counted(c, b)' = Counted(c, b) /\ Passed(c, b)' = Passed(c, b)
  BY <1>1 DEF Counted, Passed
<1>4. ASSUME NEW c \in Customers, NEW b \in Buckets, b >= BucketOf(now)
      PROVE  Cardinality(Counted(c, b)) <= count'[c][b]
  <2>1. Cardinality(Counted(c, b)) <= count[c][b]
    BY <1>4 DEF RateInv, CountBacked
  <2>2. count[c][b] \in Nat /\ count'[c][b] \in Nat
    BY <1>2, IncrRaisesCount
  <2>3. Cardinality(Counted(c, b)) \in Nat
    BY CountedFinite, RateTypes
  <2> QED
    BY <2>1, <2>2, <2>3, <1>2, IncrRaisesCount
<1>5. CountBacked'
  BY <1>1, <1>3, <1>4 DEF CountBacked, BucketOf
<1>6. PassedCap'
  BY <1>3 DEF RateInv, PassedCap
<1>7. KeyOutlivesWindow' /\ EnteredInWindow'
  BY <1>1 DEF RateInv, KeyOutlivesWindow, EnteredInWindow
<1>8. GrantNeedsRate' /\ CountedOnce'
  BY <1>1 DEF RateInv, GrantNeedsRate, CountedOnce
<1> QED
  BY <1>5, <1>6, <1>7, <1>8 DEF RateInv

LEMMA IncrRateInv ==
  ASSUME TypeOK, RateInv, NEW r \in Calls, Incr(r)
  PROVE  RateInv'
<1> DEFINE cr == CustomerOf[r]
           br == bucket[r]
           n  == count[cr][br] + 1
<1>t. /\ now \in Nat /\ onTime \subseteq Calls /\ cr \in Customers /\ br \in Buckets
      /\ stage \in [Calls -> Stages] /\ okRate \in [Calls -> BOOLEAN]
      /\ n \in Nat
  BY RateTypes
<1>1. /\ UNCHANGED <<now, expiry, bucket>>
      /\ ApplyIncr(r) /\ stage[r] = "incr"
      /\ okRate' = [okRate EXCEPT ![r] = RateOK(n)]
      /\ stage' = [stage EXCEPT ![r] = IF n = 1 THEN "expire" ELSE "limit"]
      /\ onTime' = IF br = BucketOf(now) THEN onTime \cup {r} ELSE onTime
  BY DEF Incr, ApplyIncr
<1> HIDE DEF n
<1>2. r \notin onTime
  BY <1>1 DEF RateInv, CountedOnce
<1>3. \A q \in onTime : okRate'[q] = okRate[q]
  BY <1>t, <1>1, <1>2
<1>4. okRate'[r] = RateOK(n)
  BY <1>t, <1>1
<1>5. ASSUME NEW c \in Customers, NEW b \in Buckets
      PROVE  /\ b >= BucketOf(now) => Cardinality(Counted(c, b)') <= count'[c][b]
             /\ Cardinality(Passed(c, b)') <= RateMax
  <2>1. /\ Cardinality(Counted(c, b)) \in Nat /\ IsFiniteSet(Counted(c, b))
        /\ Cardinality(Passed(c, b)) \in Nat /\ IsFiniteSet(Passed(c, b))
        /\ Cardinality(Passed(c, b)) <= Cardinality(Counted(c, b))
    BY <1>t, CountedFinite
  <2>2. /\ count[c][b] \in Nat /\ count'[c][b] \in Nat /\ count[c][b] <= count'[c][b]
        /\ c = cr /\ b = br => count'[c][b] = n /\ n = count[c][b] + 1
    BY <1>1, RateTypes, IncrRaisesCount DEF n
  <2>3. /\ b >= BucketOf(now) => Cardinality(Counted(c, b)) <= count[c][b]
        /\ Cardinality(Passed(c, b)) <= RateMax
    BY DEF RateInv, CountBacked, PassedCap
  <2>4. CASE c = cr /\ b = br /\ br = BucketOf(now)
    <3>1. Counted(c, b)' = Counted(c, b) \cup {r}
      BY <2>4, <1>1 DEF Counted
    <3>2. Passed(c, b)' = IF RateOK(n) THEN Passed(c, b) \cup {r} ELSE Passed(c, b)
      BY <3>1, <1>2, <1>3, <1>4 DEF Passed, Counted
    <3>3. Cardinality(Counted(c, b) \cup {r}) <= Cardinality(Counted(c, b)) + 1
      BY <2>1, OneMore
    <3>4. Cardinality(Passed(c, b) \cup {r}) <= Cardinality(Passed(c, b)) + 1
      BY <2>1, OneMore
    <3>5. BucketOf(now) \in Nat
      BY <1>t, TimeInWindow
    <3>6. Cardinality(Counted(c, b)) <= count[c][b]
      BY <2>3, <2>4, <3>5
    <3>7. /\ Cardinality(Counted(c, b) \cup {r}) \in Nat
          /\ Cardinality(Passed(c, b) \cup {r}) \in Nat
      BY <2>1, FS_AddElement, FS_CardinalityType
    <3>8. Cardinality(Counted(c, b)') <= count'[c][b]
      <4>1. count'[c][b] = count[c][b] + 1
        BY <2>2, <2>4
      <4>2. Cardinality(Counted(c, b) \cup {r}) <= count[c][b] + 1
        BY <2>1, <2>2, <3>3, <3>6, <3>7
      <4> QED
        BY <3>1, <4>1, <4>2
    <3>9. CASE RateOK(n)
      <4>1. n <= RateMax
        BY <3>9 DEF RateOK
      <4>2. Cardinality(Passed(c, b) \cup {r}) <= n
        BY <2>1, <2>2, <2>4, <3>4, <3>6, <3>7
      <4> QED
        BY <4>1, <4>2, <3>2, <3>7, <3>8, <3>9, <1>t
    <3>10. CASE ~RateOK(n)
      BY <3>2, <3>8, <3>10, <2>3
    <3> QED
      BY <3>9, <3>10
  <2>5. CASE ~(c = cr /\ b = br /\ br = BucketOf(now))
    <3>1. Counted(c, b)' = Counted(c, b)
      BY <2>5, <1>1, <1>2 DEF Counted
    <3>2. Passed(c, b)' = Passed(c, b)
      BY <3>1, <1>3 DEF Passed, Counted
    <3>3. b >= BucketOf(now) => Cardinality(Counted(c, b)) <= count'[c][b]
      BY <2>1, <2>2, <2>3
    <3> QED
      BY <3>1, <3>2, <3>3, <2>3
  <2> QED
    BY <2>4, <2>5
<1>6. CountBacked' /\ PassedCap'
  BY <1>1, <1>5 DEF CountBacked, PassedCap, BucketOf
<1>7. KeyOutlivesWindow' /\ EnteredInWindow'
  BY <1>1 DEF RateInv, KeyOutlivesWindow, EnteredInWindow
<1>8. GrantNeedsRate'
  <2>1. \A q \in Calls : q # r => stage'[q] = stage[q] /\ okRate'[q] = okRate[q]
    BY <1>t, <1>1
  <2>2. stage'[r] # "allowed"
    BY <1>t, <1>1
  <2> QED
    BY <2>1, <2>2 DEF RateInv, GrantNeedsRate
<1>9. CountedOnce'
  <2>1. stage'[r] \notin {"idle", "incr"}
    BY <1>t, <1>1
  <2>2. \A q \in Calls : q # r => stage'[q] = stage[q] /\ (q \in onTime' <=> q \in onTime)
    BY <1>t, <1>1
  <2> QED
    BY <2>1, <2>2 DEF RateInv, CountedOnce
<1> QED
  BY <1>6, <1>7, <1>8, <1>9 DEF RateInv

LEMMA ExpireRateInv ==
  ASSUME TypeOK, RateInv, NEW r \in Calls, Expire(r)
  PROVE  RateInv'
<1> DEFINE cr == CustomerOf[r]
           br == bucket[r]
<1>t. /\ now \in Nat /\ cr \in Customers /\ br \in Nat /\ br \in Buckets
      /\ expiry \in [Customers -> [Buckets -> Nat]]
      /\ stage \in [Calls -> Stages]
  BY RateTypes, BucketsAreNats
<1>1. /\ UNCHANGED <<now, count, bucket, okRate, onTime>>
      /\ stage[r] = "expire" /\ stage' = [stage EXCEPT ![r] = "limit"]
      /\ \/ expiry' = [expiry EXCEPT ![cr][br] = now + Window]
         \/ expiry' = expiry
  BY DEF Expire, RateTTL
<1>2. Window * br <= now
  BY DEF RateInv, EnteredInWindow
<1>3. ASSUME NEW c \in Customers, NEW b \in Buckets, expiry'[c][b] # 0
      PROVE  expiry'[c][b] >= Window * b + Window
  <2>1. CASE c = cr /\ b = br /\ expiry' # expiry
    <3>1. expiry'[c][b] = now + Window
      BY <1>t, <1>1, <2>1
    <3> DEFINE w == Window * br
    <3>2. w \in Nat /\ w <= now
      BY <1>t, <1>2
    <3> HIDE DEF w
    <3>3. now + Window >= w + Window
      BY <1>t, <3>2
    <3> QED
      BY <2>1, <3>1, <3>3 DEF w
  <2>2. CASE ~(c = cr /\ b = br /\ expiry' # expiry)
    <3>1. expiry'[c][b] = expiry[c][b]
      BY <1>t, <1>1, <2>2
    <3> QED
      BY <3>1, <1>3 DEF RateInv, KeyOutlivesWindow
  <2> QED
    BY <2>1, <2>2
<1>4. KeyOutlivesWindow'
  BY <1>3 DEF KeyOutlivesWindow
<1>5. CountBacked' /\ PassedCap'
  BY <1>1 DEF RateInv, CountBacked, PassedCap, Counted, Passed
<1>6. EnteredInWindow'
  BY <1>1 DEF RateInv, EnteredInWindow
<1>7. GrantNeedsRate' /\ CountedOnce'
  BY <1>t, <1>1 DEF RateInv, GrantNeedsRate, CountedOnce
<1> QED
  BY <1>4, <1>5, <1>6, <1>7 DEF RateInv

\* Time passes: no key of a window still open expires.
LEMMA TickRateInv ==
  ASSUME TypeOK, RateInv, Tick
  PROVE  RateInv'
<1>t. /\ now \in Nat
      /\ count \in [Customers -> [Buckets -> Nat]]
      /\ expiry \in [Customers -> [Buckets -> Nat]]
      /\ bucket \in [Calls -> Buckets] /\ Buckets \subseteq Nat
  BY RateTypes, BucketsAreNats
<1>1. now' = now + 1 /\ UNCHANGED <<stage, bucket, okRate, onTime>>
  BY DEF Tick, callVars
<1>2. ASSUME NEW c \in Customers, NEW b \in Buckets
      PROVE  \/ expiry'[c][b] = 0 /\ expiry[c][b] # 0 /\ expiry[c][b] <= now + 1
             \/ expiry'[c][b] = expiry[c][b] /\ count'[c][b] = count[c][b]
  BY <1>t, <1>1 DEF Tick
<1>3. \A c, b : Counted(c, b)' = Counted(c, b) /\ Passed(c, b)' = Passed(c, b)
  BY <1>1 DEF Counted, Passed
<1>4. ASSUME NEW c \in Customers, NEW b \in Buckets, b >= BucketOf(now + 1)
      PROVE  Cardinality(Counted(c, b)) <= count'[c][b]
  <2>1. now + 1 < Window * b + Window
    BY <1>t, <1>4, OpenWindowEndsLater
  <2>2. expiry[c][b] # 0 => expiry[c][b] >= Window * b + Window
    BY DEF RateInv, KeyOutlivesWindow
  <2>3. ~(expiry[c][b] # 0 /\ expiry[c][b] <= now + 1)
    <3> DEFINE w == Window * b
    <3>1. w \in Nat /\ expiry[c][b] \in Nat
      BY <1>t
    <3> HIDE DEF w
    <3> QED
      BY <3>1, <2>1, <2>2, <1>t DEF w
  <2>4. count'[c][b] = count[c][b]
    BY <2>3, <1>2
  <2>5. BucketOf(now) <= BucketOf(now + 1) /\ BucketOf(now) \in Nat /\ BucketOf(now + 1) \in Nat
    BY <1>t, WindowsInOrder, TimeInWindow
  <2>6. b >= BucketOf(now)
    BY <2>5, <1>4, <1>t
  <2> QED
    BY <2>4, <2>6 DEF RateInv, CountBacked
<1>5. CountBacked'
  BY <1>1, <1>3, <1>4 DEF CountBacked, BucketOf
<1>6. PassedCap'
  BY <1>3 DEF RateInv, PassedCap
<1>7. KeyOutlivesWindow'
  BY <1>2 DEF RateInv, KeyOutlivesWindow
<1>8. EnteredInWindow'
  <2>1. ASSUME NEW q \in Calls PROVE Window * bucket[q] <= now + 1
    <3> DEFINE w == Window * bucket[q]
    <3>1. bucket[q] \in Nat
      BY <1>t
    <3>2. w \in Nat /\ w <= now
      BY <3>1 DEF RateInv, EnteredInWindow
    <3> HIDE DEF w
    <3>3. w <= now + 1
      BY <3>2, <1>t
    <3> QED
      BY <3>3 DEF w
  <2> QED
    BY <2>1, <1>1 DEF EnteredInWindow
<1>9. GrantNeedsRate' /\ CountedOnce'
  BY <1>1 DEF RateInv, GrantNeedsRate, CountedOnce
<1> QED
  BY <1>5, <1>6, <1>7, <1>8, <1>9 DEF RateInv

LEMMA NextRateInv == TypeOK /\ RateInv /\ [Next]_vars => RateInv'
<1> SUFFICES ASSUME TypeOK, RateInv, [Next]_vars PROVE RateInv'
  OBVIOUS
<1>t. stage \in [Calls -> Stages]
  BY RateTypes
<1>g. \A q \in Calls : stage[q] = "allowed" => okRate[q]
  BY DEF RateInv, GrantNeedsRate
<1>1. ASSUME NEW r \in Calls, Arrive(r) \/ Incr(r) \/ IncrLost(r) \/ Expire(r)
      PROVE  RateInv'
  BY <1>1, ArriveRateInv, IncrRateInv, IncrLostRateInv, ExpireRateInv
<1>2. ASSUME NEW r \in Calls, IncrFails(r) \/ ReadFails(r) PROVE RateInv'
  <2>1. /\ stage' = [stage EXCEPT ![r] = "error"]
        /\ UNCHANGED <<now, count, expiry, bucket, okRate, onTime>>
    BY <1>2 DEF IncrFails, ReadFails, Fails, redisVars
  <2> QED
    BY <2>1, <1>t, <1>g, RateUntouched
<1>3. ASSUME NEW r \in Calls, ReadLimit(r) PROVE RateInv'
  <2>1. /\ stage' = [stage EXCEPT ![r] = "spend"]
        /\ UNCHANGED <<now, count, expiry, bucket, okRate, onTime>>
    BY <1>3 DEF ReadLimit, redisVars
  <2> QED
    BY <2>1, <1>t, <1>g, RateUntouched
<1>4. ASSUME NEW r \in Calls, ReadSpend(r) PROVE RateInv'
  <2> DEFINE v == Verdict(okRate[r], lim[r] - spend[CustomerOf[r]])
  <2>1. /\ stage' = [stage EXCEPT ![r] = v]
        /\ UNCHANGED <<now, count, expiry, bucket, okRate, onTime>>
    BY <1>4 DEF ReadSpend, redisVars
  <2>2. okRate[r] \in BOOLEAN
    BY RateTypes
  <2>3. v \in {"allowed", "rate_limit", "budget"}
    BY <2>2 DEF Verdict
  <2>4. v = "allowed" => okRate[r]
    BY <2>2 DEF Verdict
  <2> HIDE DEF v
  <2> QED
    BY <2>1, <2>3, <2>4, <1>t, <1>g, RateUntouched
<1>5. ASSUME NEW r \in Calls, PublishAlert(r) PROVE RateInv'
  BY <1>5, <1>g, RateUntouched DEF PublishAlert, redisVars
<1>6. ASSUME NEW r \in Calls, NEW m \in 0 .. MaxCost, Charge(r, m) \/ ChargeAgain(r, m)
      PROVE  RateInv'
  BY <1>6, <1>g, RateUntouched DEF Charge, ChargeAgain, AddSpend, callVars
<1>7. ASSUME NEW c \in Customers, NEW l \in Limits, SetLimit(c, l) PROVE RateInv'
  BY <1>7, <1>g, RateUntouched DEF SetLimit, callVars
<1>8. CASE Crash
  <2>1. /\ stage' = [q \in Calls |-> IF stage[q] \in InFlight THEN "error" ELSE stage[q]]
        /\ UNCHANGED <<now, count, expiry, bucket, okRate, onTime>>
    BY <1>8 DEF Crash, redisVars
  <2> QED
    BY <2>1, <1>g, RateUntouched
<1>9. CASE Tick
  BY <1>9, TickRateInv
<1>10. CASE UNCHANGED vars
  BY <1>10, <1>g, RateUntouched DEF vars, redisVars, callVars
<1> QED
  BY <1>1, <1>2, <1>3, <1>4, <1>5, <1>6, <1>7, <1>8, <1>9, <1>10 DEF Next

\* The calls granted in a window are among those its counter let through.
LEMMA RateInvImpliesCap == TypeOK /\ RateInv => RateCap
<1> SUFFICES ASSUME TypeOK, RateInv, NEW c \in Customers, NEW b \in Buckets
             PROVE  Cardinality({r \in onTime : CustomerOf[r] = c /\ bucket[r] = b
                                                /\ stage[r] = "allowed"}) <= RateMax
  BY DEF RateCap
<1> DEFINE S == {r \in onTime : CustomerOf[r] = c /\ bucket[r] = b /\ stage[r] = "allowed"}
<1>1. onTime \subseteq Calls
  BY RateTypes
<1>2. S \subseteq Passed(c, b)
  BY <1>1 DEF RateInv, GrantNeedsRate, Passed, Counted
<1>3. IsFiniteSet(Passed(c, b)) /\ Cardinality(Passed(c, b)) \in Nat
  BY <1>1, CountedFinite
<1> HIDE DEF S
<1>4. Cardinality(S) \in Nat /\ Cardinality(S) <= Cardinality(Passed(c, b))
  BY <1>2, <1>3, FS_Subset, FS_CardinalityType
<1>5. Cardinality(Passed(c, b)) <= RateMax
  BY DEF RateInv, PassedCap
<1>6. Cardinality(S) <= RateMax
  BY <1>3, <1>4, <1>5
<1> QED
  BY <1>6 DEF S

(***************************************************************************)
(* No more than RateMax calls of a customer are granted in a window.       *)
(***************************************************************************)
THEOREM RateCapHolds == Spec => []RateCap
<1> DEFINE Inv == TypeOK /\ RateInv
<1>1. Init => Inv
  BY InitTypeOK, InitRateInv
<1>2. Inv /\ [Next]_vars => Inv'
  BY NextTypeOK, NextRateInv
<1>3. Inv => RateCap
  BY RateInvImpliesCap
<1> QED
  BY <1>1, <1>2, <1>3, PTL DEF Spec

----------------------------------------------------------------------------
(***************************************************************************)
(* Nobody is throttled for another's traffic: for any number of calls and  *)
(* customers, any cap and window, and any number of re-sends.              *)
(*                                                                         *)
(* NoFalseThrottle speaks of the verdict, whose reason lies steps back.    *)
(* What carries it is a reason for each unit of a counter: the attempts of *)
(* the customer's calls of that window, which are only ever added to.      *)
(***************************************************************************)
\* The INCRs Redis has applied for the calls of c in window b.
Attempts(c, b) == {a \in Calls \X (1 .. Resends + 1) :
                     CustomerOf[a[1]] = c /\ bucket[a[1]] = b /\ a[2] <= tries[a[1]]}

CountExplained ==
  \A c \in Customers, b \in Buckets : count[c][b] <= Cardinality(Attempts(c, b))

IdleUntried == \A r \in Calls : stage[r] = "idle" => tries[r] = 0

\* A call that was told no, and is not done or was throttled for it.
Blocked(r) ==
  \/ stage[r] \in {"expire", "limit", "spend"} /\ ~okRate[r]
  \/ stage[r] = "rate_limit"

BlockedExplained ==
  \A r \in Calls : Blocked(r) => RateMax < Cardinality(Attempts(CustomerOf[r], bucket[r]))

ThrottleInv == CountExplained /\ IdleUntried /\ BlockedExplained

----------------------------------------------------------------------------
LEMMA ThrottleTypes ==
  ASSUME TypeOK
  PROVE  /\ tries \in [Calls -> 0 .. Resends + 1] /\ bucket \in [Calls -> Buckets]
         /\ stage \in [Calls -> Stages] /\ okRate \in [Calls -> BOOLEAN]
         /\ \A c \in Customers, b \in Buckets : count[c][b] \in Nat
  BY DEF TypeOK

\* Sets of attempts have a number of elements.
LEMMA AttemptsFinite ==
  ASSUME NEW S \in SUBSET (Calls \X (1 .. Resends + 1))
  PROVE  IsFiniteSet(S) /\ Cardinality(S) \in Nat
<1>1. IsFiniteSet(1 .. Resends + 1)
  BY FS_Interval
<1>2. IsFiniteSet(Calls \X (1 .. Resends + 1))
  BY <1>1, FS_Product
<1> QED
  BY <1>2, FS_Subset, FS_CardinalityType

\* Attempts that stay, stay counted.
LEMMA AttemptsStay ==
  ASSUME NEW S \in SUBSET (Calls \X (1 .. Resends + 1)), NEW T \in SUBSET S
  PROVE  Cardinality(T) <= Cardinality(S)
  BY AttemptsFinite, FS_Subset

LEMMA InitThrottleInv == Init => ThrottleInv
<1> SUFFICES ASSUME Init PROVE ThrottleInv
  OBVIOUS
<1>1. \A c \in Customers, b \in Buckets : count[c][b] = 0 /\ Attempts(c, b) = {}
  <2>1. \A r \in Calls : tries[r] = 0
    BY DEF Init
  <2>2. \A c, b : Attempts(c, b) = {}
    BY <2>1 DEF Attempts
  <2> QED
    BY <2>2 DEF Init
<1>2. CountExplained
  <2>1. Cardinality({}) = 0
    BY FS_EmptySet
  <2> QED
    BY <1>1, <2>1 DEF CountExplained
<1>3. \A r \in Calls : stage[r] = "idle" /\ tries[r] = 0
  BY DEF Init
<1>4. IdleUntried /\ BlockedExplained
  BY <1>3 DEF IdleUntried, BlockedExplained, Blocked
<1> QED
  BY <1>2, <1>4 DEF ThrottleInv

\* Steps that add no attempt and no verdict.
LEMMA NoAttempt ==
  ASSUME TypeOK, ThrottleInv, UNCHANGED tries,
         \A r \in Calls : bucket'[r] = bucket[r] \/ tries[r] = 0,
         \A c \in Customers, b \in Buckets : count'[c][b] \in {0, count[c][b]},
         \A r \in Calls : stage'[r] = "idle" => stage[r] = "idle",
         \A r \in Calls : Blocked(r)' => Blocked(r) /\ bucket'[r] = bucket[r]
  PROVE  ThrottleInv'
<1>1. \A c, b : Attempts(c, b) \subseteq Attempts(c, b)'
  <2> TAKE c, b
  <2>1. ASSUME NEW a \in Attempts(c, b) PROVE bucket'[a[1]] = bucket[a[1]]
    <3>1. a[1] \in Calls /\ a[2] \in Nat /\ a[2] >= 1 /\ a[2] <= tries[a[1]]
      BY DEF Attempts
    <3>2. tries[a[1]] # 0
      BY <3>1
    <3> QED
      BY <3>1, <3>2
  <2> QED
    BY <2>1 DEF Attempts
<1>2. \A c, b : /\ Attempts(c, b) \in SUBSET (Calls \X (1 .. Resends + 1))
                /\ Attempts(c, b)' \in SUBSET (Calls \X (1 .. Resends + 1))
  BY DEF Attempts
<1>3. \A c, b : /\ Cardinality(Attempts(c, b)) <= Cardinality(Attempts(c, b)')
                /\ Cardinality(Attempts(c, b)) \in Nat /\ Cardinality(Attempts(c, b)') \in Nat
  BY <1>1, <1>2, AttemptsStay, AttemptsFinite
<1>4. CountExplained'
  <2> SUFFICES ASSUME NEW c \in Customers, NEW b \in Buckets
               PROVE  count'[c][b] <= Cardinality(Attempts(c, b)')
    BY DEF CountExplained
  <2>1. count[c][b] \in Nat /\ count'[c][b] \in {0, count[c][b]}
    BY ThrottleTypes
  <2>2. count[c][b] <= Cardinality(Attempts(c, b))
    BY DEF ThrottleInv, CountExplained
  <2> QED
    BY <1>3, <2>1, <2>2
<1>5. IdleUntried'
  BY DEF ThrottleInv, IdleUntried
<1>6. BlockedExplained'
  <2> SUFFICES ASSUME NEW r \in Calls, Blocked(r)'
               PROVE  RateMax < Cardinality(Attempts(CustomerOf[r], bucket[r])')
    BY DEF BlockedExplained
  <2>1. bucket'[r] = bucket[r] /\ RateMax < Cardinality(Attempts(CustomerOf[r], bucket[r]))
    BY DEF ThrottleInv, BlockedExplained
  <2>2. PICK b : b = bucket[r]
    OBVIOUS
  <2>3. RateMax < Cardinality(Attempts(CustomerOf[r], b)')
    BY <1>3, <2>1, <2>2
  <2> QED
    BY <2>1, <2>2, <2>3 DEF Attempts
<1> QED
  BY <1>4, <1>5, <1>6 DEF ThrottleInv

LEMMA IncrThrottleInv ==
  ASSUME TypeOK, ThrottleInv, NEW r \in Calls, Incr(r) \/ IncrLost(r)
  PROVE  ThrottleInv'
<1>0. PICK cr \in Customers, br \in Buckets : cr = CustomerOf[r] /\ br = bucket[r]
  BY ThrottleTypes
<1> DEFINE n == count[cr][br] + 1
<1>t. /\ tries \in [Calls -> 0 .. Resends + 1] /\ stage \in [Calls -> Stages]
      /\ okRate \in [Calls -> BOOLEAN]
      /\ count \in [Customers -> [Buckets -> Nat]] /\ n \in Nat
  BY ThrottleTypes, RateTypes
<1>1. /\ stage[r] = "incr" /\ tries[r] <= Resends /\ bucket' = bucket
      /\ tries' = [tries EXCEPT ![r] = @ + 1]
      /\ count' = [count EXCEPT ![cr][br] = @ + 1]
  BY <1>0 DEF Incr, IncrLost, ApplyIncr
<1>2. /\ \/ UNCHANGED <<stage, okRate>>
         \/ okRate'[r] = RateOK(n) /\ stage'[r] \in {"expire", "limit"}
      /\ \A q \in Calls : q # r => stage'[q] = stage[q] /\ okRate'[q] = okRate[q]
  BY <1>0, <1>t DEF Incr, IncrLost
<1> HIDE DEF n
<1>3. tries'[r] = tries[r] + 1 /\ \A q \in Calls : tries'[q] >= tries[q]
  BY <1>t, <1>1
<1>4. \A c, b : /\ Attempts(c, b) \in SUBSET (Calls \X (1 .. Resends + 1))
                /\ Attempts(c, b)' \in SUBSET (Calls \X (1 .. Resends + 1))
  BY DEF Attempts
<1>5. \A c, b : Attempts(c, b) \subseteq Attempts(c, b)'
  <2> TAKE c, b
  <2>1. ASSUME NEW a \in Attempts(c, b) PROVE a[2] <= tries'[a[1]]
    <3>1. a[1] \in Calls /\ a[2] \in Nat /\ a[2] <= tries[a[1]]
      BY DEF Attempts
    <3>2. tries[a[1]] \in Nat /\ tries'[a[1]] \in Nat
      BY <1>t, <1>1, <3>1
    <3> QED
      BY <1>3, <3>1, <3>2
  <2> QED
    BY <1>1, <2>1 DEF Attempts
<1>6. \A c, b : /\ Cardinality(Attempts(c, b)) <= Cardinality(Attempts(c, b)')
                /\ Cardinality(Attempts(c, b)) \in Nat /\ Cardinality(Attempts(c, b)') \in Nat
                /\ IsFiniteSet(Attempts(c, b))
  BY <1>4, <1>5, AttemptsStay, AttemptsFinite
<1>7. Cardinality(Attempts(cr, br)) + 1 <= Cardinality(Attempts(cr, br)')
  <2> DEFINE a == <<r, tries[r] + 1>>
  <2>1. a \in Calls \X (1 .. Resends + 1) /\ a[1] = r /\ a[2] = tries[r] + 1
    BY <1>t, <1>1
  <2>2. a \in Attempts(cr, br)'
    <3>1. CustomerOf[a[1]] = cr /\ bucket'[a[1]] = br /\ a[2] <= tries'[a[1]]
      BY <1>0, <1>t, <1>1, <1>3, <2>1
    <3> QED
      BY <1>1, <2>1, <3>1 DEF Attempts
  <2>3. a \notin Attempts(cr, br)
    <3>1. ~(a[2] <= tries[a[1]])
      BY <1>t, <2>1
    <3> QED
      BY <3>1 DEF Attempts
  <2> HIDE DEF a
  <2>4. Cardinality(Attempts(cr, br) \cup {a}) = Cardinality(Attempts(cr, br)) + 1
    <3>1. IsFiniteSet(Attempts(cr, br))
      BY <1>6
    <3> QED
      BY <2>3, <3>1, FS_AddElement
  <2>5. Attempts(cr, br) \cup {a} \in SUBSET (Attempts(cr, br)')
    BY <1>5, <2>2
  <2>6. Cardinality(Attempts(cr, br) \cup {a}) <= Cardinality(Attempts(cr, br)')
    BY <1>4, <2>5, AttemptsStay
  <2> QED
    BY <2>4, <2>6
<1>8. n <= Cardinality(Attempts(cr, br)')
  <2>1. count[cr][br] <= Cardinality(Attempts(cr, br)) /\ count[cr][br] \in Nat
    BY <1>t DEF ThrottleInv, CountExplained
  <2> QED
    BY <1>6, <1>7, <2>1 DEF n
<1>9. CountExplained'
  <2> SUFFICES ASSUME NEW c \in Customers, NEW b \in Buckets
               PROVE  count'[c][b] <= Cardinality(Attempts(c, b)')
    BY DEF CountExplained
  <2>1. CASE c = cr /\ b = br
    <3>1. count'[c][b] = n
      BY <1>0, <2>1, IncrRaisesCount DEF Incr, IncrLost, n
    <3> QED
      BY <1>8, <2>1, <3>1
  <2>2. CASE ~(c = cr /\ b = br)
    <3>1. count'[c][b] = count[c][b] /\ count[c][b] \in Nat
      BY <1>t, <1>1, <2>2
    <3>2. count[c][b] <= Cardinality(Attempts(c, b))
      BY DEF ThrottleInv, CountExplained
    <3> QED
      BY <1>6, <3>1, <3>2
  <2> QED
    BY <2>1, <2>2
<1>10. IdleUntried'
  <2>1. \A q \in Calls : q # r => tries'[q] = tries[q]
    BY <1>t, <1>1
  <2> QED
    BY <1>1, <1>2, <2>1 DEF ThrottleInv, IdleUntried
<1>11. BlockedExplained'
  <2> SUFFICES ASSUME NEW q \in Calls, Blocked(q)'
               PROVE  RateMax < Cardinality(Attempts(CustomerOf[q], bucket[q])')
    BY DEF BlockedExplained
  <2>1. ASSUME NEW b, RateMax < Cardinality(Attempts(CustomerOf[q], b)'), b = bucket[q]
        PROVE  RateMax < Cardinality(Attempts(CustomerOf[q], bucket[q])')
    BY <1>1, <2>1 DEF Attempts
  <2>2. PICK b : b = bucket[q]
    OBVIOUS
  <2>3. CASE q = r
    <3>1. ~RateOK(n)
      BY <1>1, <1>2, <2>3 DEF Blocked
    <3>2. RateMax < n
      BY <1>t, <3>1 DEF RateOK
    <3>3. CustomerOf[q] = cr /\ b = br
      BY <1>0, <2>2, <2>3
    <3>4. Cardinality(Attempts(cr, br)') \in Nat
      BY <1>6
    <3>5. RateMax < Cardinality(Attempts(cr, br)')
      BY <1>t, <1>8, <3>2, <3>4
    <3> QED
      BY <2>1, <2>2, <3>3, <3>5
  <2>4. CASE q # r
    <3>1. Blocked(q)
      BY <1>2, <2>4 DEF Blocked
    <3>2. RateMax < Cardinality(Attempts(CustomerOf[q], b))
      BY <2>2, <3>1 DEF ThrottleInv, BlockedExplained
    <3>3. RateMax < Cardinality(Attempts(CustomerOf[q], b)')
      BY <1>6, <3>2
    <3> QED
      BY <2>1, <2>2, <3>3
  <2> QED
    BY <2>3, <2>4
<1> QED
  BY <1>9, <1>10, <1>11 DEF ThrottleInv

LEMMA NextThrottleInv == TypeOK /\ ThrottleInv /\ [Next]_vars => ThrottleInv'
<1> SUFFICES ASSUME TypeOK, ThrottleInv, [Next]_vars PROVE ThrottleInv'
  OBVIOUS
<1>t. /\ stage \in [Calls -> Stages] /\ bucket \in [Calls -> Buckets]
      /\ okRate \in [Calls -> BOOLEAN]
  BY ThrottleTypes
<1> USE DEF redisVars, callVars
<1>1. ASSUME NEW r \in Calls, Arrive(r) PROVE ThrottleInv'
  <2>1. /\ stage[r] = "idle" /\ stage'[r] = "incr" /\ tries[r] = 0
        /\ UNCHANGED <<count, tries, okRate>>
        /\ \A q \in Calls : q # r => stage'[q] = stage[q] /\ bucket'[q] = bucket[q]
    BY <1>t, <1>1 DEF Arrive, ThrottleInv, IdleUntried
  <2>2. \A q \in Calls : Blocked(q)' => Blocked(q) /\ bucket'[q] = bucket[q]
    BY <2>1 DEF Blocked
  <2> QED
    BY <2>1, <2>2, NoAttempt
<1>2. ASSUME NEW r \in Calls, Incr(r) \/ IncrLost(r) PROVE ThrottleInv'
  BY <1>2, IncrThrottleInv
<1>3. ASSUME NEW r \in Calls, IncrFails(r) \/ ReadFails(r) \/ Expire(r) \/ ReadLimit(r)
      PROVE  ThrottleInv'
  <2>1. /\ UNCHANGED <<count, tries, okRate, bucket>>
        /\ \/ stage'[r] = "error"
           \/ stage[r] = "expire" /\ stage'[r] = "limit"
           \/ stage[r] = "limit" /\ stage'[r] = "spend"
        /\ \A q \in Calls : q # r => stage'[q] = stage[q]
    BY <1>t, <1>3 DEF IncrFails, ReadFails, Fails, Expire, ReadLimit
  <2>2. \A q \in Calls : (stage'[q] = "idle" => stage[q] = "idle") /\ (Blocked(q)' => Blocked(q))
    BY <2>1 DEF Blocked
  <2> QED
    BY <2>1, <2>2, NoAttempt
<1>4. ASSUME NEW r \in Calls, ReadSpend(r) PROVE ThrottleInv'
  <2> DEFINE v == Verdict(okRate[r], lim[r] - spend[CustomerOf[r]])
  <2>1. /\ UNCHANGED <<count, tries, okRate, bucket>> /\ stage[r] = "spend" /\ stage'[r] = v
        /\ \A q \in Calls : q # r => stage'[q] = stage[q]
    BY <1>t, <1>4 DEF ReadSpend
  <2>2. v \in {"allowed", "rate_limit", "budget"} /\ (v = "rate_limit" => ~okRate[r])
    BY <1>t DEF Verdict
  <2> HIDE DEF v
  <2>3. \A q \in Calls : (stage'[q] = "idle" => stage[q] = "idle") /\ (Blocked(q)' => Blocked(q))
    BY <2>1, <2>2 DEF Blocked
  <2> QED
    BY <2>1, <2>3, NoAttempt
<1>5. CASE \/ \E r \in Calls : \/ PublishAlert(r)
                               \/ \E m \in 0 .. MaxCost : Charge(r, m) \/ ChargeAgain(r, m)
           \/ \E c \in Customers, l \in Limits : SetLimit(c, l)
           \/ UNCHANGED vars
  <2>1. UNCHANGED <<count, tries, okRate, bucket, stage>>
    BY <1>5 DEF PublishAlert, Charge, ChargeAgain, AddSpend, SetLimit, vars
  <2> QED
    BY <2>1, NoAttempt DEF Blocked
<1>6. CASE Crash
  <2>1. /\ UNCHANGED <<count, tries, okRate, bucket>>
        /\ \A q \in Calls : stage'[q] \in {stage[q], "error"}
    BY <1>6 DEF Crash
  <2>2. \A q \in Calls : (stage'[q] = "idle" => stage[q] = "idle") /\ (Blocked(q)' => Blocked(q))
    BY <2>1 DEF Blocked
  <2> QED
    BY <2>1, <2>2, NoAttempt
<1>7. CASE Tick
  <2>1. UNCHANGED <<tries, okRate, bucket, stage>>
    BY <1>7 DEF Tick
  <2>2. \A c \in Customers, b \in Buckets : count'[c][b] \in {0, count[c][b]}
    BY <1>7 DEF Tick
  <2> QED
    BY <2>1, <2>2, NoAttempt DEF Blocked
<1> QED
  BY <1>1, <1>2, <1>3, <1>4, <1>5, <1>6, <1>7 DEF Next

\* The attempts that explain a throttled call are those of the calls that
\* its customer made in its window.
LEMMA ThrottleInvImplies == TypeOK /\ ThrottleInv => NoFalseThrottle
<1> SUFFICES ASSUME TypeOK, ThrottleInv, NEW r \in Calls, stage[r] = "rate_limit"
             PROVE  RateMax < (Resends + 1) * Cardinality({q \in Calls :
                      CustomerOf[q] = CustomerOf[r] /\ bucket[q] = bucket[r] /\ stage[q] # "idle"})
  BY DEF NoFalseThrottle
<1> DEFINE A == {q \in Calls :
                   CustomerOf[q] = CustomerOf[r] /\ bucket[q] = bucket[r] /\ stage[q] # "idle"}
           T == Attempts(CustomerOf[r], bucket[r])
<1>1. RateMax < Cardinality(T)
  BY DEF ThrottleInv, BlockedExplained, Blocked
<1>2. T \subseteq A \X (1 .. Resends + 1)
  <2>1. ASSUME NEW a \in T PROVE a[1] \in A /\ a \in Calls \X (1 .. Resends + 1)
    <3>1. /\ a \in Calls \X (1 .. Resends + 1) /\ CustomerOf[a[1]] = CustomerOf[r]
          /\ bucket[a[1]] = bucket[r] /\ a[2] <= tries[a[1]] /\ a[1] \in Calls
          /\ a[2] \in Nat /\ a[2] >= 1
      BY DEF Attempts
    <3>2. tries[a[1]] # 0
      BY <3>1
    <3> QED
      BY <3>1, <3>2 DEF ThrottleInv, IdleUntried
  <2> QED
    BY <2>1
<1>3. IsFiniteSet(A) /\ Cardinality(A) \in Nat
  BY CallSetsFinite
<1> HIDE DEF A, T
<1>4. IsFiniteSet(1 .. Resends + 1) /\ Cardinality(1 .. Resends + 1) = Resends + 1
  BY FS_Interval
<1>5. /\ IsFiniteSet(A \X (1 .. Resends + 1))
      /\ Cardinality(A \X (1 .. Resends + 1)) = Cardinality(A) * (Resends + 1)
  BY <1>3, <1>4, FS_Product
<1>6. /\ Cardinality(T) <= Cardinality(A \X (1 .. Resends + 1))
      /\ Cardinality(T) \in Nat
  BY <1>2, <1>5, FS_Subset, FS_CardinalityType
<1>7. ASSUME NEW m \in Nat, NEW k \in Nat PROVE m * k \in Nat /\ m * k = k * m
  OBVIOUS
<1>8. Cardinality(A) * (Resends + 1) = (Resends + 1) * Cardinality(A)
  BY <1>3, <1>7
<1>9. RateMax < (Resends + 1) * Cardinality(A)
  <2> DEFINE w == (Resends + 1) * Cardinality(A)
  <2>1. w \in Nat /\ Cardinality(T) <= w
    BY <1>3, <1>5, <1>6, <1>7, <1>8
  <2> HIDE DEF w
  <2>2. RateMax < w
    BY <1>1, <1>6, <2>1
  <2> QED
    BY <2>2 DEF w
<1> QED
  BY <1>9 DEF A

(***************************************************************************)
(* A customer is throttled only by calls of that customer in that window,  *)
(* each counting at most once per attempt of the Redis client.             *)
(***************************************************************************)
THEOREM NobodyElsesTraffic == Spec => []NoFalseThrottle
<1> DEFINE Inv == TypeOK /\ ThrottleInv
<1>1. Init => Inv
  BY InitTypeOK, InitThrottleInv
<1>2. Inv /\ [Next]_vars => Inv'
  BY NextTypeOK, NextThrottleInv
<1>3. Inv => NoFalseThrottle
  BY ThrottleInvImplies
<1> QED
  BY <1>1, <1>2, <1>3, PTL DEF Spec
=============================================================================
