------------------------- MODULE MarginPilot_proofs -------------------------
(***************************************************************************)
(* Theorems about the control loop, for any number of requests, customers  *)
(* and prompts, and any number of copies, drops, faults and rejoins.       *)
(*                                                                         *)
(* The loop is proved part by part.  Its steps are steps of the gateway    *)
(* and of metering whatever the others do, so that what is proved of those *)
(* two holds here.  With their invariants the steps are shown to be steps  *)
(* of budget too, whose theorems then hold as well; and what the parts     *)
(* promise is added up to what the system promises.                        *)
(***************************************************************************)
EXTENDS MarginPilot, SumTheorems

(***************************************************************************)
(* The theorems of the components, at the values the composition gives     *)
(* their constants and variables. A definition reached through the proof   *)
(* modules is another symbol to the provers than the same definition       *)
(* reached through MarginPilot: the first lemmas say they are one.         *)
(***************************************************************************)
GP == INSTANCE Gateway_proofs  WITH stage <- gstage
BP == INSTANCE Budget_proofs   WITH Calls <- Requests, stage <- bstage, tries <- btries
MP == INSTANCE Metering_proofs WITH stage <- mstage, tries <- mtries,
                                    CustomerOf <- EventCustomer

\* The standard library is the same on every road.
LEMMA SameCardinality ==
  ASSUME NEW S
  PROVE  /\ G!Cardinality(S) = Cardinality(S) /\ GP!Cardinality(S) = Cardinality(S)
         /\ B!Cardinality(S) = Cardinality(S) /\ BP!Cardinality(S) = Cardinality(S)
         /\ M!Cardinality(S) = Cardinality(S) /\ MP!Cardinality(S) = Cardinality(S)
  BY DEF Cardinality, G!Cardinality, GP!Cardinality, B!Cardinality, BP!Cardinality,
      M!Cardinality, MP!Cardinality

\* And so is what is finite.
LEMMA SameFiniteness ==
  ASSUME NEW S
  PROVE  /\ GP!IsFiniteSet(S) = IsFiniteSet(S)
         /\ BP!IsFiniteSet(S) = IsFiniteSet(S)
         /\ MP!IsFiniteSet(S) = IsFiniteSet(S)
  BY DEF IsFiniteSet, GP!IsFiniteSet, BP!IsFiniteSet, MP!IsFiniteSet

\* A function on a finite set has a greatest value.
LEMMA FiniteMaximum ==
  ASSUME NEW S, IsFiniteSet(S), NEW f \in [S -> Nat]
  PROVE  \E m \in {0} \cup {f[x] : x \in S} : \A x \in S : f[x] <= m
<1> DEFINE F == {T \in SUBSET S : \E m \in {0} \cup {f[x] : x \in T} : \A x \in T : f[x] <= m}
<1>1. {} \in F
  OBVIOUS
<1>2. ASSUME NEW T \in F, NEW y \in S \ T PROVE T \cup {y} \in F
  <2>1. PICK m \in {0} \cup {f[x] : x \in T} : \A x \in T : f[x] <= m
    OBVIOUS
  <2>2. m \in Nat /\ f[y] \in Nat
    OBVIOUS
  <2>3. CASE f[y] <= m
    BY <2>1, <2>3
  <2>4. CASE m < f[y]
    <3>1. \A x \in T \cup {y} : f[x] <= f[y]
      BY <2>1, <2>2, <2>4
    <3> QED
      BY <3>1
  <2> QED
    BY <2>2, <2>3, <2>4
<1>3. F \in SUBSET SUBSET S /\ \A T \in F : \A y \in S \ T : T \cup {y} \in F
  BY <1>2
<1>4. S \in F
  <2> HIDE DEF F
  <2> QED
    BY <1>1, <1>3, SetInduction
<1> QED
  BY <1>4

\* MaxCost is what its name says.
LEMMA MaxCostType == MaxCost \in Nat /\ \A r \in Requests : PriceOf[r] <= MaxCost
<1>1. \E m \in {0} \cup {PriceOf[r] : r \in Requests} : \A r \in Requests : PriceOf[r] <= m
  BY FiniteMaximum, RequestsAssumption, PriceAssumption
<1>2. {0} \cup {PriceOf[r] : r \in Requests} \subseteq Nat
  BY PriceAssumption
<1> QED
  BY <1>1, <1>2 DEF MaxCost

\* The bound on repeated charges is a number.
LEMMA MaxExtraType == MaxExtra \in Nat
<1>1. Cardinality(Requests) \in Nat
  BY RequestsAssumption, FS_CardinalityType
<1>2. MaxCopies + MaxRejoins \in Nat /\ Resends + 1 \in Nat
  BY BoundAssumption, SMT
<1>3. ASSUME NEW a \in Nat, NEW b \in Nat, NEW n \in Nat PROVE a * n * b \in Nat
  BY <1>3, SMT
<1> QED
  BY <1>1, <1>2, <1>3 DEF MaxExtra

\* The usage events are finitely many and each has a customer and a cost.
LEMMA EventsType ==
  /\ IsFiniteSet(Events)
  /\ EventCustomer \in [Events -> Customers]
  /\ Cost \in [Events -> Nat]
<1>1. IsFiniteSet({"provider", "cache"})
  <2>1. IsFiniteSet({"provider"}) /\ {"provider", "cache"} = {"provider"} \cup {"cache"}
    BY FS_Singleton
  <2> QED
    BY <2>1, FS_AddElement
<1>2. IsFiniteSet(Requests \X {"provider", "cache"})
  BY <1>1, RequestsAssumption, FS_Product
<1> QED
  BY <1>2, RequestsAssumption, PriceAssumption DEF Events, EventCustomer, Cost

----------------------------------------------------------------------------
(***************************************************************************)
(* The assumptions of the components follow from those of the system.      *)
(***************************************************************************)
LEMMA GatewayConstants ==
  /\ GP!IsFiniteSet(Requests) /\ PromptOf \in [Requests -> Prompts]
  /\ Nothing \notin Prompts \cup Requests
  /\ Guard \in [Prompts -> Prompts \cup {Nothing}]
  /\ DOMAIN Fingerprint = Prompts
  /\ MaxCopies \in Nat /\ MaxDrops \in Nat
<1>1. MaxCopies \in Nat /\ MaxDrops \in Nat
  BY BoundAssumption, SMT
<1> QED
  BY <1>1, SameFiniteness, RequestsAssumption, GuardAssumption

\* Those of budget.
LEMMA BudgetConstants ==
  /\ BP!IsFiniteSet(Requests) /\ CustomerOf \in [Requests -> Customers]
  /\ RateMax \in Nat /\ Window \in Nat \ {0}
  /\ DefaultLimit \in Int /\ Limits \subseteq Int
  /\ MaxCost \in Nat /\ Resends \in Nat /\ Horizon \in Nat /\ MaxExtra \in Nat
<1>1. Resends \in Nat /\ Horizon \in Nat
  BY BoundAssumption, SMT
<1> QED
  BY <1>1, SameFiniteness, RequestsAssumption, LimitAssumption, MaxCostType,
     MaxExtraType

\* Those of metering.
LEMMA MeteringConstants ==
  /\ MP!IsFiniteSet(Events) /\ EventCustomer \in [Events -> Customers]
  /\ Cost \in [Events -> Nat]
  /\ {MaxCopies, Resends, MaxFaults, MaxRejoins} \subseteq Nat
  BY EventsType, SameFiniteness, BoundAssumption
----------------------------------------------------------------------------
(***************************************************************************)
(* Each component, reached on either road, has the same behaviours.        *)
(***************************************************************************)
LEMMA SameGateway == G!Spec => GP!Spec
<1>1. G!Init => GP!Init
  BY DEF G!Init, GP!Init, G!Keys, GP!Keys, G!Range, GP!Range
<1>2. G!Next = GP!Next
  BY DEF G!Next, GP!Next, G!Handle, GP!Handle, G!Write, GP!Write, G!TurnAway,
      GP!TurnAway, G!Admit, GP!Admit, G!Hit, GP!Hit, G!Miss, GP!Miss, G!Granted,
      GP!Granted, G!Refused, GP!Refused, G!AllowFails, GP!AllowFails,
      G!Complete, GP!Complete, G!UpstreamFails, GP!UpstreamFails, G!Fill,
      GP!Fill, G!Publish, GP!Publish, G!PublishFails, GP!PublishFails,
      G!Respond, GP!Respond, G!BatchTaken, GP!BatchTaken, G!BatchDone,
      GP!BatchDone, G!Evict, GP!Evict, G!Crash, GP!Crash, G!Keys, GP!Keys,
      G!Range, GP!Range, G!Guarded, GP!Guarded, G!Key, GP!Key, G!UsageOf,
      GP!UsageOf, G!Published, GP!Published, G!Goto, GP!Goto, G!Drop, GP!Drop,
      G!AtWork, GP!AtWork, G!cacheVars, GP!cacheVars, G!topicVars, GP!topicVars,
      G!Cardinality, GP!Cardinality
<1>3. [G!Next]_(G!vars) => [GP!Next]_(GP!vars)
  BY <1>2
  DEF G!vars, GP!vars, G!cacheVars, GP!cacheVars, G!topicVars, GP!topicVars
<1> QED
  BY <1>1, <1>2, <1>3, PTL DEF G!Spec, GP!Spec

\* The same of budget.
LEMMA SameBudget == B!Spec => BP!Spec
<1>1. B!Init => BP!Init
  BY DEF B!Init, BP!Init, B!Buckets, BP!Buckets, B!BucketOf, BP!BucketOf
<1>2. B!Next = BP!Next
  BY DEF B!Next, BP!Next, B!Arrive, BP!Arrive, B!Incr, BP!Incr, B!IncrLost,
      BP!IncrLost, B!ApplyIncr, BP!ApplyIncr, B!IncrFails, BP!IncrFails,
      B!ReadFails, BP!ReadFails, B!Fails, BP!Fails, B!Expire, BP!Expire,
      B!ReadLimit, BP!ReadLimit, B!ReadSpend, BP!ReadSpend, B!PublishAlert,
      BP!PublishAlert, B!Charge, BP!Charge, B!ChargeAgain, BP!ChargeAgain,
      B!AddSpend, BP!AddSpend, B!SetLimit, BP!SetLimit, B!Crash, BP!Crash,
      B!Tick, BP!Tick, B!redisVars, BP!redisVars, B!callVars, BP!callVars,
      B!billVars, BP!billVars, B!BucketOf, BP!BucketOf, B!Buckets, BP!Buckets,
      B!RateOK, BP!RateOK, B!RateTTL, BP!RateTTL, B!EffectiveLimit,
      BP!EffectiveLimit, B!Verdict, BP!Verdict, B!Larger, BP!Larger, B!Unbilled,
      BP!Unbilled, B!Denials, BP!Denials, B!InFlight, BP!InFlight,
      B!Cardinality, BP!Cardinality
<1>3. [B!Next]_(B!vars) => [BP!Next]_(BP!vars)
  BY <1>2
  DEF B!vars, BP!vars, B!redisVars, BP!redisVars, B!callVars, BP!callVars,
      B!billVars, BP!billVars
<1> QED
  BY <1>1, <1>2, <1>3, PTL DEF B!Spec, BP!Spec

\* The same of metering.
LEMMA SameMetering == M!Spec => MP!Spec
<1>1. M!Init => MP!Init
  BY DEF M!Init, MP!Init
<1>2. M!Next = MP!Next
  BY DEF M!Next, MP!Next, M!Append1, MP!Append1, M!ConsumerStep, MP!ConsumerStep,
      M!Fetch, MP!Fetch, M!Commit, MP!Commit, M!CommitFails, MP!CommitFails,
      M!Price, MP!Price, M!PriceFails, MP!PriceFails, M!Insert, MP!Insert,
      M!InsertFails, MP!InsertFails, M!IncrBy, MP!IncrBy, M!IncrByLost,
      MP!IncrByLost, M!IncrByFails, MP!IncrByFails, M!ApplyIncrBy,
      MP!ApplyIncrBy, M!Crash, MP!Crash, M!Start, MP!Start, M!Rejoin, MP!Rejoin,
      M!Return, MP!Return, M!Fault, MP!Fault, M!AddRow, MP!AddRow, M!Event,
      MP!Event, M!Copies, MP!Copies, M!brokerVars, MP!brokerVars, M!readerVars,
      MP!readerVars, M!sinkVars, MP!sinkVars, M!Cardinality, MP!Cardinality
<1>3. [M!Next]_(M!vars) => [MP!Next]_(MP!vars)
  BY <1>2
  DEF M!vars, MP!vars, M!brokerVars, MP!brokerVars, M!readerVars, MP!readerVars,
      M!sinkVars, MP!sinkVars
<1> QED
  BY <1>1, <1>2, <1>3, PTL DEF M!Spec, MP!Spec

\* The gateway's steps, but for those of its writer, leave the topic alone.
LEMMA GatewayLeavesLog ==
  ASSUME \/ \E r \in Requests : Request(r) \/ Verdict(r)
         \/ \E k \in G!Keys : G!Evict(k)
         \/ G!Crash
  PROVE  log' = log
  BY DEF Request, Verdict, G!TurnAway, G!Admit, G!Hit, G!Miss, G!AllowFails,
      G!Complete, G!UpstreamFails, G!Fill, G!Publish, G!PublishFails, G!Respond,
      G!BatchDone, G!Granted, G!Refused, G!Evict, G!Crash, G!topicVars

\* Metering's steps leave the topic alone.
LEMMA MeteringLeavesLog ==
  ASSUME Consume \/ Charge \/ M!Start \/ M!Crash \/ M!Rejoin
  PROVE  log' = log
  BY DEF Consume, Charge, M!Fetch, M!Commit, M!CommitFails, M!Price, M!PriceFails,
      M!Insert, M!InsertFails, M!IncrByFails, M!IncrBy, M!IncrByLost,
      M!ApplyIncrBy, M!Start, M!Crash, M!Rejoin, M!brokerVars

\* Budget only reads the spend counter.
LEMMA BudgetLeavesSpend ==
  ASSUME (\E r \in Requests : AskBudget(r) \/ Decide(r))
           \/ (\E c \in Customers, l \in Limits : B!SetLimit(c, l)) \/ B!Crash \/ B!Tick
  PROVE  spend' = spend
  BY DEF AskBudget, Decide, B!Arrive, B!Incr, B!IncrLost, B!ApplyIncr, B!IncrFails,
      B!ReadFails, B!Fails, B!Expire, B!ReadLimit, B!ReadSpend, B!PublishAlert,
      B!SetLimit, B!Crash, B!Tick, B!redisVars

\* A step of the system is a step of the gateway, or leaves it alone.
LEMMA GatewayStep == [Next]_vars => [G!Next]_(G!vars)
<1> SUFFICES ASSUME [Next]_vars PROVE G!Next \/ UNCHANGED G!vars
  OBVIOUS
<1>1. ASSUME NEW r \in Requests, Request(r) PROVE G!Next
  BY <1>1 DEF Request, G!Next, G!Handle, G!Write
<1>2. ASSUME NEW r \in Requests, AskBudget(r) \/ Decide(r) PROVE UNCHANGED G!vars
  BY <1>2
  DEF AskBudget, Decide, OnlyBudget, gatewayVars, G!vars, G!cacheVars,
      G!topicVars
<1>3. ASSUME NEW r \in Requests, Verdict(r) PROVE G!Next
  BY <1>3 DEF Verdict, G!Next, G!Handle
<1>4. ASSUME NEW r \in Requests, Emit(r) PROVE G!Next
  BY <1>4 DEF Emit, G!Next, G!Write
<1>5. CASE \/ Consume \/ Charge
           \/ (M!Start \/ M!Crash \/ M!Rejoin) /\ OnlyMetering
  BY <1>5, MeteringLeavesLog
  DEF Consume, Charge, OnlyMetering, gatewayVars, G!vars, G!cacheVars,
      G!topicVars
<1>6. CASE (\E k \in G!Keys : G!Evict(k) /\ OnlyGateway) \/ (G!Crash /\ OnlyGateway)
  BY <1>6 DEF G!Next
<1>7. CASE \/ \E c \in Customers, l \in Limits : B!SetLimit(c, l) /\ OnlyBudget
           \/ (B!Crash /\ OnlyBudget) \/ (B!Tick /\ OnlyBudget)
  BY <1>7 DEF OnlyBudget, gatewayVars, G!vars, G!cacheVars, G!topicVars
<1>8. CASE UNCHANGED vars
  BY <1>8 DEF vars, gatewayVars, G!vars, G!cacheVars, G!topicVars
<1> QED
  BY <1>1, <1>2, <1>3, <1>4, <1>5, <1>6, <1>7, <1>8 DEF Next, Work, Disturb

\* A step of the system is a step of metering, or leaves it alone.
LEMMA MeteringStep == [Next]_vars => [M!Next]_(M!vars)
<1> SUFFICES ASSUME [Next]_vars PROVE M!Next \/ UNCHANGED M!vars
  OBVIOUS
<1> USE DEF meteringVars, M!vars, M!brokerVars, M!readerVars, M!sinkVars
<1>1. ASSUME NEW r \in Requests, Request(r) \/ Verdict(r) PROVE UNCHANGED M!vars
  <2>1. OnlyGateway /\ log' = log
    BY <1>1, GatewayLeavesLog DEF Request, Verdict
  <2> QED
    BY <2>1 DEF OnlyGateway
<1>2. ASSUME NEW r \in Requests, AskBudget(r) \/ Decide(r) PROVE UNCHANGED M!vars
  <2>1. OnlyBudget /\ spend' = spend
    BY <1>2, BudgetLeavesSpend DEF AskBudget, Decide
  <2> QED
    BY <2>1 DEF OnlyBudget
<1>4. ASSUME NEW r \in Requests, Emit(r) PROVE M!Next
  <2>1. G!UsageOf(r) \in Events
    BY DEF G!UsageOf, Events
  <2> QED
    BY <1>4, <2>1 DEF Emit, M!Next
<1>5. CASE \/ Consume \/ Charge
           \/ (M!Start \/ M!Crash \/ M!Rejoin) /\ OnlyMetering
  BY <1>5 DEF Consume, Charge, M!Next, M!ConsumerStep
<1>6. CASE (\E k \in G!Keys : G!Evict(k) /\ OnlyGateway) \/ (G!Crash /\ OnlyGateway)
  <2>1. OnlyGateway /\ log' = log
    BY <1>6, GatewayLeavesLog
  <2> QED
    BY <2>1 DEF OnlyGateway
<1>7. CASE \/ \E c \in Customers, l \in Limits : B!SetLimit(c, l) /\ OnlyBudget
           \/ (B!Crash /\ OnlyBudget) \/ (B!Tick /\ OnlyBudget)
  <2>1. OnlyBudget /\ spend' = spend
    BY <1>7, BudgetLeavesSpend
  <2> QED
    BY <2>1 DEF OnlyBudget
<1>8. CASE UNCHANGED vars
  BY <1>8 DEF vars
<1> QED
  BY <1>1, <1>2, <1>4, <1>5, <1>6, <1>7, <1>8 DEF Next, Work, Disturb

\* In the loop the gateway does nothing that it could not do by itself: all that
\* is shown of module Gateway holds of the system.
THEOREM GatewayInTheLoop == Spec => G!Spec
  BY GatewayStep, PTL DEF Spec, Init, G!Spec

\* The same of metering.
THEOREM MeteringInTheLoop == Spec => M!Spec
  BY MeteringStep, PTL DEF Spec, Init, M!Spec

----------------------------------------------------------------------------
(***************************************************************************)
(* What the rest needs of the components. What holds of a component by its *)
(* own proof holds in the loop, where the component behaves as its         *)
(* specification says.                                                     *)
(***************************************************************************)
LEMMA GatewayHolds == Spec => [](G!OneStoryPerRequest /\ G!UsageAccountedFor)
<1>1. GP!Spec => []GP!OneStoryPerRequest
  BY GP!TopicTellsOneStory, GatewayConstants, PTL
<1>2. GP!Spec => []GP!UsageAccountedFor
  BY GP!NoUsageUnaccounted, GatewayConstants, PTL
<1>3. GP!OneStoryPerRequest => G!OneStoryPerRequest
  BY DEF GP!OneStoryPerRequest, G!OneStoryPerRequest, GP!Range, G!Range
<1>4. GP!UsageAccountedFor => G!UsageAccountedFor
  BY DEF GP!UsageAccountedFor, G!UsageAccountedFor, GP!Published, G!Published,
      GP!UsageOf, G!UsageOf, GP!Range, G!Range, GP!Cardinality, G!Cardinality
<1> QED
  BY <1>1, <1>2, <1>3, <1>4, GatewayInTheLoop, SameGateway, PTL

\* And of metering.
LEMMA MeteringHolds ==
  Spec => [](M!TypeOK /\ M!ChargesBackedByRows /\ M!DuplicatesExplained /\ M!LossBoundedByFaults)
<1>1. MP!Spec => []MP!TypeOK
  BY MP!TypeCorrect, MeteringConstants, PTL
<1>2. MP!Spec => []MP!ChargesBackedByRows
  BY MP!CounterBackedByRows, MeteringConstants, PTL
<1>3. MP!Spec => []MP!DuplicatesExplained
  BY MP!RowsExplained, MeteringConstants, PTL
<1>4. MP!Spec => []MP!LossBoundedByFaults
  BY MP!OneLossPerFault, MeteringConstants, PTL
<1>5. /\ MP!TypeOK => M!TypeOK
      /\ MP!ChargesBackedByRows => M!ChargesBackedByRows
  BY DEF MP!TypeOK, M!TypeOK, MP!ChargesBackedByRows, M!ChargesBackedByRows
<1>6. MP!DuplicatesExplained => M!DuplicatesExplained
  BY DEF MP!DuplicatesExplained, M!DuplicatesExplained, MP!Copies, M!Copies,
         MP!Cardinality, M!Cardinality
<1>7. MP!LossBoundedByFaults => M!LossBoundedByFaults
  BY DEF MP!LossBoundedByFaults, M!LossBoundedByFaults, MP!InHand, M!InHand,
         MP!Cardinality, M!Cardinality
<1> QED
  BY <1>1, <1>2, <1>3, <1>4, <1>5, <1>6, <1>7, MeteringInTheLoop, SameMetering,
     PTL

----------------------------------------------------------------------------
(***************************************************************************)
(* The invariants that tie the components together.                        *)
(*                                                                         *)
(* GrantInv: what the gateway takes for a grant, budget remembers as one.  *)
(*                                                                         *)
(* CopiesInv: the topic holds no more copies of an event than its bound.   *)
(*                                                                         *)
(* LedgerInv: budget's ledger of charged calls and repeated charges is     *)
(* metering's count of charges, told in another way.                       *)
(*                                                                         *)
(* SpendInv: the spend counter is the sum of the charges, each at its      *)
(* cost.                                                                   *)
(*                                                                         *)
(* ExtraBounded: no customer is charged more often than budget's bound on  *)
(* repeated charges.                                                       *)
(***************************************************************************)
Provided(r)   == <<r, "provider">>
RequestsOf(c) == {r \in Requests : CustomerOf[r] = c}
ChargesOf     == [r \in Requests |-> charges[Provided(r)]]
Spent         == [e \in Events |-> charges[e] * Cost[e]]

GrantInv ==
  /\ DOMAIN bstage = Requests
  /\ \A r \in granted : bstage[r] = "allowed"

CopiesInv == \A e \in Events : Cardinality(M!Copies(e)) <= MaxCopies

LedgerInv ==
  /\ charged = {r \in Requests : charges[Provided(r)] > 0}
  /\ extra \in [Customers -> Nat]
  /\ \A c \in Customers : extra[c] <= SumFunctionOnSet(ChargesOf, RequestsOf(c))

SpendInv == \A c \in Customers : spend[c] = SumFunctionOnSet(Spent, EventsOf(c))

ExtraBounded == \A c \in Customers : SumFunctionOnSet(ChargesOf, RequestsOf(c)) \in 0 .. MaxExtra

\* A budget call that is allowed stays so.
LEMMA AllowedStays ==
  ASSUME GrantInv, NEW r \in Requests, bstage[r] = "allowed",
         (\E q \in Requests : AskBudget(q) \/ Decide(q)) \/ B!Crash
  PROVE  bstage'[r] = "allowed"
<1>1. ASSUME NEW q \in Requests, AskBudget(q) \/ Decide(q)
      PROVE  bstage' = bstage \/ (q # r /\ \E s : bstage' = [bstage EXCEPT ![q] = s])
  <2>1. CASE B!Arrive(q)
    BY <2>1 DEF B!Arrive
  <2>2. CASE B!Incr(q) \/ B!IncrLost(q)
    BY <2>2 DEF B!Incr, B!IncrLost, B!ApplyIncr
  <2>3. CASE B!IncrFails(q) \/ B!ReadFails(q) \/ B!Expire(q) \/ B!PublishAlert(q)
    BY <2>3 DEF B!IncrFails, B!ReadFails, B!Fails, B!Expire, B!PublishAlert
  <2>4. CASE B!ReadLimit(q) \/ B!ReadSpend(q)
    BY <2>4 DEF B!ReadLimit, B!ReadSpend
  <2> QED
    BY <1>1, <2>1, <2>2, <2>3, <2>4 DEF AskBudget, Decide
<1>2. ASSUME B!Crash PROVE bstage'[r] = "allowed"
  BY <1>2 DEF B!Crash, B!InFlight
<1>3. ASSUME NEW q \in Requests, AskBudget(q) \/ Decide(q) PROVE bstage'[r] = "allowed"
  BY <1>1, <1>3 DEF GrantInv
<1> QED
  BY <1>2, <1>3

\* Budget works on the same calls for ever.
LEMMA BudgetKeepsDomain ==
  ASSUME GrantInv, (\E q \in Requests : AskBudget(q) \/ Decide(q)) \/ B!Crash
  PROVE  DOMAIN bstage' = Requests
  BY DEF GrantInv, AskBudget, Decide, B!Arrive, B!Incr, B!IncrLost, B!ApplyIncr,
      B!IncrFails, B!ReadFails, B!Fails, B!Expire, B!ReadLimit, B!ReadSpend,
      B!PublishAlert, B!Crash, B!callVars

\* A grant reaches the gateway only from an allowed call.
LEMMA GrantStep == GrantInv /\ G!TypeOK /\ [Next]_vars => GrantInv'
<1> SUFFICES ASSUME GrantInv, G!TypeOK, [Next]_vars PROVE GrantInv'
  OBVIOUS
<1>0. granted \subseteq Requests
  BY DEF G!TypeOK
<1>1. ASSUME NEW q \in Requests, AskBudget(q) \/ Decide(q) PROVE GrantInv'
  <2>1. granted' = granted
    BY <1>1 DEF AskBudget, Decide, OnlyBudget, gatewayVars
  <2> QED
    BY <1>0, <1>1, <2>1, AllowedStays, BudgetKeepsDomain DEF GrantInv
<1>2. CASE B!Crash /\ OnlyBudget
  <2>1. granted' = granted
    BY <1>2 DEF OnlyBudget, gatewayVars
  <2> QED
    BY <1>0, <1>2, <2>1, AllowedStays, BudgetKeepsDomain DEF GrantInv
<1>3. CASE \/ \E c \in Customers, l \in Limits : B!SetLimit(c, l) /\ OnlyBudget
           \/ B!Tick /\ OnlyBudget
  BY <1>3 DEF B!SetLimit, B!Tick, B!callVars, OnlyBudget, gatewayVars, GrantInv
<1>4. ASSUME NEW q \in Requests, Verdict(q) PROVE GrantInv'
  <2>1. bstage' = bstage
    BY <1>4 DEF Verdict, OnlyGateway, budgetVars
  <2>2. granted' = granted \/ (granted' = granted \cup {q} /\ bstage[q] = "allowed")
    BY <1>4 DEF Verdict, G!Granted, G!Refused
  <2> QED
    BY <2>1, <2>2 DEF GrantInv
<1>5. CASE \/ \E r \in Requests : Request(r) \/ Emit(r)
           \/ \E k \in G!Keys : G!Evict(k) /\ OnlyGateway
           \/ G!Crash /\ OnlyGateway
  <2>1. bstage' = bstage
    BY <1>5 DEF Request, Emit, OnlyGateway, budgetVars
  <2>2. granted' = granted
    BY <1>5
    DEF Request, Emit, G!TurnAway, G!Admit, G!Hit, G!Miss, G!AllowFails,
        G!Complete, G!UpstreamFails, G!Fill, G!Publish, G!PublishFails,
        G!Respond, G!BatchDone, G!BatchTaken, G!Evict, G!Crash
  <2> QED
    BY <2>1, <2>2 DEF GrantInv
<1>6. CASE \/ Consume \/ Charge
           \/ (M!Start \/ M!Crash \/ M!Rejoin) /\ OnlyMetering
           \/ UNCHANGED vars
  BY <1>6
  DEF Consume, Charge, OnlyMetering, gatewayVars, budgetVars, vars, GrantInv
<1> QED
  BY <1>1, <1>2, <1>3, <1>4, <1>5, <1>6 DEF Next, Work, Disturb

\* The topic grows by a copy that is not one too many.
LEMMA CopiesStep == CopiesInv /\ M!TypeOK /\ [Next]_vars => CopiesInv'
<1> SUFFICES ASSUME CopiesInv, M!TypeOK, [Next]_vars PROVE CopiesInv'
  OBVIOUS
<1>1. ASSUME NEW r \in Requests, Emit(r) PROVE CopiesInv'
  <2> DEFINE u == G!UsageOf(r)
  <2>1. u \in Events
    BY DEF G!UsageOf, Events
  <2>2. log \in Seq(Events) /\ log' = Append(log, u) /\ Cardinality(M!Copies(u)) < MaxCopies
    BY <1>1, SameCardinality DEF Emit, M!Append1, M!TypeOK
  <2> HIDE DEF u
  <2>3. /\ Len(log) \in Nat /\ Len(log') = Len(log) + 1 /\ log'[Len(log) + 1] = u
        /\ \A o \in 1 .. Len(log) : log'[o] = log[o]
    BY <2>1, <2>2
  <2>4. ASSUME NEW e \in Events PROVE Cardinality(M!Copies(e)') <= MaxCopies
    <3>1. M!Copies(e)' = IF e = u THEN M!Copies(e) \cup {Len(log) + 1} ELSE M!Copies(e)
      BY <2>3 DEF M!Copies
    <3>2. /\ IsFiniteSet(M!Copies(e)) /\ Cardinality(M!Copies(e)) \in Nat
          /\ Len(log) + 1 \notin M!Copies(e)
      <4>1. IsFiniteSet(1 .. Len(log)) /\ M!Copies(e) \in SUBSET (1 .. Len(log))
        BY <2>3, FS_Interval DEF M!Copies
      <4> QED
        BY <2>3, <4>1, FS_Subset, FS_CardinalityType
    <3>3. CASE e = u
      <4>1. Cardinality(M!Copies(e)') = Cardinality(M!Copies(e)) + 1
        BY <3>1, <3>2, <3>3, FS_AddElement
      <4>2. MaxCopies \in Nat
        BY GatewayConstants
      <4> QED
        BY <2>2, <3>2, <3>3, <4>1, <4>2
    <3>4. CASE e # u
      BY <3>1, <3>4 DEF CopiesInv
    <3> QED
      BY <3>3, <3>4
  <2> QED
    BY <2>4 DEF CopiesInv
<1>2. CASE \/ \E r \in Requests : Request(r) \/ Verdict(r)
           \/ \E k \in G!Keys : G!Evict(k) /\ OnlyGateway
           \/ G!Crash /\ OnlyGateway
           \/ Consume \/ Charge \/ ((M!Start \/ M!Crash \/ M!Rejoin) /\ OnlyMetering)
  BY <1>2, GatewayLeavesLog, MeteringLeavesLog DEF CopiesInv, M!Copies
<1>3. CASE \/ \E r \in Requests : AskBudget(r) \/ Decide(r)
           \/ \E c \in Customers, l \in Limits : B!SetLimit(c, l) /\ OnlyBudget
           \/ (B!Crash /\ OnlyBudget) \/ (B!Tick /\ OnlyBudget)
           \/ UNCHANGED vars
  BY <1>3 DEF AskBudget, Decide, OnlyBudget, vars, CopiesInv, M!Copies
<1> QED
  BY <1>1, <1>2, <1>3 DEF Next, Work, Disturb

----------------------------------------------------------------------------
(***************************************************************************)
(* Charges: the one step that metering and budget take together.           *)
(***************************************************************************)
LEMMA ChargeEffect ==
  ASSUME M!TypeOK, Charge
  PROVE  /\ M!Event \in Events /\ M!Event \in G!Range(log)
         /\ charges' = [charges EXCEPT ![M!Event] = charges[M!Event] + 1]
         /\ spend' = [spend EXCEPT ![EventCustomer[M!Event]] =
                        spend[EventCustomer[M!Event]] + Cost[M!Event]]
<1>1. /\ mstage = "incr"
      /\ charges' = [charges EXCEPT ![M!Event] = charges[M!Event] + 1]
      /\ spend' = [spend EXCEPT ![EventCustomer[M!Event]] =
                     spend[EventCustomer[M!Event]] + Cost[M!Event]]
  BY DEF Charge, M!IncrBy, M!IncrByLost, M!ApplyIncrBy
<1>2. held \in 1 .. Len(log) /\ log \in Seq(Events)
  BY <1>1 DEF M!TypeOK
<1>3. log[held] \in Events /\ held \in DOMAIN log
  BY <1>2
<1> QED
  BY <1>1, <1>3 DEF M!Event, G!Range

\* No other step of the system charges anyone.
LEMMA OnlyChargeCharges ==
  ASSUME [Next]_vars, ~Charge
  PROVE  UNCHANGED <<charges, charged, extra, spend>>
<1>1. CASE \/ \E r \in Requests : Request(r) \/ Verdict(r)
           \/ \E k \in G!Keys : G!Evict(k) /\ OnlyGateway
           \/ G!Crash /\ OnlyGateway
  BY <1>1 DEF Request, Verdict, OnlyGateway, ledgerVars, meteringVars
<1>2. CASE \/ \E r \in Requests : AskBudget(r) \/ Decide(r)
           \/ \E c \in Customers, l \in Limits : B!SetLimit(c, l) /\ OnlyBudget
           \/ (B!Crash /\ OnlyBudget) \/ (B!Tick /\ OnlyBudget)
  <2>1. spend' = spend /\ OnlyBudget
    BY <1>2, BudgetLeavesSpend DEF AskBudget, Decide
  <2>2. UNCHANGED <<charged, extra>>
    BY <1>2
    DEF AskBudget, Decide, B!Arrive, B!Incr, B!IncrLost, B!ApplyIncr,
        B!IncrFails, B!ReadFails, B!Fails, B!Expire, B!ReadLimit, B!ReadSpend,
        B!PublishAlert, B!SetLimit, B!Crash, B!Tick, B!billVars
  <2> QED
    BY <2>1, <2>2 DEF OnlyBudget, meteringVars
<1>3. ASSUME NEW r \in Requests, Emit(r)
      PROVE  UNCHANGED <<charges, charged, extra, spend>>
  BY <1>3 DEF Emit, M!Append1, M!sinkVars, ledgerVars
<1>4. CASE Consume \/ ((M!Start \/ M!Crash \/ M!Rejoin) /\ OnlyMetering)
  <2>1. OnlyMetering /\ UNCHANGED <<charges, spend>>
    BY <1>4
    DEF Consume, M!Fetch, M!Commit, M!CommitFails, M!Price, M!PriceFails,
        M!Insert, M!InsertFails, M!IncrByFails, M!Start, M!Crash, M!Rejoin,
        M!sinkVars
  <2> QED
    BY <2>1 DEF OnlyMetering, ledgerVars
<1>5. CASE UNCHANGED vars
  BY <1>5 DEF vars, ledgerVars, meteringVars
<1> QED
  BY <1>1, <1>2, <1>3, <1>4, <1>5 DEF Next, Work, Disturb

\* What the charges and their sums are made of.
LEMMA ChargeTypes ==
  ASSUME M!TypeOK
  PROVE  /\ charges \in [Events -> Nat] /\ rows \in [Events -> Nat]
         /\ spend \in [Customers -> Nat]
         /\ ChargesOf \in [Requests -> Nat] /\ Spent \in [Events -> Nat]
<1>1. charges \in [Events -> Nat] /\ rows \in [Events -> Nat] /\ spend \in [Customers -> Nat]
  BY DEF M!TypeOK
<1>2. \A r \in Requests : Provided(r) \in Events
  BY DEF Provided, Events
<1>3. \A e \in Events : charges[e] * Cost[e] \in Nat
  <2>1. ASSUME NEW a \in Nat, NEW b \in Nat PROVE a * b \in Nat
    OBVIOUS
  <2> QED
    BY <1>1, <2>1, EventsType
<1> QED
  BY <1>1, <1>2, <1>3 DEF ChargesOf, Spent

\* A customer has finitely many requests and events.
LEMMA CustomersSets ==
  ASSUME NEW c
  PROVE  /\ RequestsOf(c) \in SUBSET Requests /\ IsFiniteSet(RequestsOf(c))
         /\ EventsOf(c) \in SUBSET Events /\ IsFiniteSet(EventsOf(c))
<1>1. RequestsOf(c) \in SUBSET Requests /\ EventsOf(c) \in SUBSET Events
  BY DEF RequestsOf, EventsOf
<1>2. IsFiniteSet(RequestsOf(c))
  BY <1>1, RequestsAssumption, FS_Subset
<1>3. IsFiniteSet(EventsOf(c))
  BY <1>1, EventsType, FS_Subset
<1> QED
  BY <1>1, <1>2, <1>3

\* The first charge of a request enters the ledger, every other is extra.
LEMMA LedgerStep ==
  M!TypeOK /\ M!TypeOK' /\ LedgerInv /\ [Next]_vars => LedgerInv'
<1> SUFFICES ASSUME M!TypeOK, M!TypeOK', LedgerInv, [Next]_vars PROVE LedgerInv'
  OBVIOUS
<1>1. CASE ~Charge
  BY <1>1, OnlyChargeCharges DEF LedgerInv, ChargesOf
<1>2. ASSUME Charge, M!Event[2] = "cache" PROVE LedgerInv'
  <2>1. UNCHANGED <<charged, extra>>
    BY <1>2 DEF Charge, ledgerVars
  <2>2. \A r \in Requests : charges'[Provided(r)] = charges[Provided(r)]
    <3>1. \A r \in Requests : Provided(r) # M!Event
      BY <1>2 DEF Provided
    <3> QED
      BY <1>2, <3>1, ChargeEffect, ChargeTypes DEF Provided, Events
  <2>3. ChargesOf' = ChargesOf
    BY <2>2 DEF ChargesOf, Provided
  <2> QED
    BY <2>1, <2>2, <2>3 DEF LedgerInv, Provided
<1>3. ASSUME Charge, M!Event[2] # "cache" PROVE LedgerInv'
  <2> DEFINE r == M!Event[1]
             d == CustomerOf[r]
  <2>1. r \in Requests /\ M!Event = Provided(r) /\ d \in Customers
    <3>1. M!Event \in Requests \X {"provider", "cache"}
      BY <1>3, ChargeEffect DEF Events
    <3>2. /\ M!Event[1] \in Requests /\ M!Event[2] = "provider"
          /\ M!Event = <<M!Event[1], M!Event[2]>>
      BY <1>3, <3>1
    <3> QED
      BY <3>2, RequestsAssumption DEF Provided
  <2>2. \/ r \in charged /\ extra' = [extra EXCEPT ![d] = @ + 1] /\ charged' = charged
        \/ r \notin charged /\ charged' = charged \cup {r} /\ extra' = extra
    BY <1>3 DEF Charge
  <2>3. charges' = [charges EXCEPT ![Provided(r)] = charges[Provided(r)] + 1]
    BY <1>3, <2>1, ChargeEffect
  <2> HIDE DEF r, d
  <2>4. \A q \in Requests : charges'[Provided(q)] = IF q = r THEN charges[Provided(q)] + 1
                                                             ELSE charges[Provided(q)]
    BY <2>1, <2>3, ChargeTypes DEF Provided, Events
  <2>5. charged' = {q \in Requests : charges'[Provided(q)] > 0}
    <3>1. \A q \in Requests : charges[Provided(q)] \in Nat
      BY ChargeTypes DEF Provided, Events
    <3>2. charges'[Provided(r)] > 0
      BY <2>1, <2>4, <3>1
    <3>3. r \in charged => charges[Provided(r)] > 0
      BY DEF LedgerInv
    <3> QED
      BY <2>1, <2>2, <2>4, <3>2, <3>3 DEF LedgerInv
  <2>6. ASSUME NEW c \in Customers
        PROVE  SumFunctionOnSet(ChargesOf', RequestsOf(c))
                 = SumFunctionOnSet(ChargesOf, RequestsOf(c)) + (IF c = d THEN 1 ELSE 0)
    <3>1. ChargesOf \in [Requests -> Int] /\ ChargesOf' \in [Requests -> Int]
      <4>1. ChargesOf \in [Requests -> Nat]
        BY ChargeTypes
      <4>2. ChargesOf' = [q \in Requests |-> charges'[Provided(q)]]
        BY DEF ChargesOf, Provided
      <4>3. \A q \in Requests : charges'[Provided(q)] \in Nat
        BY DEF M!TypeOK, Provided, Events
      <4> QED
        BY <4>1, <4>2, <4>3
    <3>2. /\ ChargesOf'[r] = ChargesOf[r] + 1
          /\ \A q \in Requests \ {r} : ChargesOf'[q] = ChargesOf[q]
      BY <2>1, <2>4 DEF ChargesOf, Provided
    <3>3. r \in RequestsOf(c) <=> c = d
      BY <2>1 DEF RequestsOf, d
    <3>4. SumFunctionOnSet(ChargesOf', RequestsOf(c))
            = SumFunctionOnSet(ChargesOf, RequestsOf(c))
                + (IF r \in RequestsOf(c) THEN 1 ELSE 0)
      <4> DEFINE one == 1
      <4>1. RequestsOf(c) \in SUBSET Requests /\ IsFiniteSet(RequestsOf(c))
        BY CustomersSets
      <4>2. one \in Int /\ ChargesOf'[r] = ChargesOf[r] + one
        BY <3>2
      <4> HIDE DEF one
      <4>3. SumFunctionOnSet(ChargesOf', RequestsOf(c))
              = SumFunctionOnSet(ChargesOf, RequestsOf(c))
                  + (IF r \in RequestsOf(c) THEN one ELSE 0)
        BY <2>1, <3>1, <3>2, <4>1, <4>2, SumGrows
      <4> QED
        BY <4>3 DEF one
    <3> QED
      BY <3>3, <3>4
  <2>7. extra' \in [Customers -> Nat]
    BY <2>1, <2>2 DEF LedgerInv
  <2>8. ASSUME NEW c \in Customers
        PROVE  extra'[c] <= SumFunctionOnSet(ChargesOf', RequestsOf(c))
    <3>1. extra[c] <= SumFunctionOnSet(ChargesOf, RequestsOf(c)) /\ extra[c] \in Nat
      BY DEF LedgerInv
    <3>2. SumFunctionOnSet(ChargesOf, RequestsOf(c)) \in Nat
      BY ChargeTypes, CustomersSets, SumNat
    <3>3. extra'[c] = extra[c] \/ (c = d /\ extra'[c] = extra[c] + 1)
      BY <2>1, <2>2 DEF LedgerInv
    <3> QED
      BY <2>6, <3>1, <3>2, <3>3
  <2>9. \A c \in Customers : RequestsOf(c)' = RequestsOf(c)
    BY DEF RequestsOf
  <2> QED
    BY <2>5, <2>7, <2>8, <2>9 DEF LedgerInv, Provided
<1> QED
  BY <1>1, <1>2, <1>3

\* A charge adds to the counter what it adds to the sum.
LEMMA SpendStep == M!TypeOK /\ M!TypeOK' /\ SpendInv /\ [Next]_vars => SpendInv'
<1> SUFFICES ASSUME M!TypeOK, M!TypeOK', SpendInv, [Next]_vars PROVE SpendInv'
  OBVIOUS
<1>1. CASE ~Charge
  BY <1>1, OnlyChargeCharges DEF SpendInv, Spent
<1>2. CASE Charge
  <2> DEFINE e == M!Event
  <2>1. /\ e \in Events /\ charges' = [charges EXCEPT ![e] = charges[e] + 1]
        /\ spend' = [spend EXCEPT ![EventCustomer[e]] = spend[EventCustomer[e]] + Cost[e]]
    BY <1>2, ChargeEffect
  <2> HIDE DEF e
  <2>2. Cost[e] \in Nat /\ EventCustomer[e] \in Customers /\ charges[e] \in Nat
    BY <2>1, EventsType, ChargeTypes
  <2>3. Spent \in [Events -> Int] /\ Spent' \in [Events -> Int]
    <3>1. Spent \in [Events -> Nat]
      BY ChargeTypes
    <3>2. Spent' = [x \in Events |-> charges'[x] * Cost[x]]
      BY DEF Spent
    <3>3. \A x \in Events : charges'[x] \in Nat /\ Cost[x] \in Nat
      BY EventsType DEF M!TypeOK
    <3>4. ASSUME NEW a \in Nat, NEW b \in Nat PROVE a * b \in Int
      OBVIOUS
    <3> QED
      BY <3>1, <3>2, <3>3, <3>4
  <2>4. Spent'[e] = Spent[e] + Cost[e]
    <3>1. Spent'[e] = (charges[e] + 1) * Cost[e] /\ Spent[e] = charges[e] * Cost[e]
      BY <2>1, ChargeTypes DEF Spent
    <3>2. ASSUME NEW a \in Nat, NEW b \in Nat PROVE (a + 1) * b = a * b + b
      OBVIOUS
    <3> QED
      BY <2>2, <3>1, <3>2
  <2>5. \A x \in Events \ {e} : Spent'[x] = Spent[x]
    BY <2>1, ChargeTypes DEF Spent
  <2>6. ASSUME NEW c \in Customers
        PROVE  spend'[c] = SumFunctionOnSet(Spent', EventsOf(c))
    <3>1. SumFunctionOnSet(Spent', EventsOf(c))
            = SumFunctionOnSet(Spent, EventsOf(c)) + (IF e \in EventsOf(c) THEN Cost[e] ELSE 0)
      <4>1. Cost[e] \in Int
        BY <2>2
      <4> QED
        BY <2>1, <2>3, <2>4, <2>5, <4>1, CustomersSets, SumGrows
    <3>2. e \in EventsOf(c) <=> c = EventCustomer[e]
      BY <2>1 DEF EventsOf, EventCustomer
    <3>3. spend'[c] = spend[c] + (IF c = EventCustomer[e] THEN Cost[e] ELSE 0)
      BY <2>1, <2>2, ChargeTypes
    <3>4. spend[c] = SumFunctionOnSet(Spent, EventsOf(c))
      BY DEF SpendInv
    <3> QED
      BY <3>1, <3>2, <3>3, <3>4
  <2>7. \A c \in Customers : EventsOf(c)' = EventsOf(c)
    BY DEF EventsOf, Events
  <2> QED
    BY <2>6, <2>7 DEF SpendInv
<1> QED
  BY <1>1, <1>2

\* No request is charged more often than its event has copies, its messages
\* are read again and each charge is sent again.
LEMMA ChargesBounded ==
  M!TypeOK /\ M!ChargesBackedByRows /\ M!DuplicatesExplained /\ CopiesInv => ExtraBounded
<1> SUFFICES ASSUME M!TypeOK, M!ChargesBackedByRows, M!DuplicatesExplained, CopiesInv,
                    NEW c \in Customers
             PROVE  SumFunctionOnSet(ChargesOf, RequestsOf(c)) \in 0 .. MaxExtra
  BY DEF ExtraBounded
<1> DEFINE copies == MaxCopies + MaxRejoins
           k      == (Resends + 1) * copies
           n      == Cardinality(Requests)
<1>0. copies \in Nat /\ Resends + 1 \in Nat /\ n \in Nat
  <2>1. MaxCopies \in Nat /\ MaxRejoins \in Nat /\ Resends \in Nat
    BY BoundAssumption, SMT
  <2> QED
    BY <2>1, RequestsAssumption, FS_CardinalityType
<1>times. ASSUME NEW a \in Nat, NEW b \in Nat, NEW i \in Nat, b <= i
      PROVE  a * b \in Nat /\ a * b <= a * i /\ a * b = b * a
  BY <1>times, SMT
<1>1. ASSUME NEW r \in Requests PROVE ChargesOf[r] <= k /\ ChargesOf[r] \in Nat
  <2> DEFINE e == Provided(r)
  <2>1. e \in Events
    BY DEF Provided, Events
  <2>2. charges[e] \in Nat /\ rows[e] \in Nat
    BY <2>1, ChargeTypes
  <2>3. rows[e] <= copies
    <3>1. /\ rows[e] <= Cardinality(M!Copies(e)) + rejoins
          /\ Cardinality(M!Copies(e)) <= MaxCopies
      BY <2>1, SameCardinality DEF M!DuplicatesExplained, CopiesInv
    <3>2. rejoins \in Nat /\ rejoins <= MaxRejoins
      BY BoundAssumption, SMT DEF M!TypeOK
    <3>3. Cardinality(M!Copies(e)) \in Nat
      <4>1. /\ Len(log) \in Nat /\ IsFiniteSet(1 .. Len(log))
            /\ M!Copies(e) \in SUBSET (1 .. Len(log))
        <5>1. Len(log) \in Nat
          BY DEF M!TypeOK
        <5> QED
          BY <5>1, FS_Interval DEF M!Copies
      <4> QED
        BY <4>1, FS_Subset, FS_CardinalityType
    <3>4. MaxCopies \in Nat /\ MaxRejoins \in Nat
      BY BoundAssumption, SMT
    <3> QED
      BY <2>2, <3>1, <3>2, <3>3, <3>4
  <2>4. charges[e] <= (Resends + 1) * rows[e]
    BY <2>1 DEF M!ChargesBackedByRows
  <2>5. (Resends + 1) * rows[e] <= k /\ (Resends + 1) * rows[e] \in Nat /\ k \in Nat
    BY <1>0, <1>times, <2>2, <2>3
  <2>6. charges[e] <= k
    <3> HIDE DEF k
    <3> QED
      BY <2>2, <2>4, <2>5
  <2> QED
    BY <2>2, <2>6 DEF ChargesOf
<1>2. k \in Nat
  BY <1>0, <1>times
<1> HIDE DEF k
<1>3. SumFunctionOnSet(ChargesOf, RequestsOf(c)) <= k * Cardinality(RequestsOf(c))
  <2>1. ChargesOf \in [Requests -> Int] /\ k \in Int
    BY <1>2, ChargeTypes
  <2>2. RequestsOf(c) \in SUBSET Requests /\ IsFiniteSet(RequestsOf(c))
    BY CustomersSets
  <2>3. \A r \in RequestsOf(c) : ChargesOf[r] <= k
    BY <1>1, <2>2
  <2> QED
    BY <2>1, <2>2, <2>3, SumAtMost
<1>4. Cardinality(RequestsOf(c)) <= n /\ Cardinality(RequestsOf(c)) \in Nat
  BY CustomersSets, RequestsAssumption, FS_Subset, FS_CardinalityType
<1>5. /\ k * Cardinality(RequestsOf(c)) <= k * n
      /\ k * Cardinality(RequestsOf(c)) \in Nat /\ k * n \in Nat
  BY <1>0, <1>2, <1>4, <1>times
<1>6. k * n = MaxExtra
  <2>1. ASSUME NEW a \in Nat, NEW b \in Nat, NEW i \in Nat PROVE (a * b) * i = b * i * a
    BY <2>1, SMT
  <2> QED
    BY <1>0, <2>1 DEF MaxExtra, k
<1>7. SumFunctionOnSet(ChargesOf, RequestsOf(c)) \in Nat
  BY ChargeTypes, CustomersSets, SumNat
<1> QED
  BY <1>3, <1>5, <1>6, <1>7, MaxExtraType

\* What metering adds to the counter is a charge that budget expects.
LEMMA ChargeIsBudgets ==
  ASSUME M!TypeOK, G!OneStoryPerRequest, GrantInv,
         LedgerInv, LedgerInv', ExtraBounded', Charge
  PROVE  B!Next \/ UNCHANGED B!vars
<1>1. UNCHANGED budgetVars
  BY DEF Charge
<1>2. CASE M!Event[2] = "cache"
  <2>1. UNCHANGED ledgerVars
    BY <1>2 DEF Charge
  <2>2. M!Event \in Events /\ Cost[M!Event] = 0
    BY <1>2, ChargeEffect DEF Cost
  <2>3. spend' = spend
    <3>1. EventCustomer[M!Event] \in Customers /\ spend \in [Customers -> Nat]
      BY <2>2, EventsType, ChargeTypes
    <3>2. spend' = [spend EXCEPT ![EventCustomer[M!Event]] = spend[EventCustomer[M!Event]] + 0]
      BY <2>2, ChargeEffect
    <3> QED
      BY <3>1, <3>2
  <2> QED
    BY <1>1, <2>1, <2>3
    DEF budgetVars, ledgerVars, B!vars, B!redisVars, B!callVars, B!billVars
<1>3. CASE M!Event[2] # "cache"
  <2>1. M!Event \in Events /\ M!Event \in G!Range(log)
    BY ChargeEffect
  <2>req. PICK r \in Requests : r = M!Event[1]
    BY <2>1 DEF Events
  <2> DEFINE m == PriceOf[r]
  <2>2. M!Event[2] = "provider" /\ Cost[M!Event] = m /\ EventCustomer[M!Event] = CustomerOf[r]
    BY <1>3, <2>1, <2>req DEF Events, Cost, EventCustomer
  <2>3. m \in 0 .. MaxCost
    <3>1. PriceOf[r] \in Nat /\ PriceOf[r] <= MaxCost /\ MaxCost \in Nat
      BY PriceAssumption, MaxCostType
    <3> QED
      BY <3>1
  <2>4. bstage[r] = "allowed"
    BY <2>1, <2>2, <2>req DEF G!OneStoryPerRequest, GrantInv
  <2>5. B!AddSpend(CustomerOf[r], m)
    <3>1. spend' = [spend EXCEPT ![CustomerOf[r]] = spend[CustomerOf[r]] + m]
      BY <2>2, ChargeEffect
    <3> QED
      BY <1>1, <3>1 DEF B!AddSpend, budgetVars, B!callVars
  <2> HIDE DEF m
  <2>6. CASE r \notin charged
    <3>1. charged' = charged \cup {r} /\ extra' = extra
      BY <1>3, <2>6, <2>req DEF Charge
    <3>2. B!Charge(r, m)
      BY <2>4, <2>5, <2>6, <3>1 DEF B!Charge
    <3> QED
      BY <2>2, <2>3, <3>2 DEF B!Next
  <2>7. CASE r \in charged
    <3>1. charged' = charged /\ extra' = [extra EXCEPT ![CustomerOf[r]] = @ + 1]
      BY <1>3, <2>7, <2>req DEF Charge
    <3>2. extra[CustomerOf[r]] < MaxExtra
      <4>1. CustomerOf[r] \in Customers /\ extra[CustomerOf[r]] \in Nat
        BY RequestsAssumption DEF LedgerInv
      <4>2. extra'[CustomerOf[r]] = extra[CustomerOf[r]] + 1
        BY <3>1, <4>1 DEF LedgerInv
      <4>3. extra'[CustomerOf[r]] <= SumFunctionOnSet(ChargesOf', RequestsOf(CustomerOf[r])')
        BY <4>1 DEF LedgerInv
      <4>4. SumFunctionOnSet(ChargesOf', RequestsOf(CustomerOf[r])') \in 0 .. MaxExtra
        BY <4>1 DEF ExtraBounded
      <4> QED
        BY <4>1, <4>2, <4>3, <4>4, MaxExtraType
    <3>3. B!ChargeAgain(r, m)
      BY <2>5, <2>7, <3>1, <3>2 DEF B!ChargeAgain
    <3> QED
      BY <2>2, <2>3, <3>3 DEF B!Next
  <2> QED
    BY <2>6, <2>7
<1> QED
  BY <1>2, <1>3

\* A step of the system is a step of budget, or leaves it alone.
LEMMA BudgetStep ==
  ( /\ M!TypeOK /\ G!OneStoryPerRequest /\ GrantInv
    /\ LedgerInv /\ LedgerInv' /\ ExtraBounded' /\ [Next]_vars )
    => [B!Next]_(B!vars)
<1> SUFFICES ASSUME M!TypeOK, G!OneStoryPerRequest, GrantInv,
                    LedgerInv, LedgerInv', ExtraBounded', [Next]_vars
             PROVE  B!Next \/ UNCHANGED B!vars
  OBVIOUS
<1>1. CASE Charge
  BY <1>1, ChargeIsBudgets
<1>2. CASE /\ ~Charge
           /\ \/ \E r \in Requests : Request(r) \/ Verdict(r) \/ Emit(r)
              \/ \E k \in G!Keys : G!Evict(k) /\ OnlyGateway
              \/ G!Crash /\ OnlyGateway
              \/ Consume \/ ((M!Start \/ M!Crash \/ M!Rejoin) /\ OnlyMetering)
              \/ UNCHANGED vars
  <2>1. UNCHANGED budgetVars
    BY <1>2 DEF Request, Verdict, Emit, Consume, OnlyGateway, OnlyMetering, vars
  <2>2. UNCHANGED <<charged, extra, spend>>
    BY <1>2, OnlyChargeCharges
  <2> QED
    BY <2>1, <2>2 DEF budgetVars, B!vars, B!redisVars, B!callVars, B!billVars
<1>3. CASE \/ \E r \in Requests : AskBudget(r) \/ Decide(r)
           \/ \E c \in Customers, l \in Limits : B!SetLimit(c, l) /\ OnlyBudget
           \/ (B!Crash /\ OnlyBudget) \/ (B!Tick /\ OnlyBudget)
  BY <1>3 DEF AskBudget, Decide, B!Next
<1> QED
  BY <1>1, <1>2, <1>3 DEF Next, Work, Disturb

\* The gateway's type invariant in the loop.
LEMMA GatewayTypes == Spec => []G!TypeOK
<1>1. GP!Spec => []GP!TypeOK
  BY GP!TypeCorrect, GatewayConstants, PTL
<1>2. GP!TypeOK => G!TypeOK
  BY DEF GP!TypeOK, G!TypeOK, GP!Keys, G!Keys, GP!Range, G!Range, GP!Guarded,
      G!Guarded, GP!AtWork, G!AtWork, GP!Answered, G!Answered
<1> QED
  BY <1>1, <1>2, GatewayInTheLoop, SameGateway, PTL

----------------------------------------------------------------------------
(***************************************************************************)
(* The invariants hold from the start, and for ever.                       *)
(***************************************************************************)
LEMMA LoopStarts == Init => GrantInv /\ CopiesInv /\ LedgerInv /\ SpendInv
<1> SUFFICES ASSUME Init PROVE GrantInv /\ CopiesInv /\ LedgerInv /\ SpendInv
  OBVIOUS
<1>1. /\ granted = {} /\ bstage = [r \in Requests |-> "idle"] /\ log = << >> /\ charged = {}
      /\ extra = [c \in Customers |-> 0] /\ charges = [e \in Events |-> 0]
      /\ spend = [c \in Customers |-> 0]
  BY DEF Init, G!Init, B!Init, M!Init
<1>2. GrantInv
  BY <1>1 DEF GrantInv
<1>3. CopiesInv
  <2> SUFFICES ASSUME NEW e \in Events PROVE Cardinality(M!Copies(e)) <= MaxCopies
    BY DEF CopiesInv
  <2>1. M!Copies(e) = {}
    BY <1>1 DEF M!Copies
  <2> QED
    BY <2>1, FS_EmptySet, GatewayConstants
<1>4. ASSUME NEW c \in Customers
      PROVE  /\ SumFunctionOnSet(ChargesOf, RequestsOf(c)) = 0
             /\ SumFunctionOnSet(Spent, EventsOf(c)) = 0
  <2>1. \A r \in Requests : ChargesOf[r] = 0
    BY <1>1 DEF ChargesOf, Provided, Events
  <2>2. \A e \in Events : Spent[e] = 0
    BY <1>1, EventsType DEF Spent
  <2>3. ChargesOf \in [Requests -> Int] /\ Spent \in [Events -> Int]
    BY <2>1, <2>2 DEF ChargesOf, Spent
  <2>4. SumFunctionOnSet(ChargesOf, RequestsOf(c)) = 0
    BY <2>1, <2>3, CustomersSets, SumZero
  <2>5. SumFunctionOnSet(Spent, EventsOf(c)) = 0
    BY <2>2, <2>3, CustomersSets, SumZero
  <2> QED
    BY <2>4, <2>5
<1>5. LedgerInv
  <2>1. \A r \in Requests : charges[Provided(r)] = 0
    BY <1>1 DEF Provided, Events
  <2> QED
    BY <1>1, <1>4, <2>1 DEF LedgerInv
<1>6. SpendInv
  BY <1>1, <1>4 DEF SpendInv
<1> QED
  BY <1>2, <1>3, <1>5, <1>6

\* Each step is taken with the components in order before and after it.
LEMMA LoopHolds == Spec => [](GrantInv /\ CopiesInv /\ LedgerInv /\ SpendInv /\ ExtraBounded)
<1> DEFINE Has == G!TypeOK /\ M!TypeOK /\ M!ChargesBackedByRows /\ M!DuplicatesExplained
           Inv == GrantInv /\ CopiesInv /\ LedgerInv /\ SpendInv
<1>1. Spec => []Has
  BY GatewayTypes, MeteringHolds, PTL
<1>2. Init => Inv
  BY LoopStarts
<1>3. Has /\ Has' /\ Inv /\ [Next]_vars => Inv'
  BY GrantStep, CopiesStep, LedgerStep, SpendStep
<1>4. Has /\ Inv => ExtraBounded
  BY ChargesBounded
<1> HIDE DEF Has, Inv
<1>5. Spec => []Inv
  BY <1>1, <1>2, <1>3, PTL DEF Spec
<1>6. Spec => []ExtraBounded
  BY <1>1, <1>4, <1>5, PTL
<1> QED
  BY <1>5, <1>6, PTL DEF Inv

(***************************************************************************)
(* What budget assumes of metering holds: metering adds to the counter     *)
(* only for calls that budget granted, at most the price of one call at a  *)
(* time, and repeats no more than its bound (BudgetSpec).                  *)
(***************************************************************************)
THEOREM BudgetInTheLoop == Spec => BudgetSpec
<1> DEFINE Inv == M!TypeOK /\ G!OneStoryPerRequest /\ GrantInv /\ LedgerInv /\ ExtraBounded
<1>1. Spec => []Inv
  BY GatewayHolds, MeteringHolds, LoopHolds, PTL
<1>2. Inv /\ Inv' /\ [Next]_vars => [B!Next]_(B!vars)
  BY BudgetStep
<1> HIDE DEF Inv
<1> QED
  BY <1>1, <1>2, PTL DEF Spec, Init, BudgetSpec, B!Spec

(***************************************************************************)
(* So Allow keeps its promises with the real metering service behind it:   *)
(* the bound on overspending, the cap on a rate window, and no throttling  *)
(* for the traffic of others (Allow, AllowRate).                           *)
(***************************************************************************)
THEOREM GrantsInTheLoop == Spec => [](B!OverspendBounded /\ B!RateCap /\ B!NoFalseThrottle)
<1>1. BP!Spec => []BP!OverspendBounded
  BY BP!OverspendIsBounded, BudgetConstants, PTL
<1>2. BP!Spec => []BP!RateCap
  BY BP!RateCapHolds, BudgetConstants, PTL
<1>3. BP!Spec => []BP!NoFalseThrottle
  BY BP!NobodyElsesTraffic, BudgetConstants, PTL
<1>4. BP!OverspendBounded => B!OverspendBounded
  BY DEF BP!OverspendBounded, B!OverspendBounded, BP!Headroom, B!Headroom,
     BP!Unbilled, B!Unbilled, BP!Cardinality, B!Cardinality
<1>5. BP!RateCap => B!RateCap
  BY DEF BP!RateCap, B!RateCap, BP!Buckets, B!Buckets, BP!BucketOf, B!BucketOf,
     BP!Cardinality, B!Cardinality
<1>6. BP!NoFalseThrottle => B!NoFalseThrottle
  BY DEF BP!NoFalseThrottle, B!NoFalseThrottle, BP!Cardinality, B!Cardinality
<1> QED
  BY <1>1, <1>2, <1>3, <1>4, <1>5, <1>6, BudgetInTheLoop, SameBudget, PTL
  DEF BudgetSpec

----------------------------------------------------------------------------
(***************************************************************************)
(* The money: the counter is the sum of the charges, each of which some    *)
(* row explains.                                                           *)
(***************************************************************************)
LEMMA BilledBacksSpend ==
  ASSUME M!TypeOK, M!ChargesBackedByRows, SpendInv PROVE SpendBackedByRows
<1> SUFFICES ASSUME NEW c \in Customers PROVE spend[c] <= (Resends + 1) * Billed(c)
  BY DEF SpendBackedByRows
<1> DEFINE k == Resends + 1
           R == [e \in Events |-> rows[e] * Cost[e]]
           K == [e \in Events |-> k * R[e]]
<1>1. k \in Nat
  BY BudgetConstants
<1>2. ASSUME NEW e \in Events
      PROVE  R[e] \in Nat /\ K[e] \in Nat /\ Spent[e] <= K[e] /\ K[e] = k * R[e]
  <2>1. charges[e] \in Nat /\ rows[e] \in Nat /\ Cost[e] \in Nat
    BY ChargeTypes, EventsType
  <2>2. charges[e] <= k * rows[e]
    BY DEF M!ChargesBackedByRows
  <2>3. ASSUME NEW a \in Nat, NEW b \in Nat, NEW d \in Nat, NEW i \in Nat, a <= i * b
        PROVE  b * d \in Nat /\ i * (b * d) \in Nat /\ a * d <= i * (b * d)
    <3>1. i * b \in Nat /\ b * d \in Nat
      OBVIOUS
    <3>2. a * d <= (i * b) * d
      BY <2>3, <3>1, SMT
    <3>3. (i * b) * d = i * (b * d)
      BY SMT
    <3> QED
      BY <3>1, <3>2, <3>3, SMT
  <2> HIDE DEF k
  <2> QED
    BY <1>1, <2>1, <2>2, <2>3 DEF Spent
<1> HIDE DEF k
<1>3. R \in [Events -> Int] /\ K \in [Events -> Int] /\ Spent \in [Events -> Int]
  BY <1>2, ChargeTypes
<1>4. EventsOf(c) \in SUBSET (Events \cap Events) /\ IsFiniteSet(EventsOf(c))
  BY CustomersSets
<1>5. \A e \in EventsOf(c) : Spent[e] <= K[e] /\ K[e] = k * R[e]
  BY <1>2, <1>4
<1> HIDE DEF R, K
<1>6. SumFunctionOnSet(Spent, EventsOf(c)) <= SumFunctionOnSet(K, EventsOf(c))
  BY <1>3, <1>4, <1>5, SumMonotone
<1>7. SumFunctionOnSet(K, EventsOf(c)) = k * SumFunctionOnSet(R, EventsOf(c))
  <2>1. k \in Int
    BY <1>1
  <2> QED
    BY <1>3, <1>4, <1>5, <2>1, SumScale
<1>8. spend[c] = SumFunctionOnSet(Spent, EventsOf(c))
  BY DEF SpendInv
<1>9. Billed(c) = SumFunctionOnSet(R, EventsOf(c))
  BY DEF Billed, R
<1> QED
  BY <1>6, <1>7, <1>8, <1>9 DEF k

(***************************************************************************)
(* The counter that blocks a customer never runs ahead of the rows that    *)
(* bill it (SpendBackedByRows; metering handle).                           *)
(***************************************************************************)
THEOREM SpendIsBilled == Spec => []SpendBackedByRows
  BY MeteringHolds, LoopHolds, BilledBacksSpend, PTL

----------------------------------------------------------------------------
(***************************************************************************)
(* Losses. A provider call that is neither charged nor on its way was lost *)
(* before it reached the topic, and is one of the drops, or after, and is  *)
(* one of the offsets metering passed without a charge.                    *)
(***************************************************************************)
\* Whatever members of a finite set can tell apart is no more than they are.
LEMMA TellApart ==
  ASSUME NEW S, NEW T, IsFiniteSet(T), NEW f \in [S -> T],
         \A x, y \in S : f[x] = f[y] => x = y
  PROVE  Cardinality(S) <= Cardinality(T) /\ IsFiniteSet(S)
  BY FS_Injection DEF Injection, IsInjective

Lost       == {r \in Requests : answer[r] = r /\ r \notin charged /\ ~OnItsWay(r)}
LostBefore == {r \in Lost : ~G!Published(r)}
LostAfter  == {r \in Lost : G!Published(r)}
Passed     == {o \in 1 .. committed : charges[log[o]] = 0 /\ ~(M!InHand /\ held = o)}

\* Lost by the gateway or its writer.
LEMMA LostBeforeTopic ==
  ASSUME G!TypeOK, G!UsageAccountedFor
  PROVE  IsFiniteSet(LostBefore) /\ Cardinality(LostBefore) <= drops
<1> DEFINE D == {r \in Requests : /\ answer[r] # Nothing
                                  /\ gstage[r] \notin {"fill", "publish"}
                                  /\ r \notin wire /\ ~G!Published(r)}
<1>1. Cardinality(D) <= drops
  BY SameCardinality DEF G!UsageAccountedFor
<1>2. LostBefore \in SUBSET D
  BY GuardAssumption DEF LostBefore, Lost, OnItsWay
<1>3. IsFiniteSet(D)
  BY RequestsAssumption, FS_Subset
<1> HIDE DEF D
<1>4. Cardinality(LostBefore) <= Cardinality(D) /\ IsFiniteSet(LostBefore)
  BY <1>2, <1>3, FS_Subset
<1>5. drops \in Nat
  BY GatewayConstants DEF G!TypeOK
<1> QED
  BY <1>1, <1>3, <1>4, <1>5, FS_CardinalityType

\* Lost by metering: an offset of the event tells one lost call from another.
LEMMA LostAfterTopic ==
  ASSUME M!TypeOK, M!LossBoundedByFaults, LedgerInv
  PROVE  IsFiniteSet(LostAfter) /\ Cardinality(LostAfter) <= faults
<1>1. Cardinality(Passed) <= faults
  BY SameCardinality DEF M!LossBoundedByFaults, Passed
<1>2. IsFiniteSet(Passed) /\ committed \in 0 .. Len(log) /\ Len(log) \in Nat
  <2>1. committed \in 0 .. Len(log) /\ Len(log) \in Nat
    BY DEF M!TypeOK
  <2>2. IsFiniteSet(1 .. committed) /\ Passed \in SUBSET (1 .. committed)
    BY <2>1, FS_Interval DEF Passed
  <2> QED
    BY <2>1, <2>2, FS_Subset
<1> DEFINE f == [r \in LostAfter |-> CHOOSE o \in Passed : log[o] = Provided(r)]
<1>3. ASSUME NEW r \in LostAfter PROVE \E o \in Passed : log[o] = Provided(r)
  <2>1. PICK o \in 1 .. Len(log) : log[o] = G!UsageOf(r)
    <3>1. G!UsageOf(r) \in G!Range(log)
      BY DEF LostAfter, G!Published
    <3>2. DOMAIN log = 1 .. Len(log)
      BY DEF M!TypeOK
    <3> QED
      BY <3>1, <3>2 DEF G!Range
  <2>2. G!UsageOf(r) = Provided(r)
    BY DEF G!UsageOf, Provided, LostAfter, Lost
  <2>3. ~(o > committed) /\ ~(M!InHand /\ held = o)
    <3>1. log[o][1] = r
      BY <2>1, <2>2 DEF Provided
    <3> QED
      BY <2>1, <3>1 DEF LostAfter, Lost, OnItsWay
  <2>4. charges[Provided(r)] = 0
    <3>1. r \in Requests /\ ~(charges[Provided(r)] > 0)
      BY DEF LostAfter, Lost, LedgerInv
    <3>2. charges[Provided(r)] \in Nat
      BY <3>1 DEF M!TypeOK, Provided, Events
    <3> QED
      BY <3>1, <3>2
  <2>5. o \in 1 .. committed
    BY <1>2, <2>3
  <2> QED
    BY <2>1, <2>2, <2>3, <2>4, <2>5 DEF Passed
<1>4. f \in [LostAfter -> Passed] /\ \A r \in LostAfter : log[f[r]] = Provided(r)
  BY <1>3
<1>5. \A q, r \in LostAfter : f[q] = f[r] => q = r
  <2> HIDE DEF f
  <2> QED
    BY <1>4 DEF Provided
<1> HIDE DEF f
<1>6. Cardinality(LostAfter) <= Cardinality(Passed) /\ IsFiniteSet(LostAfter)
  BY <1>2, <1>4, <1>5, TellApart
<1>7. faults \in Nat
  BY BoundAssumption, SMT DEF M!TypeOK
<1> QED
  BY <1>1, <1>2, <1>6, <1>7, FS_CardinalityType

\* Together they are the lost calls.
LEMMA LossesAddUp ==
  ASSUME G!TypeOK, G!UsageAccountedFor, M!TypeOK, M!LossBoundedByFaults, LedgerInv
  PROVE  UnmeteredBounded
<1>1. Lost = LostBefore \cup LostAfter
  BY DEF LostBefore, LostAfter
<1>2. IsFiniteSet(LostBefore) /\ Cardinality(LostBefore) <= drops
  BY LostBeforeTopic
<1>3. IsFiniteSet(LostAfter) /\ Cardinality(LostAfter) <= faults
  BY LostAfterTopic
<1>4. drops \in Nat /\ faults \in Nat
  BY GatewayConstants, BoundAssumption, SMT DEF G!TypeOK, M!TypeOK
<1>5. Cardinality(Lost) <= Cardinality(LostBefore) + Cardinality(LostAfter)
  <2>1. Cardinality(LostBefore \cup LostAfter) =
          Cardinality(LostBefore) + Cardinality(LostAfter)
            - Cardinality(LostBefore \cap LostAfter)
    BY <1>2, <1>3, FS_Union
  <2>2. IsFiniteSet(LostBefore \cap LostAfter)
    BY <1>2, FS_Subset
  <2>3. /\ Cardinality(LostBefore) \in Nat /\ Cardinality(LostAfter) \in Nat
        /\ Cardinality(LostBefore \cap LostAfter) \in Nat
    BY <1>2, <1>3, <2>2, FS_CardinalityType
  <2> QED
    BY <1>1, <2>1, <2>3
<1>6. Cardinality(Lost) <= drops + faults
  <2>1. IsFiniteSet(Lost)
    BY RequestsAssumption, FS_Subset DEF Lost
  <2>2. /\ Cardinality(Lost) \in Nat
        /\ Cardinality(LostBefore) \in Nat /\ Cardinality(LostAfter) \in Nat
    BY <1>2, <1>3, <2>1, FS_CardinalityType
  <2> QED
    BY <1>2, <1>3, <1>4, <1>5, <2>2
<1> QED
  BY <1>6 DEF UnmeteredBounded, Lost

(***************************************************************************)
(* End to end, no granted and completed provider call goes unmetered but   *)
(* for a dropped event or a fault (UnmeteredBounded;                       *)
(* Gateway.ChatCompletions, Publisher, Consumer.Run).                      *)
(***************************************************************************)
THEOREM NothingLostInBetween == Spec => []UnmeteredBounded
  BY GatewayTypes, GatewayHolds, MeteringHolds, LoopHolds, LossesAddUp, PTL

(***************************************************************************)
(* In the loop too a grant is one that a single atomic look would have     *)
(* given (GrantWasAffordable; Allow).                                      *)
(***************************************************************************)
THEOREM LoopGrantsAffordable == Spec => B!GrantWasAffordable
<1>1. BP!Spec => BP!GrantWasAffordable
  BY BP!GrantsAffordable, BudgetConstants, PTL
<1>2. [\A r \in Requests :
         bstage[r] # "allowed" /\ bstage'[r] = "allowed" => r \in afford]_(BP!vars)
   => [\A r \in Requests :
         bstage[r] # "allowed" /\ bstage'[r] = "allowed" => r \in afford]_(B!vars)
  BY DEF BP!vars, B!vars, BP!redisVars, B!redisVars, BP!callVars, B!callVars,
      BP!billVars, B!billVars
<1> QED
  BY <1>1, <1>2, BudgetInTheLoop, SameBudget, PTL
  DEF BudgetSpec, BP!GrantWasAffordable, B!GrantWasAffordable
=============================================================================
