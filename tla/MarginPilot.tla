---------------------------- MODULE MarginPilot ----------------------------
(***************************************************************************)
(* The control loop: gateway, budget and metering at work on the same      *)
(* Redis and the same topic.                                               *)
(*                                                                         *)
(*     gateway --- Allow ---> budget <--- spend counter --- metering       *)
(*        |                                                     ^          *)
(*        +----------------- usage topic ----------------------+          *)
(*                                                                         *)
(* A request makes one Allow call, known by the request, and one usage     *)
(* event, known by the request and the provider field.  Each step is one   *)
(* of a component's, and the components meet in four places: the gateway   *)
(* sends the Allow RPC and takes its verdict, its writer appends to the    *)
(* topic that metering reads, and metering adds to the counter that budget *)
(* reads.                                                                  *)
(***************************************************************************)
EXTENDS Integers, Sequences, FiniteSets, Functions

CONSTANTS Requests, Customers, CustomerOf,
          Prompts, PromptOf, Guard, Fingerprint, Nothing,      \* gateway
          RateMax, Window, DefaultLimit, Limits, Horizon,      \* budget
          PriceOf,                                             \* metering
          MaxCopies, MaxDrops, MaxFaults, MaxRejoins, Resends     \* bounds

ASSUME RequestsAssumption ==
  /\ IsFiniteSet(Requests)
  /\ CustomerOf \in [Requests -> Customers] /\ PromptOf \in [Requests -> Prompts]
ASSUME GuardAssumption ==
  /\ Nothing \notin Prompts \cup Requests
  /\ Guard \in [Prompts -> Prompts \cup {Nothing}]
  /\ DOMAIN Fingerprint = Prompts
ASSUME LimitAssumption ==
  /\ RateMax \in Nat /\ Window \in Nat \ {0}
  /\ DefaultLimit \in Int /\ Limits \subseteq Int
\* PriceOf[r] is what the pricer answers for the tokens of a provider call of r.
ASSUME PriceAssumption == PriceOf \in [Requests -> Nat]
ASSUME BoundAssumption ==
  {Horizon, MaxCopies, MaxDrops, MaxFaults, MaxRejoins, Resends} \subseteq Nat

VARIABLES gstage, answer, cache, wire, granted, drops,
          now, count, expiry, limit, bstage, bucket, btries, okRate, lim, alert,
          onTime, afford, charged, extra, peak, ceiling,
          committed, next, mstage, held, mtries, rows, charges, handled, faults, rejoins,
          log,    \* shared by the gateway's writer and metering
          spend   \* shared by metering and budget

gatewayVars  == <<gstage, answer, cache, wire, granted, drops>>
budgetVars   == <<now, count, expiry, limit, bstage, bucket, btries, okRate, lim, alert,
                  onTime, afford, peak, ceiling>>
ledgerVars   == <<charged, extra>>
meteringVars == <<committed, next, mstage, held, mtries, rows, charges, handled,
                  faults, rejoins>>
vars == <<gatewayVars, budgetVars, ledgerVars, meteringVars, log, spend>>

----------------------------------------------------------------------------
Events  == Requests \X {"provider", "cache"}
Cost    == [e \in Events |-> IF e[2] = "provider" THEN PriceOf[e[1]] ELSE 0]
EventCustomer == [e \in Events |-> CustomerOf[e[1]]]

MaxCost ==
  CHOOSE m \in {0} \cup {PriceOf[r] : r \in Requests} : \A r \in Requests : PriceOf[r] <= m

\* As often as copies, rejoins and re-sends can repeat the charges of a customer.
MaxExtra == (MaxCopies + MaxRejoins) * Cardinality(Requests) * (Resends + 1)

G == INSTANCE Gateway  WITH stage <- gstage
B == INSTANCE Budget   WITH Calls <- Requests, stage <- bstage, tries <- btries
M == INSTANCE Metering WITH stage <- mstage, tries <- mtries,
                            CustomerOf <- EventCustomer

Init == G!Init /\ B!Init /\ M!Init

----------------------------------------------------------------------------
OnlyGateway  == UNCHANGED <<budgetVars, ledgerVars, meteringVars, spend>>
OnlyBudget   == UNCHANGED <<gatewayVars, meteringVars, log>>
OnlyMetering == UNCHANGED <<gatewayVars, budgetVars, ledgerVars>>

\* Steps of a request that take no one else along.
Request(r) ==
  /\ \/ G!TurnAway(r) \/ G!Admit(r) \/ G!Hit(r) \/ G!Miss(r)
     \/ G!AllowFails(r)
     \/ G!Complete(r) \/ G!UpstreamFails(r) \/ G!Fill(r)
     \/ G!Publish(r) \/ G!PublishFails(r) \/ G!Respond(r)
     \/ G!BatchDone(r)
  /\ OnlyGateway

\* The gateway, having missed in the cache, sends the Allow RPC.
AskBudget(r) == gstage[r] = "allow" /\ B!Arrive(r) /\ OnlyBudget

\* The RPC returns, unless the gateway has given it up.
Verdict(r) ==
  /\ \/ bstage[r] = "allowed" /\ G!Granted(r)
     \/ bstage[r] \in B!Denials /\ G!Refused(r)
  /\ OnlyGateway

\* The budget service at work on the RPC of r.
Decide(r) ==
  /\ \/ B!Incr(r) \/ B!IncrLost(r) \/ B!IncrFails(r) \/ B!Expire(r)
     \/ B!ReadLimit(r) \/ B!ReadSpend(r) \/ B!ReadFails(r) \/ B!PublishAlert(r)
  /\ OnlyBudget

\* The gateway's writer appends a usage event to the topic.
Emit(r) ==
  /\ G!BatchTaken(r)
  /\ M!Append1(G!UsageOf(r))
  /\ UNCHANGED <<budgetVars, ledgerVars>>

\* Metering steps that leave the spend counter alone.
Consume ==
  /\ \/ M!Fetch \/ M!Commit \/ M!CommitFails
     \/ M!Price \/ M!PriceFails \/ M!Insert \/ M!InsertFails \/ M!IncrByFails
  /\ OnlyMetering

\* The budget ledger follows what metering does to the spend counter.
Charge ==
  /\ M!IncrBy \/ M!IncrByLost
  /\ LET r == M!Event[1]
         c == CustomerOf[r]
     IN  IF M!Event[2] = "cache" THEN UNCHANGED ledgerVars
         ELSE IF r \in charged
         THEN extra' = [extra EXCEPT ![c] = @ + 1] /\ UNCHANGED charged
         ELSE charged' = charged \cup {r} /\ UNCHANGED extra
  /\ UNCHANGED <<gatewayVars, budgetVars>>

\* What the services do of themselves.
Work ==
  \/ \E r \in Requests : Request(r) \/ AskBudget(r) \/ Verdict(r) \/ Decide(r) \/ Emit(r)
  \/ Consume \/ Charge
  \/ M!Start /\ OnlyMetering

\* What happens to them.
Disturb ==
  \/ \E k \in G!Keys : G!Evict(k) /\ OnlyGateway
  \/ G!Crash /\ OnlyGateway
  \/ \E c \in Customers, l \in Limits : B!SetLimit(c, l) /\ OnlyBudget
  \/ B!Crash /\ OnlyBudget
  \/ B!Tick /\ OnlyBudget
  \/ M!Crash /\ OnlyMetering
  \/ M!Rejoin /\ OnlyMetering

Next == Work \/ Disturb

Spec == Init /\ [][Next]_vars

(***************************************************************************)
(* Fairness: while some goroutine of some service can run, one does, and   *)
(* every call they make ends, well or badly.  A request and a message take *)
(* finitely many steps, so none is left behind.  Nothing makes an          *)
(* operator, the clock, an eviction, a rejoin or a crash happen.           *)
(***************************************************************************)
FairSpec == Spec /\ WF_vars(Work)

----------------------------------------------------------------------------
(***************************************************************************)
(* What budget assumes of the rest of the system holds: metering adds to   *)
(* the spend counter only for calls that budget granted, at most the price *)
(* of one call at a time.  So all that is shown of Budget holds here.      *)
(***************************************************************************)
BudgetSpec == B!Spec

(***************************************************************************)
(* A provider call that was granted and completed is charged, or still on  *)
(* its way to the counter, or one of as many losses as there were dropped  *)
(* events and faults: end to end, nothing is lost for another reason.      *)
(***************************************************************************)
OnItsWay(r) ==
  \/ gstage[r] \in {"fill", "publish"} \/ r \in wire
  \/ \E o \in 1 .. Len(log) :
       /\ log[o][1] = r
       /\ o > committed \/ (M!InHand /\ held = o)

UnmeteredBounded ==
  Cardinality({r \in Requests : answer[r] = r /\ r \notin charged /\ ~OnItsWay(r)})
    <= drops + faults

(***************************************************************************)
(* The counter that blocks a customer never runs ahead of the rows that    *)
(* bill it: the spend is at most what the rows add up to, times the        *)
(* attempts the Redis client makes.                                        *)
(***************************************************************************)
EventsOf(c) == {e \in Events : CustomerOf[e[1]] = c}
Billed(c)   == SumFunctionOnSet([e \in Events |-> rows[e] * Cost[e]], EventsOf(c))

SpendBackedByRows == \A c \in Customers : spend[c] <= (Resends + 1) * Billed(c)

(***************************************************************************)
(* Enforcement closes the loop: what a customer has consumed, over all     *)
(* completed provider calls, reaches the counter Allow compares with the   *)
(* limit, short of at most one call for each dropped event and each fault. *)
(***************************************************************************)
Consumed(c) ==
  SumFunctionOnSet(PriceOf, {r \in Requests : CustomerOf[r] = c /\ answer[r] = r})

EventuallyEnforced ==
  \A c \in Customers, n \in 1 .. MaxCost * Cardinality(Requests) :
    Consumed(c) >= n ~> spend[c] + MaxCost * (drops + faults) >= n

(***************************************************************************)
(* Every request that gets to work is answered, or its process dies:       *)
(* neither the cache, nor budget, nor the topic holds it up for ever.      *)
(***************************************************************************)
EveryRequestAnswered ==
  \A r \in Requests : gstage[r] \in G!AtWork ~> gstage[r] \in G!Answered

----------------------------------------------------------------------------
(***************************************************************************)
(* What the comment on ErrBudgetExceeded says, the error that becomes the  *)
(* status 402: the caller is over their spend limit.                       *)
(***************************************************************************)
PaymentRequiredMeansOverLimit ==
  \A r \in Requests : gstage[r] = "402" => spend[CustomerOf[r]] >= lim[r]
=============================================================================
