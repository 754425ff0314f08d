------------------------------ MODULE Services ------------------------------
(***************************************************************************)
(* The services around Postgres.  Identity, rating and billing share       *)
(* Postgres and nothing else, no table and no call; so what one of them    *)
(* does among the others is what it does alone while Postgres goes up and  *)
(* down at any time.  A behaviour is one of one of them, which is picked   *)
(* at the start, or one of the days that analytics looks at.               *)
(*                                                                         *)
(* Rating's constants are declared as its own; those of the others are     *)
(* theirs by name.                                                         *)
(***************************************************************************)
EXTENDS Rating

CONSTANTS VirtualKeys, DemoKeys, NoKey, Rounds,                  \* identity
          Subscriptions, DemoSubscriptions, Accounts, All, MaxUsage, \* billing
          Costs, MaxSpend, MaxDays                               \* analytics

ASSUME IdentityAssumption ==
  /\ DemoKeys \in Seq(VirtualKeys) /\ NoKey \notin VirtualKeys
  /\ Rounds \in Nat \ {0}
ASSUME BillingAssumption ==
  /\ DemoSubscriptions \in Seq(Subscriptions)
  /\ Subscriptions \cup Accounts # {} /\ MaxUsage \in Nat
  /\ \A k \in Subscriptions \cup Accounts : k = <<k[1], k[2]>>
ASSUME DaysAssumption == Costs \subseteq Nat /\ {MaxSpend, MaxDays} \subseteq Nat

VARIABLES service,                                             \* the service that is observed
          request, key, caller, warm, round,                   \* of identity
          page, by, of, subs, lines, usage, asOf, view, shown, \* of billing
          days, today                                          \* of analytics

identityVars == <<request, key, caller, warm, round>>
billingVars  == <<page, by, of, subs, lines, usage, asOf, view, shown>>
daysVars     == <<days, today>>
allVars      == <<service, vars, identityVars, billingVars, daysVars>>

I == INSTANCE Identity WITH Keys <- VirtualKeys, SeedRows <- DemoKeys, StopAtError <- FALSE
B == INSTANCE Billing  WITH Keys <- Subscriptions, SeedRows <- DemoSubscriptions
A == INSTANCE Anomalies

ServicesInit ==
  /\ service \in {"identity", "rating", "billing", "analytics"}
  /\ Init /\ I!Init /\ B!Init /\ A!Init

\* What the others leave alone.
ButIdentity == UNCHANGED <<service, callVars, billingVars, daysVars>>
ButRating   == UNCHANGED <<service, identityVars, billingVars, daysVars>>
ButBilling  == UNCHANGED <<service, callVars, identityVars, daysVars>>
ButDays     == UNCHANGED <<service, vars, identityVars, billingVars>>

ServicesNext ==
  \/ service = "identity"  /\ I!Next /\ ButIdentity
  \/ service = "rating"    /\ Next   /\ ButRating
  \/ service = "billing"   /\ B!Next /\ ButBilling
  \/ service = "analytics" /\ A!Next /\ ButDays

\* What the processes do of themselves.
Mains ==
  \/ service = "identity" /\ I!Main /\ ButIdentity
  \/ service = "rating"   /\ Main   /\ ButRating
  \/ service = "billing"  /\ B!Main /\ ButBilling

PriceWork == Answers /\ ButRating

ServicesSpec == ServicesInit /\ [][ServicesNext]_allVars
                /\ WF_allVars(Mains) /\ WF_allVars(PriceWork)

----------------------------------------------------------------------------
(***************************************************************************)
(* What each service promises, as its own module states it.                *)
(***************************************************************************)
AllTypesOK ==
  CASE service = "identity"  -> I!TypeOK
    [] service = "rating"    -> TypeOK
    [] service = "billing"   -> B!TypeOK
    [] service = "analytics" -> A!TypeOK

AllServeTheirSeed ==
  CASE service = "identity"  -> I!ServesItsSeed
    [] service = "rating"    -> ServesItsSeed
    [] service = "billing"   -> B!ServesItsSeed
    [] service = "analytics" -> TRUE

KnownUnlessMissed    == I!KnownUnlessMissed
WarmMeansUsable      == service = "identity" => I!WarmMeansUsable
LinesBracketed       == B!LinesBracketed
SubscribersSeen      == service = "billing" => B!SubscribersSeen
SpikesTakeElevenDays == service = "analytics" => A!SpikesTakeElevenDays
=============================================================================
