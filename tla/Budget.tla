------------------------------- MODULE Budget -------------------------------
(***************************************************************************)
(* The budget service: the Allow and SetLimit RPCs of                      *)
(* services/budget, executed step by step against Redis.  A step is one    *)
(* Redis command, because between two commands of a call any other call,   *)
(* the metering service or the clock may move:                             *)
(*                                                                         *)
(*    idle --> incr --> [expire] --> limit --> spend --> verdict           *)
(*                                                                         *)
(* Time is counted in ticks and a rate window is Window ticks.  The spend  *)
(* counters are those of one billing period.  Metering, the only writer of *)
(* the spend counters, appears here as the environment actions Charge and  *)
(* ChargeAgain.                                                            *)
(***************************************************************************)
EXTENDS Integers, FiniteSets

CONSTANTS Calls,        \* Allow RPCs, each made at most once
          Customers,    \* (tenant, customer) pairs
          CustomerOf,   \* the customer a call is made for
          RateMax,      \* rateMax: requests per window per customer
          Window,       \* rateWindow, in ticks
          DefaultLimit, \* the enforcer's defaultLimit
          Limits,       \* limits an operator may set; <= 0 means "unset"
          MaxCost,      \* bound: the most one delivery of a usage event costs
          Resends,      \* bound: go-redis re-sends of a command with no reply
          Horizon,      \* bound: the last tick
          MaxExtra      \* bound: repeated charges per customer

ASSUME CallsAssumption == IsFiniteSet(Calls) /\ CustomerOf \in [Calls -> Customers]
ASSUME RateAssumption == RateMax \in Nat /\ Window \in Nat \ {0}
ASSUME LimitAssumption == DefaultLimit \in Int /\ Limits \subseteq Int
ASSUME BoundAssumption ==
  MaxCost \in Nat /\ Resends \in Nat /\ Horizon \in Nat /\ MaxExtra \in Nat

VARIABLES now,      \* the clock
          count,    \* count[c][b]: the Redis counter rl:c:b, 0 when absent
          expiry,   \* expiry[c][b]: when that key expires, 0 when it never does
          limit,    \* limit[c]: the Redis key limit:c, 0 when absent
          spend,    \* spend[c]: the Redis spend counter of the period
          stage,    \* stage[r]: where call r stands
          bucket,   \* bucket[r]: the rate window call r computed on entry
          tries,    \* tries[r]: INCRs Redis has applied for call r
          okRate,   \* okRate[r]: what AllowRate answered
          lim,      \* lim[r]: the effective limit call r works with
          alert     \* alert[r]: the alert goroutine of call r

(***************************************************************************)
(* History: nothing in the program reads these.                            *)
(***************************************************************************)
VARIABLES onTime,   \* calls whose INCR ran inside the window it names
          afford,   \* calls whose limit, when read, was above the spend
          charged,  \* calls metering has charged at least once
          extra,    \* extra[c]: repeated charges
          peak,     \* peak[c]: most granted and uncharged calls at a grant
          ceiling   \* ceiling[c]: the highest effective limit so far

redisVars == <<count, expiry, limit, spend>>
callVars  == <<stage, bucket, tries, okRate, lim, alert>>
billVars  == <<charged, extra, peak, ceiling>>
vars      == <<now, redisVars, callVars, onTime, afford, billVars>>

----------------------------------------------------------------------------
Stages   == {"idle", "incr", "expire", "limit", "spend",
             "allowed", "rate_limit", "budget", "error"}
InFlight == {"incr", "expire", "limit", "spend"}
Denials  == {"rate_limit", "budget"}

BucketOf(t) == t \div Window
Buckets     == 0 .. BucketOf(Horizon)

\* Mutants: the cap counts one too few, the TTL ends before the window.
RateOKStrict(n) == n < RateMax
RateTTLShort    == Window - 1

\* AllowRate's answer to the value INCR returned, and the TTL it then sets.
RateOK(n) == n <= RateMax
RateTTL   == Window

\* Mutants: only zero means "unset"; a limit just reached still grants.
EffectiveLimitOfZero(l) == IF l = 0 THEN DefaultLimit ELSE l
VerdictAtLimit(ok, remaining) ==
  CASE ~ok                 -> "rate_limit"
    [] ok /\ remaining < 0 -> "budget"
    [] OTHER               -> "allowed"

\* A limit at or below zero is "unset": the default applies.
EffectiveLimit(l) == IF l <= 0 THEN DefaultLimit ELSE l

\* The switch that ends Allow: the rate verdict comes before the budget one.
Verdict(ok, remaining) ==
  CASE ~ok                  -> "rate_limit"
    [] ok /\ remaining <= 0 -> "budget"
    [] OTHER                -> "allowed"

Larger(m, n) == IF m >= n THEN m ELSE n

\* Granted calls of c that have not reached the spend counter yet.
Unbilled(c) == {r \in Calls : CustomerOf[r] = c /\ stage[r] = "allowed" /\ r \notin charged}

----------------------------------------------------------------------------
Init ==
  /\ now = 0
  /\ count = [c \in Customers |-> [b \in Buckets |-> 0]]
  /\ expiry = [c \in Customers |-> [b \in Buckets |-> 0]]
  /\ limit = [c \in Customers |-> 0]
  /\ spend = [c \in Customers |-> 0]
  /\ stage = [r \in Calls |-> "idle"]
  /\ bucket = [r \in Calls |-> 0]
  /\ tries = [r \in Calls |-> 0]
  /\ okRate = [r \in Calls |-> FALSE]
  /\ lim = [r \in Calls |-> DefaultLimit]
  /\ alert = [r \in Calls |-> "none"]
  /\ onTime = {} /\ afford = {} /\ charged = {}
  /\ extra = [c \in Customers |-> 0]
  /\ peak = [c \in Customers |-> 0]
  /\ ceiling = [c \in Customers |-> DefaultLimit]

(***************************************************************************)
(* An Allow RPC arrives.  AllowRate takes its window from the clock before *)
(* it talks to Redis.                                                      *)
(***************************************************************************)
Arrive(r) ==
  /\ stage[r] = "idle"
  /\ stage' = [stage EXCEPT ![r] = "incr"]
  /\ bucket' = [bucket EXCEPT ![r] = BucketOf(now)]
  /\ UNCHANGED <<now, redisVars, tries, okRate, lim, alert, onTime, afford, billVars>>

\* One INCR of the call's rate key takes effect in Redis.
ApplyIncr(r) ==
  /\ stage[r] = "incr"
  /\ tries[r] <= Resends
  /\ tries' = [tries EXCEPT ![r] = @ + 1]
  /\ count' = [count EXCEPT ![CustomerOf[r]][bucket[r]] = @ + 1]
  /\ UNCHANGED <<now, expiry, limit, spend, bucket, lim, alert, afford, billVars>>

\* The reply arrives.  Only the caller that saw 1 goes on to set the TTL.
Incr(r) ==
  LET n == count[CustomerOf[r]][bucket[r]] + 1
  IN  /\ ApplyIncr(r)
      /\ okRate' = [okRate EXCEPT ![r] = RateOK(n)]
      /\ stage' = [stage EXCEPT ![r] = IF n = 1 THEN "expire" ELSE "limit"]
      /\ onTime' = IF bucket[r] = BucketOf(now) THEN onTime \cup {r} ELSE onTime

\* The reply is lost: the Redis client sends the INCR again, or gives up.
IncrLost(r) == ApplyIncr(r) /\ UNCHANGED <<stage, okRate, onTime>>

\* Every attempt failed, or the caller's context ended: Allow returns the error.
Fails(r, stages) ==
  /\ stage[r] \in stages
  /\ stage' = [stage EXCEPT ![r] = "error"]
  /\ UNCHANGED <<now, redisVars, bucket, tries, okRate, lim, alert, onTime, afford, billVars>>

IncrFails(r) == Fails(r, {"incr"})
ReadFails(r) == Fails(r, {"limit", "spend"})

\* EXPIRE on the window key.  Its error is ignored: the key may live for ever.
Expire(r) ==
  LET c == CustomerOf[r]
      b == bucket[r]
  IN  /\ stage[r] = "expire"
      /\ stage' = [stage EXCEPT ![r] = "limit"]
      /\ \/ count[c][b] > 0 /\ expiry' = [expiry EXCEPT ![c][b] = now + RateTTL]
         \/ UNCHANGED expiry
      /\ UNCHANGED <<now, count, limit, spend, bucket, tries, okRate, lim, alert,
                     onTime, afford, billVars>>

ReadLimit(r) ==
  LET c == CustomerOf[r]
      l == EffectiveLimit(limit[c])
  IN  /\ stage[r] = "limit"
      /\ stage' = [stage EXCEPT ![r] = "spend"]
      /\ lim' = [lim EXCEPT ![r] = l]
      /\ afford' = IF spend[c] < l THEN afford \cup {r} ELSE afford
      /\ UNCHANGED <<now, redisVars, bucket, tries, okRate, alert, onTime, billVars>>

(***************************************************************************)
(* The spend is read and the verdict returned; the RPC handler starts an   *)
(* alert goroutine for a denial and does not wait for it.                  *)
(***************************************************************************)
ReadSpend(r) ==
  LET c == CustomerOf[r]
      v == Verdict(okRate[r], lim[r] - spend[c])
  IN  /\ stage[r] = "spend"
      /\ stage' = [stage EXCEPT ![r] = v]
      /\ alert' = [alert EXCEPT ![r] = IF v \in Denials THEN "pending" ELSE @]
      /\ peak' = IF v = "allowed"
                 THEN [peak EXCEPT ![c] = Larger(@, Cardinality(Unbilled(c) \cup {r}))]
                 ELSE peak
      /\ UNCHANGED <<now, redisVars, bucket, tries, okRate, lim, onTime, afford,
                     charged, extra, ceiling>>

\* The goroutine publishes its alert within its timeout, or logs and forgets it.
PublishAlert(r) ==
  /\ alert[r] = "pending"
  /\ \E outcome \in {"sent", "lost"} : alert' = [alert EXCEPT ![r] = outcome]
  /\ UNCHANGED <<now, redisVars, stage, bucket, tries, okRate, lim, onTime, afford, billVars>>

SetLimit(c, l) ==
  /\ limit' = [limit EXCEPT ![c] = l]
  /\ ceiling' = [ceiling EXCEPT ![c] = Larger(@, EffectiveLimit(l))]
  /\ UNCHANGED <<now, count, expiry, spend, callVars, onTime, afford, charged, extra, peak>>

(***************************************************************************)
(* The service dies or is stopped.  GracefulStop waits for RPCs, a kill    *)
(* does not, and neither waits for the alert goroutines.                   *)
(***************************************************************************)
Crash ==
  /\ stage' = [r \in Calls |-> IF stage[r] \in InFlight THEN "error" ELSE stage[r]]
  /\ alert' = [r \in Calls |-> IF alert[r] = "pending" THEN "lost" ELSE alert[r]]
  /\ UNCHANGED <<now, redisVars, bucket, tries, okRate, lim, onTime, afford, billVars>>

\* A second passes, and Redis drops the rate keys whose TTL has run out.
Tick ==
  LET gone(c, b) == expiry[c][b] # 0 /\ expiry[c][b] <= now + 1
  IN  /\ now < Horizon
      /\ now' = now + 1
      /\ count' = [c \in Customers |-> [b \in Buckets |->
                     IF gone(c, b) THEN 0 ELSE count[c][b]]]
      /\ expiry' = [c \in Customers |-> [b \in Buckets |->
                      IF gone(c, b) THEN 0 ELSE expiry[c][b]]]
      /\ UNCHANGED <<limit, spend, callVars, onTime, afford, billVars>>

----------------------------------------------------------------------------
(***************************************************************************)
(* Metering's IncrBy on the spend counter: for the usage event of a        *)
(* granted call, and again when the event or the command is repeated.      *)
(***************************************************************************)
AddSpend(c, m) ==
  /\ spend' = [spend EXCEPT ![c] = @ + m]
  /\ UNCHANGED <<now, count, expiry, limit, callVars, onTime, afford, peak, ceiling>>

Charge(r, m) ==
  /\ stage[r] = "allowed" /\ r \notin charged
  /\ charged' = charged \cup {r}
  /\ AddSpend(CustomerOf[r], m)
  /\ UNCHANGED extra

ChargeAgain(r, m) ==
  /\ r \in charged /\ extra[CustomerOf[r]] < MaxExtra
  /\ extra' = [extra EXCEPT ![CustomerOf[r]] = @ + 1]
  /\ AddSpend(CustomerOf[r], m)
  /\ UNCHANGED charged

Next ==
  \/ \E r \in Calls :
       \/ Arrive(r) \/ Incr(r) \/ IncrLost(r) \/ IncrFails(r) \/ Expire(r)
       \/ ReadLimit(r) \/ ReadSpend(r) \/ ReadFails(r) \/ PublishAlert(r)
       \/ \E m \in 0 .. MaxCost : Charge(r, m) \/ ChargeAgain(r, m)
  \/ \E c \in Customers, l \in Limits : SetLimit(c, l)
  \/ Crash
  \/ Tick

Spec == Init /\ [][Next]_vars

----------------------------------------------------------------------------
(***************************************************************************)
(* Every variable stays in its range; in particular a call never works     *)
(* with a limit at or below zero that an operator has set.                 *)
(***************************************************************************)
TypeOK ==
  /\ now \in 0 .. Horizon
  /\ count \in [Customers -> [Buckets -> Nat]]
  /\ expiry \in [Customers -> [Buckets -> Nat]]
  /\ limit \in [Customers -> Limits \cup {0}]
  /\ spend \in [Customers -> Nat]
  /\ stage \in [Calls -> Stages]
  /\ bucket \in [Calls -> Buckets]
  /\ tries \in [Calls -> 0 .. Resends + 1]
  /\ okRate \in [Calls -> BOOLEAN]
  /\ lim \in [Calls -> {DefaultLimit} \cup {l \in Limits : l > 0}]
  /\ alert \in [Calls -> {"none", "pending", "sent", "lost"}]
  /\ onTime \subseteq Calls /\ afford \subseteq Calls /\ charged \subseteq Calls
  /\ extra \in [Customers -> 0 .. MaxExtra]
  /\ peak \in [Customers -> Nat]
  /\ ceiling \in [Customers -> Int]

(***************************************************************************)
(* No more than RateMax calls of a customer are granted in a rate window,  *)
(* whatever the interleaving of INCR and EXPIRE and whatever is lost: the  *)
(* window's counter cannot expire while its window lasts.  (AllowRate; a   *)
(* call whose INCR reaches Redis only after its window has closed may find *)
(* the counter gone, and is not counted here.)                             *)
(***************************************************************************)
RateCap ==
  \A c \in Customers, b \in Buckets :
    Cardinality({r \in onTime : CustomerOf[r] = c /\ bucket[r] = b
                               /\ stage[r] = "allowed"}) <= RateMax

(***************************************************************************)
(* A customer is throttled only by the traffic of that customer in that    *)
(* window: a counter left behind by a lost EXPIRE never blocks a later     *)
(* window, and another customer's calls never do.  A call counts at most   *)
(* once per attempt of the Redis client.                                   *)
(***************************************************************************)
NoFalseThrottle ==
  \A r \in Calls :
    stage[r] = "rate_limit" =>
      RateMax < (Resends + 1) * Cardinality({q \in Calls :
        CustomerOf[q] = CustomerOf[r] /\ bucket[q] = bucket[r] /\ stage[q] # "idle"})

(***************************************************************************)
(* Allow reads the limit and the spend in two commands, and still a grant  *)
(* is one that a single atomic look would have given: at the instant the   *)
(* limit was read, the spend was below it.                                 *)
(***************************************************************************)
GrantWasAffordable ==
  [][\A r \in Calls : stage[r] # "allowed" /\ stage'[r] = "allowed" => r \in afford]_vars

(***************************************************************************)
(* What checking before charging costs.  The spend, with every granted     *)
(* call not yet metered priced at the most it may cost, exceeds the        *)
(* highest limit ever in force by no more than the calls that were granted *)
(* at once before any was metered, and the charges applied twice.          *)
(***************************************************************************)
Headroom(l) == IF l > 0 THEN l - 1 ELSE 0

OverspendBounded ==
  \A c \in Customers :
    spend[c] + MaxCost * Cardinality(Unbilled(c))
      <= Headroom(ceiling[c]) + MaxCost * (peak[c] + extra[c])
=============================================================================
