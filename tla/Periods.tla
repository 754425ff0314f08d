------------------------------ MODULE Periods ------------------------------
(***************************************************************************)
(* Billing months: which month a usage event counts in, as the gateway,    *)
(* metering, budget and billing each decide it.                            *)
(*                                                                         *)
(* The gateway stamps an event when the provider has answered.  Metering   *)
(* adds a row to ClickHouse and the cost to the Redis counter of the       *)
(* stamp's month, and renews that counter's TTL; it may be late, by days   *)
(* when it was down.  Budget reads the counter of the running month, and   *)
(* billing the rows of the running month, which it exports.                *)
(*                                                                         *)
(* One customer, since rows and counters of two customers never meet.      *)
(* Time is counted in days, months have one length, and all services read  *)
(* one clock.  A message is handled once, its copies being messages of     *)
(* their own, and in any order, which the one consumer is not free to do.  *)
(***************************************************************************)
EXTENDS Integers, FiniteSets, Functions

CONSTANTS Events,      \* usage events
          Exports,     \* calls of the export endpoint
          Cost,        \* the cost of an event, in micros
          MonthLength, \* days of a month
          SpendTTL,    \* spendTTL, in days
          Resends,     \* bound: go-redis re-sends of a command with no reply
          Horizon      \* bound: the last day

ASSUME EventsAssumption == IsFiniteSet(Events) /\ Cost \in [Events -> Nat]
ASSUME ExportsAssumption == IsFiniteSet(Exports)
ASSUME TimeAssumption ==
  /\ MonthLength \in Nat \ {0} /\ Horizon \in Nat
  /\ SpendTTL \in Nat /\ SpendTTL >= MonthLength
ASSUME ResendsAssumption == Resends \in Nat

VARIABLES now,      \* today
          stage,    \* stage[e]: how far event e has come
          occurred, \* occurred[e]: the OccurredAt of e
          charges,  \* charges[e]: how often Redis has applied the INCRBY of e
          live,     \* the months whose counter exists in Redis
          spend,    \* spend[m]: the counter of month m, 0 when there is none
          expiry,   \* expiry[m]: the day it expires, 0 when it never does
          export,   \* export[x]: where call x of the export endpoint stands
          value,    \* value[x]: the costs call x has read
          readIn,   \* readIn[x]: the month it has read them in
          meter     \* meter[m]: what the billing provider received in month m

ledgerVars == <<charges, live, spend, expiry>>
exportVars == <<export, value, readIn, meter>>
vars       == <<now, stage, occurred, ledgerVars, exportVars>>

----------------------------------------------------------------------------
MonthOf(t) == t \div MonthLength
Months     == 0 .. MonthOf(Horizon)
Month(e)   == MonthOf(occurred[e])

CostOf(S) == SumFunctionOnSet(Cost, S)

\* Events with a row.
Rows     == {e \in Events : stage[e] \in {"row", "failed", "expire", "charged"}}
In(S, m) == {e \in S : Month(e) = m}

\* What the INCRBYs for the rows of month m have added up to.
Added(m) == SumFunctionOnSet([e \in Events |-> charges[e] * Cost[e]], In(Rows, m))

\* Mutant: the TTL ends before the month may.
RenewedShort == now + MonthLength - 1

\* When a counter charged today expires.
Renewed == now + SpendTTL

\* Mutant: the counter of the month in which the event is metered.
KeyOfToday(e) == MonthOf(now)

\* The month whose counter metering adds an event to.
KeyOf(e) == Month(e)

Init ==
  /\ now = 0
  /\ stage = [e \in Events |-> "none"]
  /\ occurred = [e \in Events |-> 0]
  /\ charges = [e \in Events |-> 0]
  /\ live = {} /\ spend = [m \in Months |-> 0]
  /\ expiry = [m \in Months |-> 0]
  /\ export = [x \in Exports |-> "idle"]
  /\ value = [x \in Exports |-> 0]
  /\ readIn = [x \in Exports |-> 0]
  /\ meter = [m \in Months |-> 0]

Move(e, from, to) == stage[e] = from /\ stage' = [stage EXCEPT ![e] = to]

\* The gateway's emit stamps the event.
Emit(e) ==
  /\ Move(e, "none", "sent")
  /\ occurred' = [occurred EXCEPT ![e] = now]
  /\ UNCHANGED <<now, ledgerVars, exportVars>>

\* The event never reaches ClickHouse: dropped, or metering failed.
Lose(e) ==
  /\ Move(e, "sent", "lost")
  /\ UNCHANGED <<now, occurred, ledgerVars, exportVars>>

Insert(e) ==
  /\ Move(e, "sent", "row")
  /\ UNCHANGED <<now, occurred, ledgerVars, exportVars>>

\* One INCRBY takes effect in Redis, and creates the key if there is none.
ApplyIncrBy(e) ==
  /\ stage[e] = "row" /\ charges[e] <= Resends
  /\ charges' = [charges EXCEPT ![e] = @ + 1]
  /\ live' = live \cup {KeyOf(e)}
  /\ spend' = [spend EXCEPT ![KeyOf(e)] = @ + Cost[e]]
  /\ UNCHANGED <<now, occurred, expiry, exportVars>>

IncrBy(e) == ApplyIncrBy(e) /\ Move(e, "row", "expire")

\* The reply is lost: the Redis client sends the command again, or gives up.
IncrByLost(e) == ApplyIncrBy(e) /\ UNCHANGED stage

\* Redis is given up on, or the process dies, whatever has taken effect.
IncrByFails(e) ==
  /\ Move(e, "row", "failed")
  /\ UNCHANGED <<now, occurred, ledgerVars, exportVars>>

\* EXPIRE renews the TTL of a key that exists.
ApplyExpire(e) ==
  /\ stage[e] = "expire"
  /\ expiry' = IF KeyOf(e) \in live THEN [expiry EXCEPT ![KeyOf(e)] = Renewed] ELSE expiry
  /\ UNCHANGED <<now, occurred, charges, live, spend, exportVars>>

Expire(e) == ApplyExpire(e) /\ Move(e, "expire", "charged")

ExpireLost(e) == ApplyExpire(e) /\ UNCHANGED stage

\* Its error is ignored.
ExpireFails(e) ==
  /\ Move(e, "expire", "charged")
  /\ UNCHANGED <<now, occurred, ledgerVars, exportVars>>

Step(x, from, to) == export[x] = from /\ export' = [export EXCEPT ![x] = to]

\* Mutants: the rows of all months; those of the last full month.
ReadAllCogs(x) ==
  /\ Step(x, "idle", "read")
  /\ value' = [value EXCEPT ![x] = CostOf(Rows)]
  /\ readIn' = [readIn EXCEPT ![x] = MonthOf(now)]
  /\ UNCHANGED <<now, stage, occurred, ledgerVars, meter>>

ReadLastMonth(x) ==
  /\ Step(x, "idle", "read")
  /\ value' = [value EXCEPT ![x] = CostOf(In(Rows, MonthOf(now) - 1))]
  /\ readIn' = [readIn EXCEPT ![x] = MonthOf(now) - 1]
  /\ UNCHANGED <<now, stage, occurred, ledgerVars, meter>>

\* Export reads the costs of the running month.
ReadCogs(x) ==
  /\ Step(x, "idle", "read")
  /\ value' = [value EXCEPT ![x] = CostOf(In(Rows, MonthOf(now)))]
  /\ readIn' = [readIn EXCEPT ![x] = MonthOf(now)]
  /\ UNCHANGED <<now, stage, occurred, ledgerVars, meter>>

\* The provider takes the meter event, whether or not its answer comes back.
Post(x) ==
  /\ Step(x, "read", "posted")
  /\ meter' = [meter EXCEPT ![MonthOf(now)] = @ + value[x]]
  /\ UNCHANGED <<now, stage, occurred, ledgerVars, value, readIn>>

\* ClickHouse or the provider fails: the call answers 502.
ExportFails(x) ==
  /\ Step(x, "idle", "failed") \/ Step(x, "read", "failed")
  /\ UNCHANGED <<now, stage, occurred, ledgerVars, value, readIn, meter>>

\* A day passes, and Redis drops the counters whose TTL has run out.
Tick ==
  LET gone == {m \in Months : expiry[m] # 0 /\ expiry[m] <= now + 1}
  IN  /\ now < Horizon
      /\ now' = now + 1
      /\ live' = live \ gone
      /\ spend' = [m \in Months |-> IF m \in gone THEN 0 ELSE spend[m]]
      /\ expiry' = [m \in Months |-> IF m \in gone THEN 0 ELSE expiry[m]]
      /\ UNCHANGED <<stage, occurred, charges, exportVars>>

\* What metering does about an event.
Meter(e) ==
  \/ Lose(e) \/ Insert(e) \/ IncrBy(e) \/ IncrByLost(e) \/ IncrByFails(e)
  \/ Expire(e) \/ ExpireLost(e) \/ ExpireFails(e)

Next ==
  \/ \E e \in Events : Emit(e) \/ Meter(e)
  \/ \E x \in Exports : ReadCogs(x) \/ Post(x) \/ ExportFails(x)
  \/ Tick

Spec == Init /\ [][Next]_vars

----------------------------------------------------------------------------
(***************************************************************************)
(* Every variable stays in its range.                                      *)
(***************************************************************************)
TypeOK ==
  /\ now \in 0 .. Horizon
  /\ stage \in [Events -> {"none", "sent", "lost", "row", "failed", "expire", "charged"}]
  /\ occurred \in [Events -> 0 .. Horizon]
  /\ charges \in [Events -> 0 .. Resends + 1]
  /\ live \subseteq Months /\ spend \in [Months -> Nat] /\ expiry \in [Months -> Nat]
  /\ export \in [Exports -> {"idle", "read", "posted", "failed"}]
  /\ value \in [Exports -> Nat] /\ readIn \in [Exports -> Months] /\ meter \in [Months -> Nat]

(***************************************************************************)
(* The counter Allow reads is complete: no TTL ever takes away anything    *)
(* that was added to the counter of the running month, however long ago    *)
(* and whichever EXPIREs were lost.  With it, an exhausted limit stays     *)
(* exhausted until the month ends.                                         *)
(***************************************************************************)
RunningCounterComplete == spend[MonthOf(now)] = Added(MonthOf(now))

(***************************************************************************)
(* No month pays for another: a counter shows at most what was consumed in *)
(* its own month, each row counted once per attempt of the Redis client,   *)
(* although metering may be late by months, and may revive a counter that  *)
(* had expired.  (The attempts are the price of a lost reply: INCRBY is    *)
(* sent again, and the row has been charged twice.)                        *)
(***************************************************************************)
NoCarryOver == \A m \in Months : spend[m] <= (Resends + 1) * CostOf(In(Rows, m))

(***************************************************************************)
(* Billing's month is budget's month: the costs billing reads, each        *)
(* counted once per attempt of the Redis client, cover all that the        *)
(* customer could have been blocked for at that instant.                   *)
(***************************************************************************)
ExportCoversCounter ==
  [][\A x \in Exports : export[x] = "idle" /\ export'[x] = "read"
                          => (Resends + 1) * value'[x] >= spend[MonthOf(now)]]_vars

(***************************************************************************)
(* A customer is billed for each row at most once per export of its month: *)
(* whatever month each row and each call falls in, also when a call reads  *)
(* in one month and is taken in the next.  (The provider adds up what it   *)
(* receives, so a month exported twice, or again after a reply was lost,   *)
(* is billed twice; that is all that goes wrong.  A row that comes after   *)
(* the last export of its month is never billed.)                          *)
(***************************************************************************)
Posted == {x \in Exports : export[x] = "posted"}

BilledOncePerExport ==
  SumFunction(meter)
    <= SumFunctionOnSet([x \in Exports |-> CostOf(In(Rows, readIn[x]))], Posted)
=============================================================================
