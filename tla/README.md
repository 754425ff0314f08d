# MarginPilot: a verification project

MarginPilot meters, prices and limits the use of LLM providers. A gateway stands
in front of the providers, a budget service says who may call, a metering
service turns usage events into rows and spend counters, and further services
bill, alert and report. This directory holds TLA+ models of the services that
decide and account, the TLC runs that check them, and proofs for TLAPS.

Paths below are relative to the repository, services to `services/`.

## 1. The system

| component | state it keeps | operations | talks to |
|---|---|---|---|
| gateway (`gateway/`) | response cache in Redis (TTL 1 h), batches of the topic's writer | `POST /v1/chat/completions` | identity, budget (gRPC), provider, Redis, topic `usage.events.v1` |
| budget (`budget/`) | Redis: `rl:*` rate counters, `limit:*` limits; reads `spend:*` | `Allow`, `SetLimit` (gRPC) | Redis, topic `alerts.v1` |
| metering (`metering/`) | group offset, ClickHouse `usage_events`, Redis `spend:*` | consume a usage event | topic, rating (gRPC) or built-in prices, ClickHouse, Redis |
| identity (`identity/`) | Postgres `virtual_keys` | start-up with migration and seed, `Resolve` (gRPC) | Postgres |
| rating (`rating/`) | Postgres `model_prices` | start-up with migration and seed, `Price` (gRPC) | Postgres |
| billing (`billing/`) | Postgres `subscriptions` | start-up with migration and seed, invoice pages, export | Postgres, ClickHouse, Stripe |
| notifier (`notifier/`) | group offset of `alerts.v1` | consume an alert | webhook |
| analytics (`analytics/`) | none | margin, anomalies, forecast, timeseries | ClickHouse, Postgres `subscriptions` |
| dashboard (`dashboard/`) | none | overview, simulate | gateway, analytics, billing |
| shared (`shared/`) | none | HTTP server with graceful stop, event types, spend key | - |

A request goes identity, guardrail, cache, budget, provider, cache fill, usage
event. The event goes through the topic to metering, which adds its cost to the
counter that the next budget check reads. That loop, asynchronous and built of
parts that each fail on their own, is the core of the system and of this project.

What is hard, and where:

* **Interleaving.** `Allow` is up to four Redis commands, and nothing makes them
  atomic; any number of calls, metering and an operator run in between. Requests
  with one prompt race in the cache.
* **Check, then act, much later.** A call is charged only after it has been
  completed, published and consumed. Calls checked meanwhile see the old spend.
* **Delivery.** The topic's writer asks for no acknowledgement and re-sends:
  events are lost and doubled. The consumer commits an offset before it handles
  the message.
* **Partial failure.** One message is priced, inserted and charged in three
  services; each may fail, or succeed and lose its reply.
* **Crashes.** Each process may die between any two of these steps.
* **Starting up.** Three services create and seed their tables when they start. Postgres
  may go down between any two rows; an error of the seed is only logged.
* **Two reads for one answer.** A price is looked up in up to two queries, a page in two
  databases, an overview from two services.
* **Time.** Rate windows close and their keys expire while calls are under way;
  billing months close while events are.

What each component should guarantee: *budget*: the rate cap, no throttling
without cause, a bound on what racing calls overspend; *gateway*: no response
without a granted provider call, no usage lost silently, every request answered;
*metering*: every message is charged once unless something failed, rows and
counter agree in one direction at least; *the loop*: what is consumed reaches the
counter that enforcement reads; *identity*: an outage is no "unknown key"; *rating*: one
price for one usage, and no default price for a known model; *billing*: pages and
exports that leave no usage out and count none twice; *all three*: that they come
back; *notifier*: a denial is heard of; *analytics*: a rule for anomalies that finds some.

## 2. Modules

| module | what it is |
|---|---|
| `Budget` | the budget service, one Redis command per step |
| `Metering` | the consumer between topic, ClickHouse and Redis |
| `Gateway` | the request path, the cache and the topic's writer |
| `MarginPilot` | the three composed |
| `Periods` | billing months, across gateway, metering, budget and billing |
| `Alerts` | a denial's alert: budget's goroutine, the topic, the notifier |
| `Bootstrap` | the life of a service with a seeded table in Postgres |
| `Identity`, `Rating`, `Billing` | the three such services, each extends `Bootstrap` by its calls |
| `Anomalies` | analytics' anomaly rule |
| `Services` | `Identity`, `Rating`, `Billing` and `Anomalies` side by side |
| `Budget_proofs`, `Metering_proofs`, `Gateway_proofs`, `MarginPilot_proofs`, `Periods_proofs`, `Alerts_proofs`, `Services_proofs` | theorems about these seven, proved |
| `SumTheorems` | lemmas about sums over finite sets, and products, which those proofs use |
| `MCBudget`, `MCMetering`, `MCGateway`, `MCMarginPilot`, `MCPeriods`, `MCAlerts`, `MCServices` | instances for TLC |

### Budget

`stage[r]` is the place of RPC `r` in `Enforcer.Allow`: `incr` and `expire` are in
`Store.AllowRate`, `limit` and `spend` the two reads, and the four last values the
ways it ends. `bucket[r]` is computed in `Arrive`, from the clock and before the
first command, as in the code, so that an INCR may reach Redis in a later window.
`IncrLost` is a command whose reply is lost: go-redis sends it again (at most
`Resends` times) or gives up, which is `IncrFails`. The error of EXPIRE is dropped
by the code, so `Expire` may leave the key without a TTL. `ReadSpend` is the read,
the `switch` and the handler's start of the alert goroutine, which `PublishAlert`
ends. `SetLimit` is the RPC. `Crash` ends the calls in flight and loses the alerts
pending. `Tick` moves the clock and expires keys. `Charge` and `ChargeAgain` stand
for metering: they are the assumption about the environment which `MarginPilot`
discharges. Variables named *history* are read by properties only.

### Metering

`stage` is the place of the one goroutine that runs `Consumer.Run`. `ReadMessage`
of a reader with a group is two steps, `Fetch` and `Commit`: the library commits
the offset and then returns the message. `Price`, `Insert` and `IncrBy` are the
calls of `handle`, each with a failing form; `Return` is the end of `handle`, whose
error `Run` logs. A failed insert may have written its row, a lost reply makes the
client send `IncrBy` again. `Crash` and `Start` are the process, `Rejoin` is a new
generation of the consumer group: the reader goes back to the committed offset
while `Run` keeps the message it has. `faults` counts the failures that leave a
message uncharged, and crashes.

### Gateway

`stage[r]` is the place of request `r` in `Proxy`, and in the end its status code
(`gone` when its process died). A prompt is a value; `Guard` is `Policy.Check` and
`Fingerprint` is `cacheKey`, two functions about which nothing is assumed: prompts
may share a key before or after redaction. A response is known by the request
whose provider call made it. `Publish` hands the event to the writer and waits for
its batch; `BatchTaken` and `BatchDone` are the writer: a batch may be appended
more than once, and done with without having been appended. `drops` counts the
events that were due and never reached the topic.

### MarginPilot

`INSTANCE`s of the three, with two shared variables: `log`, appended to by the
gateway and read by metering, and `spend`, added to by metering and read by
budget. `AskBudget` and `Verdict` are the two ends of the RPC; the gateway may give
it up at any time (`AllowFails`) while budget carries on. `Charge` also updates
budget's ledger variables, which makes metering's step one of `Budget`'s
environment steps. That it is one is a property, `BudgetSpec`.

### Periods

Months are a second view of the loop, coarser than the modules above in all but
time: one customer, one clock in days, an event's stages from the gateway's stamp to
the spend counter, and calls of billing's export endpoint. `spend[m]` is the Redis
counter of month `m`, `live` tells whether there is one, `expiry[m]` is its TTL. `IncrBy` and
`Expire` are two commands; go-redis sends each again when its reply is lost (`IncrByLost`,
`ExpireLost`), so that one row may be charged up to `Resends + 1` times (`charges[e]`), and when
it gives up the INCRBY may or may not have taken effect (`IncrByFails`). The error of EXPIRE is
dropped. `ReadCogs` and `Post` are the two calls of `export`, of
ClickHouse and of the billing provider, which dates a meter event when it receives
it. `meter[m]` is its sum for the month, counted also when its answer is lost and the
endpoint reports an error. `MonthOf` is `spend.Period`, and `periodInt` of billing, which
computes the same in another form.

### Alerts

`Deny` is the end of a refusing `Allow`: it starts the goroutine of `emitAlert`. `Publish`
hands the alert to the writer, which owns it from then on, even if the goroutine gives
up after its 3 seconds. `BatchTaken` and `BatchDone` are the writer, as in `Gateway`. The
notifier is a reader as in `Metering`, `Post` and `PostFails` are `postWebhook`. Each failure
and each crash adds the alerts it may have cost to `failed`, and these alone may stay
unheard.

### Bootstrap

`proc` is where `main` stands, the same in the three services: `connect` with its
attempts (ten in the code, `Attempts` here), `migrate`, `seed`, `serve`; `down` is a process that has
ended, which docker-compose starts again. `table[k]` is a revision: 0 for what the seed
wrote, more for what an operator has made of the row with SQL. Statements fail while
Postgres is down (`pg`); the one that an outage interrupts may have taken effect all
the same, which is why `MigrateFails` and `SeedFails` leave two outcomes open. `Insert` is ON
CONFLICT DO NOTHING. Where a seed ends at its first error (rating, billing) and where it
goes on with the next row (identity) is `StopAtError`. An operator with SQL changes rows,
inserts them, those of the seed and early too (`Operate`), and deletes them (`Delete`; `deleted` is
the list). A seed row that was deleted, a demo key that was revoked say, is inserted again by the
next start: `SeedRow` finds no conflict. `lacking` is what this life of the process lacks of its seed, by a failed
insert or a DELETE, `missed` the same over all lives.

### Identity, Rating, Billing

`Identity` has `resolveCaller`'s lookup, from the key to 401, 502 or a caller, and the gateway's
`warmUp`, which gives up after its rounds although its comment says it retries until both
services can be reached. `Rating` has the `Price` call with its two reads, the row of the model
and then `default`, and next to it metering's built-in table, which has the numbers of
the seed and rounds floats where rating divides integers. Rates are in twentieths of a
micro per token, of which all rates of both tables are multiples; a tie may be rounded
either way. An operator's change between the two reads is possible and harmless.
`Billing` has the pages that set subscriptions against costs: billing's invoice for a tenant or a
customer, analytics' margin, and the dashboard's overview, which asks for an invoice and
then for a forecast. `ReadSubs` and `ReadCogs` are the two databases; ClickHouse may
fail at any time. Analytics reads the table of subscriptions when it likes, before billing
has created it too, and then answers 500.

One call at a time is enough in each of them: the calls only read, so what one of many sees
is what it would see alone.

### Anomalies

The days of one customer as a bag of daily spends. `Flagged` is the rule, with mean and
deviation multiplied out; where value and limit are equal the code's floats may fall on
either side, so that `Flagged` is a set of possible answers. Rows come in today or late.

### Services

Identity, rating and billing share Postgres and nothing else: no table, no call. `Services` has a
variable `service`, chosen at the start, for which of them a behaviour shows; so one run has
all four, and no product of their states.

## 3. Runs

| run | question | states |
|---|---|---|
| `budget_rate` | do the rate cap and its absence hold over windows, lost replies, lost EXPIREs? | 274 k |
| `budget_spend` | what can racing calls, charges and limits overspend? | 51 k |
| `metering` | what is lost, doubled, charged without a row; is everything metered in the end? | 181 k |
| `gateway` | is any response free, any usage silently lost? | 27 k |
| `marginpilot` | what is lost end to end; can the counter run ahead of the rows; does the composition implement `Budget`? | 461 k |
| `marginpilot_live` | is every request answered, does consumption reach enforcement? | 121 k |
| `periods` | does each event count in one month, the same one everywhere; can a TTL free a customer? | 1.02 M |
| `alerts` | which denials stay unheard, which are heard twice? | 312 k |
| `services` | what do services answer while their tables are incomplete, what becomes of an operator's changes, do they come back? | 435 k |
| `at_least_once`, `effectively_once`, `payment_required` | three statements of the repository, violated | - |

**`budget_rate`**: 3 calls of one customer, `RateMax` 2, a window of 2 ticks, 4
ticks: two windows, one call over the cap, one re-send. `RateCap` is stated of calls
whose INCR ran inside the window it names. The restriction is real: a call that
computes its window, stalls until the key has expired and then sends its INCR is
granted beyond the cap of a window long closed. `NoFalseThrottle` counts a call
once for each time the client may have sent its INCR.

**`budget_spend`**: 3 calls of one customer, a default limit of 1, an operator who
sets -1 or 2, charges of 0 to 2, one repeated charge. `OverspendBounded` puts a
number on check-then-act: the excess is at most one price per call granted at once
before any was metered, plus the repeats. `GrantWasAffordable` says the two reads
are as good as one: the counter only grows within a month.

**`metering`**: 2 events, one billable and one a cache hit, each in the topic up to
twice, 2 faults, 1 rejoin, 1 re-send. `LossBoundedByFaults`: a committed message
is uncharged only if a failure explains it. `DuplicatesExplained`: a row too many
has a doubled message or a rejoin behind it, never a restart. `MeteredUnlessFault`
is liveness.

**`gateway`**: 3 requests, one whose prompt the guardrail rewrites into that of
another and one that it blocks; doubled batches, two drops, crashes, evictions.

**`marginpilot`, `marginpilot_live`**: 2 requests of one customer
with one prompt, so that both the race and the hit occur, one price, and a limit that
one request uses up, so that the second is granted or denied by the order of events.
One drop, one fault and one rejoin are enough for each way of losing an event to occur
next to an undisturbed one. In `marginpilot` an operator also raises the limit and the
clock moves, at any time. `MCBound` keeps apart what need not meet: the clock and the
operator meet each other, and drop, fault and rejoin meet each other, but none of the
former meets one of the latter. The theorems of `MarginPilot_proofs` have no such bound.
`BudgetSpec` is the refinement: gateway and metering are the environment `Budget` assumes.
`marginpilot_live` allows a fault; a drop would play the same part, by the same count.
The rate windows themselves are the business of `budget_rate`.

**`periods`**: 2 events of different costs, 2 exports, one re-send of each INCRBY, three months of 2 days and a TTL
of 3, which is to the month as 45 days are to 31: a counter charged on the last day
outlives its month, one charged on the first may be read on the last, and one whose
month ended two months ago may be revived by a late event. `RunningCounterComplete`
is what makes a limit last until the month ends. `NoCarryOver` and `ExportCoversCounter` carry
the factor `Resends + 1`: a counter may show a row twice that ClickHouse, and so an export, has
once. `BilledOncePerExport` bounds the bill by the rows of a month, once for each export of
it: the provider adds what it receives, and nothing in the code makes a second export replace
the first. `MCBound` leaves out what adds nothing: a lost event and a failed export, which are no more
than one that never was, and a re-send for both events or together with both exports.

**`alerts`**: 3 alerts, 2 failures or crashes, 1 rejoin, a doubled batch. A crash of the
notifier strikes the alert it holds, a crash of budget all those not yet in the topic.
`SilenceExplained` and `HeardUnlessStruck` say that no other alert pays for it.

**`services`**: 3 seed rows of rating (two models and the default row) and a model it does
not know, 2 demo keys and one of an operator's, 2 tenants with a customer of the same name; each process
has 2 attempts to connect, is stopped once and dies of itself as often as it likes,
and Postgres, down at first, goes down once more at any point. Two such periods are enough
for an interrupted seed to meet a start that fails, and for a running service to meet
an outage. An operator changes each row once, inserts any, and deletes one. `MCBound` keeps apart what need
not meet: a row that is deleted and others that are changed; in billing, two such rows, or one and
rows of usage. It holds back the operator and metering only, of which no fairness is assumed, so that
it cuts short nothing the services owe. The theorems of `Services_proofs` have no such bound.
Token counts 1 and 6 give sums on both sides of the rounding, and on it.
`NoSilentDefault` rests on two choices that look accidental: `default` is the last row of
the seed, and the seed ends at its first error. It is about the default row that the seed wrote, and
models whose row stays: an operator who inserts `default` first, or deletes a model, gets what they
asked for. `RevisionsKept` is the operator's side: a start sets no row back. It takes back
a DELETE, and only if the row is one of the seed. `KnownUnlessMissed` and `SubscribersSeen` say what an
incomplete seed costs, and that nothing else costs it: no outage makes a good key "unknown" or a
subscriber "not found". `LinesBracketed` is the consistency of a page made of two reads.
`SpikesTakeElevenDays` is arithmetic about a rule: a value in a set of n is at most the square
root of n-1 deviations above the mean, so that nothing can be flagged in fewer than ten days,
where the code looks from the third on. 13 days are enough for the rule to go either way.

Bounds are constants of the modules, marked `bound` where they are declared. All
but `MaxCost`, the number of re-sends and the bounds on counters limit only how
often the environment misbehaves. Deadlock is not checked: requests and calls are
finite in number, and each run stops when they are done. Symmetry permutes
calls of one customer, requests of one prompt and price, or exports, and is not used where
liveness is checked.

Every property has a mutant, a change of one definition that a slip in the code
would make (an off-by-one, a missing reset, a retry in the wrong place), written
next to the definition it replaces and marked `Mutant`. TLC finds the property
violated with it.

### What the code does not keep

* `AtLeastOnce`: a comment in `metering/internal/consumer/consumer.go:48` says offsets
  commit after a message is handled. They commit before: a crash, or any error
  of pricer, ClickHouse or Redis, loses the message. `LossBoundedByFaults` is what
  holds instead.
* `EffectivelyOnce`: `docs/ARCHITECTURE.md:49` says inserts dedupe on the event's id.
  The table is a plain MergeTree: a doubled message makes two rows and is charged
  twice. `DuplicatesExplained` is what holds instead.
* `PaymentRequiredMeansOverLimit`: `gateway/internal/app/service.go:20` says
  `ErrBudgetExceeded` means over the spend limit. It is returned to a throttled
  caller as well.

## 4. Fairness

`Metering!FairSpec` is weak fairness of the consumer's steps and of the restart: the
goroutine runs, every call it makes ends well or badly because contexts, client
timeouts or the peer end it, and the container is restarted. `MarginPilot!FairSpec` is
weak fairness of all the services' own work together: while some goroutine can run,
one does. Requests and messages take finitely many steps, so this leaves none behind.
No fairness is assumed of crashes, evictions, rejoins, the clock or an operator, nor
that any call succeeds. `Alerts!Spec` has the same weak fairness of budget's goroutines,
its writer and the notifier with its restart; denials and crashes have none.
`Services!ServicesSpec` has weak fairness of each main, and of the `Price` call under way: `connect` sleeps
and tries again, statements end well or badly, and `restart: unless-stopped` starts a process that
has ended. `ServesAgain` assumes in addition, in its own premise, that Postgres stays up
from some time on. A statement that hangs for ever is not modelled.

## 5. Proofs

All 30 invariants of the passing runs and four of their ten action and temporal properties
are proved as theorems, for all values of the constants that satisfy the assumptions the
modules name. What remains are the liveness properties; see the end of this section.

### Budget_proofs

For any number of calls and customers, any cap, window, limits and prices, from the
assumptions named in `Budget` (the calls are finitely many, each has a customer, bounds are
numbers):

* `TypeCorrect`: `Spec => []TypeOK`.
* `GrantsAffordable`: `Spec => GrantWasAffordable`. Invariant: a call that has read its
  limit and is not in `afford` still sees a spend at or above that limit, because
  only `AddSpend` changes the counter and it only adds.
* `OverspendIsBounded`: `Spec => []OverspendBounded`. The formula is nearly inductive; a grant
  needs in addition that the limit a call holds is at most `ceiling` (`CeilingInv`), so
  that a spend below it is within the headroom, and that `peak` has just been raised to
  the number of unbilled calls.
* `RateCapHolds`: `Spec => []RateCap`. `RateCap` speaks of verdicts and
  says nothing of counters; what is inductive (`RateInv`) is that the counter of a
  window not yet over is at least the number of calls counted in it (`CountBacked`).
  That needs the key not to expire early: a TTL, when set, ends at or after the end
  of the window (`KeyOutlivesWindow`), because a call sends EXPIRE after its window has
  begun (`EnteredInWindow`) and the TTL is a whole window. The cap then follows at the
  INCR, and the verdict only reads what the INCR answered (`GrantNeedsRate`).
* `NobodyElsesTraffic`: `Spec => []NoFalseThrottle`. The verdict's reason
  lies steps back, and its counter may be gone by then. Inductive is that each unit of a counter has
  an attempt of a call of that customer and window behind it (`CountExplained`), and that a call told
  "no" has more than `RateMax` of them (`BlockedExplained`): attempts are only added to. Calls
  times attempts of one call bound them, which is where `Resends + 1` comes from.

### Metering_proofs

For any number of events, copies, faults, rejoins and re-sends:

* `TypeCorrect`: `Spec => []TypeOK`, with the attempts at 0 outside the last stage (`TypeInv`).
* `CounterBackedByRows`: `Spec => []ChargesBackedByRows`. Inductive with the charges that the message in
  hand may still bring: after its insert, as many as the client has attempts left (`ChargesInv`).
* `OneLossPerFault`: `Spec => []LossBoundedByFaults`. The property counts committed messages; inductive
  is the count of all messages the reader or the group has left behind (`Lost`), since a later
  commit covers a message that the reader has run past. Each step loses nothing, or the message in
  hand and then counts a fault.
* `RowsExplained`: `Spec => []DuplicatesExplained`. A commit that straddles a rejoin can move the
  group's offset back, so that several messages are read again. `DuplicatesInv` counts, for each
  event, the copies that only a rejoin can bring up again (`Past`), against its rows and the one that
  is due; a message read twice without a rejoin would be due without a new copy in `Past`.

### Gateway_proofs

For any requests, prompts, guardrail and fingerprints:

* `TypeCorrect`: `Spec => []TypeOK`.
* `ResponsesArePaidFor`: `Spec => []AnswersArePaidFor`. `PaidInv` says it of cache entries too, under their key,
  and of answers from the moment they are set.
* `NoUsageUnaccounted`: `Spec => []UsageAccountedFor`, inductive as it is: a step adds no request to those
  unaccounted for, or as many as it drops events (`DropsCover`).
* `TopicTellsOneStory`: `Spec => []OneStoryPerRequest`. `StoryInv`: events in the topic are those the current answers
  give, and requests with an event no longer change their answer (`SettledStays`).

### Alerts_proofs

For any number of denials, copies, failures and rejoins:

* `TypeCorrect`: `Spec => []TypeOK`.
* `OnlyTheStruckAreSilent`: `Spec => []SilenceExplained`. `SilenceInv`: when a commit is about to be made, all before
  it is heard or struck, and so is whatever a rejoined group has committed before.

* `RepeatsNeedARejoin`: `Spec => []RepeatsExplained`. `RepeatsInv`: the posts taken are within the
  committed offset and within the reader's, but for one post each rejoin. Both are needed: a commit
  that straddles a rejoin moves the committed offset back.

### MarginPilot_proofs

For any number of requests, customers and prompts, any prices, limits, copies, drops, faults and
rejoins:

* `GatewayInTheLoop`, `MeteringInTheLoop`: `Spec => G!Spec`, `Spec => M!Spec`. Each step of the system
  is a step of the gateway's own specification or leaves it alone, and so for metering; so all
  theorems of section 5 about the two hold in the system.
* `BudgetInTheLoop`: `Spec => BudgetSpec`, the refinement. Budget's environment may only charge
  granted calls, at most `MaxCost` at a time, with at most `MaxExtra` repeats. That the gateway
  and metering keep to it takes most of the module: a call whose verdict the gateway has used was
  granted by budget (`GrantInv`); no event is in the topic more often than the writer re-sends
  (`CopiesInv`); budget's ledger says of each request what metering has charged (`LedgerInv`); and
  the charges of one customer are as bounded as the events' copies, rejoins and re-sends make
  them (`ExtraBounded`, by summing `DuplicatesExplained` and `ChargesBackedByRows` of metering
  over the customer's requests).
* `GrantsInTheLoop`, `LoopGrantsAffordable`: with that, the theorems of `Budget_proofs` hold with
  the real gateway and metering in place of the assumed environment.
* `SpendIsBilled`: `Spec => []SpendBackedByRows`. `SpendInv`: the counter is the sum of what the charges
  cost; each event is charged at most `Resends + 1` times per row.
* `NothingLostInBetween`: `Spec => []UnmeteredBounded`. A provider call that is neither charged nor on
  its way was lost before the topic or behind it; the former are at most the drops
  (`NoUsageUnaccounted` of the gateway), the latter at most the faults (`OneLossPerFault` of metering).

### Periods_proofs

For months of any length, any number of events and any finite set of exports, as long as the TTL
is at least a month (45 days against 31 in the code):

* `TypeCorrect`: `Spec => []TypeOK`.
* `NoChargeExpiresInItsMonth`: `Spec => []RunningCounterComplete`, and `NoMonthPaysForAnother`:
  `Spec => []NoCarryOver`. `CounterInv`: the counters of the running month and of later ones are the
  sum of what was added to them, and no TTL ends before its month does; older counters are at most
  that sum; only rows are charged. As Redis applies the INCRBY of a row at most `Resends + 1` times
  (`TypeOK`), the sum is at most so many times what the rows cost.
* `BilledWhatBlocked`: `Spec => ExportCoversCounter`, from the same.
* `OncePerExport`: `Spec => []BilledOncePerExport`. `ExportInv`: over all months the
  provider has received the sum of what the posted exports read, each at most the rows of the month it
  read, whenever it was taken and whatever rows have come since.

### Services_proofs

For any seeds, rates, token counts, keys, subscriptions, accounts and days, and any number of stops,
outages, restarts and an operator's changes, inserts and deletes. Assumed of the constants: rating's seed ends with its only
`default` row and stops at its first error (`CatalogAssumption`); seeds are sequences of keys;
`NoKey` is no key; warmUp has at least one round; subscriptions and accounts are pairs.

The start-up is proved once, for `Life(K, S, F)`, which is `Bootstrap` for any keys, seed and manner of
seeding, and then used three times. `SeedInv`: while `main` seeds, the rows before `at` are in the table
or lacking, and when it serves, all are; `RowsStay`: no step of anybody takes a row away or sets it
back, but for a DELETE, which is on the list.
A behaviour of `Services` is one of the service picked at the start (`RatingAlone` and its like), so that
what holds of each module alone holds there.

* `AllTypesHold`, `SeededBeforeServing`, `ChangesSurviveRestarts`: `AllTypesOK`, `AllServeTheirSeed`,
  `RevisionsKept`, for the three tables.
* `DefaultForStrangersOnly`: `NoSilentDefault`. Inductive are two facts. `CatalogInv`: where the
  seed's own `default` is (`SeedsDefault`), all of the seed is or was deleted. `CallInv`: while a call
  goes on to `default` for a seeded model whose row was not deleted, the seed's `default` is not there;
  the service serves then, so that no insert of the seed comes in between.
* `EitherPricerDoes`: `PricersAgree`, from an arithmetic lemma on rounding (`RoundingGap`).
* `DemoKeysKnown`, `WarmUpMeansIt`: `KnownUnlessMissed`, `WarmMeansUsable`. `LookupInv`: a lookup is under way
  only while identity serves, so it reads a table with the whole seed but for what was missed or deleted.
* `PagesNeverStray`: `LinesBracketed`. `PageInv` and `ShownInv`: what the page was asked at is at most the
  usage now, the customers a page is about have a subscription or had it deleted (`Had`), and the
  invoice's lines are at most what the forecast was asked at.
* `SubscribersBilled`: `SubscribersSeen`. `SeenInv`: the subscriptions billing has read include the seeded
  ones of the tenant but for what was missed.
* `SpikesNeedElevenDays`: `SpikesTakeElevenDays`, for every bag of days. That at most a tenth are
  flagged is the one-sided form of Chebyshev's inequality at three deviations, 1 in 1 + 9. It is
  proved without division: squares of a linear function of the spend, chosen for the first spend that
  stands out, sum up to a known number (`QuadraticSum`, `AboutTheEdge`) and are large on each day that
  stands out (`TailBound`).

### SumTheorems

`SumFunctionOnSet` is defined by recursion over an arbitrary order of the elements. The module shows that
such a recursion has a solution on finite sets and that the order plays no part (`SumAdd`), then how sums
compare, split, scale and add up. The induction is over a set of subsets that is closed under adding an
element (`SetInduction`), which follows from the well-foundedness of strict inclusion.

### Only model-checked

Liveness, which needs reasoning about `ENABLED` and fairness that the prover does not do:
`MeteredUnlessFault`, `EventuallyEnforced`, `EveryRequestAnswered`, `HeardUnlessStruck`, `ServesAgain` and
`PriceEnds`. And the three statements that the code does not keep are refuted by runs, not by proofs.

## 6. Not modelled

* Statements that hang for ever, and a failing statement while Postgres is up.
* The arithmetic of analytics' forecast (days so far against days of the month) and all percentages:
  floating point, rounded for display. Its time series is one query.
* Of the dashboard, the page itself, the parts of the overview that hand on one query, and
  `simulate`, a request of `Gateway`'s with a demo key (for any tenant but `northwind` that of
  `demo-tenant`, whose customer then pays for it).
* Nothing forbids what the code does with a month exported again, or with a row that comes after
  the last export of its month: the first is billed again, the second never.
* A month ending between the two parts of an overview.
* Months in `Budget`, `Metering`, `Gateway` and `MarginPilot`, which keep one billing period;
  several customers, rates and the topic's repeats in `Periods`, which keeps the months.
* The notifier's log line, and alerts without a webhook configured.
* The adapters of a development set-up (stdout publisher, no-op cache, allow-all budget, callers
  from headers).
* Code generated from `proto/`, wording, metrics, logging, JSON.

## 7. Plan

1. *Done:* the modules and proofs listed above.
2. `Alerts` composed with `Budget`, whose `PublishAlert` it refines.
3. An abstract ledger (`consumed`, `charged`, `lost`) that `MarginPilot` implements.
4. *Done:* theorems for every invariant that a run checks, and that `MarginPilot` implements `Budget`.
5. Proofs about the plan's items 2 and 3, once they are there.
