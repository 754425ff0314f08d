------------------------------ MODULE Metering ------------------------------
(***************************************************************************)
(* The metering service: one consumer that reads usage events off a topic  *)
(* partition, prices each, inserts a row in ClickHouse and adds the cost   *)
(* to the customer's Redis spend counter.                                  *)
(*                                                                         *)
(*    fetch --> commit --> price --> insert --> incr --> fetch             *)
(*                                                                         *)
(* The consumer calls ReadMessage of a reader with a consumer group, which *)
(* fetches a message and commits its offset before it returns the message: *)
(* the commit comes before the handling.                                   *)
(*                                                                         *)
(* Each failure that leaves a message uncharged, and each crash, adds one  *)
(* to faults.  The spend counters are those of one billing period, so the  *)
(* TTL that follows every IncrBy plays no part.                            *)
(***************************************************************************)
EXTENDS Integers, Sequences, FiniteSets

CONSTANTS Events,       \* usage events, one EventID each
          Customers,    \* (tenant, customer) pairs
          CustomerOf,   \* the customer an event names
          Cost,         \* what the pricer answers for an event, in micros
          MaxCopies,    \* bound: copies of an event in the topic
          Resends,      \* bound: go-redis re-sends of a command with no reply
          MaxFaults,    \* bound: failures
          MaxRejoins    \* bound: consumer-group generations after the first

ASSUME EventsAssumption ==
  /\ IsFiniteSet(Events)
  /\ CustomerOf \in [Events -> Customers]
  /\ Cost \in [Events -> Nat]
ASSUME BoundAssumption == {MaxCopies, Resends, MaxFaults, MaxRejoins} \subseteq Nat

VARIABLES log,        \* the topic partition, a sequence of events
          committed,  \* the group's committed offset: messages 1..committed
          next,       \* the reader's position: the last message fetched
          stage,      \* where the consumer stands
          held,       \* offset of the message in hand
          tries,      \* IncrBy commands Redis has applied for it
          rows,       \* rows[e]: rows of e in usage_events
          spend       \* spend[c]: the Redis spend counter

(***************************************************************************)
(* History: nothing in the program reads these.                            *)
(***************************************************************************)
VARIABLES charges,    \* charges[e]: times the cost of e was added
          handled,    \* offsets for which handle has returned
          faults, rejoins

brokerVars == <<log, committed>>
readerVars == <<next, stage, held, tries>>
sinkVars   == <<rows, spend, charges>>
vars       == <<brokerVars, readerVars, sinkVars, handled, faults, rejoins>>

----------------------------------------------------------------------------
InHand == stage \in {"price", "insert", "incr"}
Event  == log[held]

\* The offsets that hold event e.
Copies(e) == {o \in 1 .. Len(log) : log[o] = e}

Init ==
  /\ log = << >> /\ committed = 0
  /\ next = 0 /\ stage = "fetch" /\ held = 0 /\ tries = 0
  /\ rows = [e \in Events |-> 0]
  /\ spend = [c \in Customers |-> 0]
  /\ charges = [e \in Events |-> 0]
  /\ handled = {} /\ faults = 0 /\ rejoins = 0

(***************************************************************************)
(* A copy of an event reaches the topic: the first one, or another when    *)
(* the gateway's writer re-sends a batch that had been taken.              *)
(***************************************************************************)
Append1(e) ==
  /\ Cardinality(Copies(e)) < MaxCopies
  /\ log' = Append(log, e)
  /\ UNCHANGED <<committed, readerVars, sinkVars, handled, faults, rejoins>>

\* ReadMessage, first half: the next message is fetched.
Fetch ==
  /\ stage = "fetch" /\ next < Len(log)
  /\ next' = next + 1
  /\ held' = next + 1
  /\ stage' = "commit"
  /\ UNCHANGED <<brokerVars, tries, sinkVars, handled, faults, rejoins>>

\* Mutant: the commit covers all there is in the topic.
CommitAll ==
  /\ stage = "commit"
  /\ committed' = Len(log)
  /\ stage' = "price"
  /\ UNCHANGED <<log, next, held, tries, sinkVars, handled, faults, rejoins>>

\* ReadMessage, second half: its offset is committed and it is returned.
Commit ==
  /\ stage = "commit"
  /\ committed' = held
  /\ stage' = "price"
  /\ UNCHANGED <<log, next, held, tries, sinkVars, handled, faults, rejoins>>

Fault == faults < MaxFaults /\ faults' = faults + 1

\* Mutant: Run returns the error; the process lives on without a consumer.
CommitFailsForGood ==
  /\ stage = "commit" /\ Fault
  /\ stage' = "returned"
  /\ UNCHANGED <<brokerVars, next, held, tries, sinkVars, handled, rejoins>>

(***************************************************************************)
(* The commit fails, with or without effect: ReadMessage returns an error  *)
(* and no message, Run logs it and reads on past the message.              *)
(***************************************************************************)
CommitFails ==
  /\ stage = "commit" /\ Fault
  /\ \/ committed' = held
     \/ UNCHANGED committed
  /\ stage' = "fetch"
  /\ UNCHANGED <<log, next, held, tries, sinkVars, handled, rejoins>>

Price ==
  /\ stage = "price"
  /\ stage' = "insert"
  /\ UNCHANGED <<brokerVars, next, held, tries, sinkVars, handled, faults, rejoins>>

\* handle returns, with or without an error: Run logs an error and reads on.
Return ==
  /\ stage' = "fetch"
  /\ handled' = handled \cup {held}
  /\ tries' = 0

\* The payload cannot be decoded or the pricer answers with an error.
PriceFails ==
  /\ stage = "price" /\ Fault /\ Return
  /\ UNCHANGED <<brokerVars, next, held, sinkVars, rejoins>>

\* A MergeTree takes every row it is sent: there is no key to dedupe on.
AddRow(e) == rows' = [rows EXCEPT ![e] = @ + 1]

Insert ==
  /\ stage = "insert" /\ AddRow(Event)
  /\ stage' = "incr"
  /\ UNCHANGED <<brokerVars, next, held, tries, spend, charges, handled, faults, rejoins>>

\* Mutant: a failed insert does not keep the cost from being added.
InsertFailureIgnored ==
  /\ stage = "insert" /\ Fault
  /\ stage' = "incr"
  /\ UNCHANGED <<brokerVars, next, held, tries, sinkVars, handled, rejoins>>

\* The batch fails, before or after ClickHouse took the row.
InsertFails ==
  /\ stage = "insert" /\ Fault /\ Return
  /\ AddRow(Event) \/ UNCHANGED rows
  /\ UNCHANGED <<brokerVars, next, held, spend, charges, rejoins>>

\* One IncrBy takes effect in Redis.
ApplyIncrBy(e) ==
  /\ stage = "incr" /\ tries <= Resends
  /\ spend' = [spend EXCEPT ![CustomerOf[e]] = @ + Cost[e]]
  /\ charges' = [charges EXCEPT ![e] = @ + 1]
  /\ UNCHANGED <<brokerVars, next, held, rows, faults, rejoins>>

IncrBy == ApplyIncrBy(Event) /\ Return

\* The reply is lost: the Redis client sends the command again, or gives up.
IncrByLost ==
  /\ ApplyIncrBy(Event)
  /\ tries' = tries + 1
  /\ UNCHANGED <<stage, handled>>

\* Mutant: the message is handled again from the start.
IncrByRetried ==
  /\ stage = "incr" /\ Fault
  /\ stage' = "price"
  /\ UNCHANGED <<brokerVars, next, held, tries, sinkVars, handled, rejoins>>

\* Redis is given up on.  The message is lost if no attempt took effect.
IncrByFails ==
  /\ stage = "incr" /\ Return
  /\ \/ tries = 0 /\ Fault
     \/ tries > 0 /\ UNCHANGED faults
  /\ UNCHANGED <<brokerVars, next, held, sinkVars, rejoins>>

\* The process dies, or is stopped: main does not wait for the consumer.
Crash ==
  /\ stage # "down" /\ Fault
  /\ stage' = "down" /\ tries' = 0
  /\ UNCHANGED <<brokerVars, next, held, sinkVars, handled, rejoins>>

\* Mutants: the reader resumes one past its offset; it resumes at the end.
StartPastOffset ==
  /\ stage = "down"
  /\ stage' = "fetch"
  /\ next' = committed + 1
  /\ UNCHANGED <<brokerVars, held, tries, sinkVars, handled, faults, rejoins>>

StartAtEnd ==
  /\ stage = "down"
  /\ stage' = "fetch"
  /\ next' = Len(log)
  /\ UNCHANGED <<brokerVars, held, tries, sinkVars, handled, faults, rejoins>>

Start ==
  /\ stage = "down"
  /\ stage' = "fetch"
  /\ next' = committed
  /\ UNCHANGED <<brokerVars, held, tries, sinkVars, handled, faults, rejoins>>

(***************************************************************************)
(* The group gets a new generation: the reader resumes at the committed    *)
(* offset, while Run goes on with the message it has in hand.              *)
(***************************************************************************)
Rejoin ==
  /\ stage # "down" /\ rejoins < MaxRejoins
  /\ rejoins' = rejoins + 1
  /\ next' = committed
  /\ UNCHANGED <<brokerVars, stage, held, tries, sinkVars, handled, faults>>

\* Every call of the consumer ends, well or badly.
ConsumerStep ==
  \/ Fetch \/ Commit \/ CommitFails
  \/ Price \/ PriceFails \/ Insert \/ InsertFails
  \/ IncrBy \/ IncrByLost \/ IncrByFails

Next ==
  \/ \E e \in Events : Append1(e)
  \/ ConsumerStep
  \/ Crash \/ Start \/ Rejoin

Spec     == Init /\ [][Next]_vars
FairSpec == Spec /\ WF_vars(ConsumerStep) /\ WF_vars(Start)

----------------------------------------------------------------------------
(***************************************************************************)
(* Every variable stays in its range; the message in hand is one of the    *)
(* topic.  (The committed offset may pass the reader's position, and may   *)
(* move back, when a commit straddles a rejoin.)                           *)
(***************************************************************************)
TypeOK ==
  /\ log \in Seq(Events)
  /\ stage \in {"fetch", "commit", "price", "insert", "incr", "down"}
  /\ {committed, next, held} \subseteq 0 .. Len(log)
  /\ stage \in {"commit", "price", "insert", "incr"} => held > 0
  /\ tries \in 0 .. Resends + 1
  /\ {rows, charges} \subseteq [Events -> Nat]
  /\ spend \in [Customers -> Nat]
  /\ handled \subseteq 1 .. Len(log)
  /\ faults \in 0 .. MaxFaults /\ rejoins \in 0 .. MaxRejoins

(***************************************************************************)
(* Committing before handling loses messages, but never more than one per  *)
(* failure: the offsets that are committed, out of hand and of an event    *)
(* that was never charged are at most the faults so far.                   *)
(***************************************************************************)
LossBoundedByFaults ==
  Cardinality({o \in 1 .. committed : charges[log[o]] = 0 /\ ~(InHand /\ held = o)})
    <= faults

(***************************************************************************)
(* The counter that blocks a customer never runs ahead of the rows that    *)
(* bill it: an event is charged only after a row of it exists, and at most *)
(* once per row and attempt of the Redis client.                           *)
(***************************************************************************)
ChargesBackedByRows ==
  \A e \in Events : charges[e] <= (Resends + 1) * rows[e]

(***************************************************************************)
(* A row is duplicated only by a second copy in the topic or by a rejoin:  *)
(* failures and restarts alone never deliver a message to handle twice.    *)
(***************************************************************************)
DuplicatesExplained ==
  \A e \in Events : rows[e] <= Cardinality(Copies(e)) + rejoins

(***************************************************************************)
(* Only a fault loses an event: a message that a running reader has not    *)
(* passed yet is charged in the end, or something fails.  No message,      *)
(* failure or rejoin makes the consumer stop.                              *)
(***************************************************************************)
Unread(e) == stage # "down" /\ \E o \in next + 1 .. Len(log) : log[o] = e

MeteredUnlessFault ==
  \A e \in Events : \A k \in 0 .. MaxFaults :
    Unread(e) /\ faults = k ~> charges[e] > 0 \/ faults > k

----------------------------------------------------------------------------
(***************************************************************************)
(* What the comment on Run says: offsets commit only after a message is    *)
(* handled, giving at-least-once delivery.  Every committed message has    *)
(* been handled, or is being handled.                                      *)
(***************************************************************************)
AtLeastOnce == \A o \in 1 .. committed : o \in handled \/ (InHand /\ held = o)

(***************************************************************************)
(* What ARCHITECTURE.md says: ClickHouse inserts dedupe on EventID, giving *)
(* effectively-once semantics.  No event has two rows.                     *)
(***************************************************************************)
EffectivelyOnce == \A e \in Events : rows[e] <= 1
=============================================================================
