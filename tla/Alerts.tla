------------------------------- MODULE Alerts -------------------------------
(***************************************************************************)
(* From a denied call to the webhook: budget's alert goroutines, their     *)
(* writer, one partition of the alerts topic, and the notifier.            *)
(*                                                                         *)
(*   budget:    none --> started --> queued --> over                       *)
(*   notifier:  fetch --> commit --> post --> fetch                        *)
(*                                                                         *)
(* Budget starts a goroutine for each denial and waits for none of them.   *)
(* The writer of an alert is not told whether the broker has it.  The      *)
(* notifier's reader commits an offset before it returns the message, and  *)
(* a webhook that fails is logged, not called again.                       *)
(***************************************************************************)
EXTENDS Integers, Sequences, FiniteSets, Functions

CONSTANTS Denials,    \* denied calls, an alert each
          MaxCopies,  \* bound: copies of an alert in the topic
          MaxFaults,  \* bound: failures
          MaxRejoins  \* bound: consumer-group generations after the first

ASSUME AlertsAssumption == IsFiniteSet(Denials)
ASSUME BoundAssumption  == {MaxCopies, MaxFaults, MaxRejoins} \subseteq Nat

VARIABLES task,       \* task[a]: where budget stands with alert a
          queue,      \* alerts the writer has taken and is not done with
          topic,      \* the partition, a sequence of alerts
          committed,  \* the group's committed offset
          next,       \* the reader's position: the last message fetched
          stage,      \* where the notifier stands
          held,       \* offset of the message in hand
          heard       \* heard[a]: posts of a that the webhook took

(***************************************************************************)
(* History: nothing in the program reads these.                            *)
(***************************************************************************)
VARIABLES failed,     \* alerts that a failure struck
          faults, rejoins

budgetVars == <<task, queue, topic>>
readerVars == <<committed, next, stage, held>>
vars       == <<budgetVars, readerVars, heard, failed, faults, rejoins>>

----------------------------------------------------------------------------
Alert     == topic[held]
Copies(a) == {o \in 1 .. Len(topic) : topic[o] = a}
Unsent    == {a \in Denials : task[a] \in {"started", "queued"} /\ Copies(a) = {}}

\* A failure strikes the alerts in S.
Strike(S) == faults < MaxFaults /\ faults' = faults + 1 /\ failed' = failed \cup S

Init ==
  /\ task = [a \in Denials |-> "none"] /\ queue = << >> /\ topic = << >>
  /\ committed = 0 /\ next = 0 /\ stage = "fetch" /\ held = 0
  /\ heard = [a \in Denials |-> 0]
  /\ failed = {} /\ faults = 0 /\ rejoins = 0

\* Allow refuses a call: emitAlert starts a goroutine.
Deny(a) ==
  /\ task[a] = "none"
  /\ task' = [task EXCEPT ![a] = "started"]
  /\ UNCHANGED <<queue, topic, readerVars, heard, failed, faults, rejoins>>

(***************************************************************************)
(* The goroutine hands its alert to the writer.  Whether it then waits for *)
(* the batch or gives up after 3 seconds, the batch stays with the writer. *)
(***************************************************************************)
Publish(a) ==
  /\ task[a] = "started"
  /\ task' = [task EXCEPT ![a] = "queued"]
  /\ queue' = Append(queue, a)
  /\ UNCHANGED <<topic, readerVars, heard, failed, faults, rejoins>>

\* The writer is closed, or finds no broker in time: the error is logged.
PublishFails(a) ==
  /\ task[a] = "started" /\ Strike({a})
  /\ task' = [task EXCEPT ![a] = "over"]
  /\ UNCHANGED <<queue, topic, readerVars, heard, rejoins>>

\* The broker appends the batch, again when its reply was lost.
BatchTaken ==
  /\ queue # << >> /\ Cardinality(Copies(Head(queue))) < MaxCopies
  /\ topic' = Append(topic, Head(queue))
  /\ UNCHANGED <<task, queue, readerVars, heard, failed, faults, rejoins>>

\* The writer is done with the batch, which the broker may never have got.
BatchDone ==
  /\ queue # << >>
  /\ queue' = Tail(queue)
  /\ task' = [task EXCEPT ![Head(queue)] = "over"]
  /\ IF Copies(Head(queue)) = {} THEN Strike({Head(queue)}) ELSE UNCHANGED <<failed, faults>>
  /\ UNCHANGED <<topic, readerVars, heard, rejoins>>

\* Budget dies with its goroutines and its writer, and is started again.
BudgetCrash ==
  /\ Strike(Unsent)
  /\ task' = [a \in Denials |-> IF task[a] = "none" THEN "none" ELSE "over"]
  /\ queue' = << >>
  /\ UNCHANGED <<topic, readerVars, heard, rejoins>>

----------------------------------------------------------------------------
\* ReadMessage, first half: the next message is fetched.
Fetch ==
  /\ stage = "fetch" /\ next < Len(topic)
  /\ next' = next + 1 /\ held' = next + 1 /\ stage' = "commit"
  /\ UNCHANGED <<budgetVars, committed, heard, failed, faults, rejoins>>

\* Second half: its offset is committed, and it is returned.
Commit ==
  /\ stage = "commit"
  /\ committed' = held /\ stage' = "post"
  /\ UNCHANGED <<budgetVars, next, held, heard, failed, faults, rejoins>>

\* Mutant: Run returns the error of ReadMessage.
CommitFailsForGood ==
  /\ stage = "commit" /\ Strike({Alert})
  /\ stage' = "returned"
  /\ UNCHANGED <<budgetVars, committed, next, held, heard, rejoins>>

\* ReadMessage returns an error: Run logs it and reads the next message.
CommitFails ==
  /\ stage = "commit" /\ Strike({Alert})
  /\ committed' = held \/ UNCHANGED committed
  /\ stage' = "fetch"
  /\ UNCHANGED <<budgetVars, next, held, heard, rejoins>>

\* The webhook takes the alert and answers below 300.
Post ==
  /\ stage = "post"
  /\ heard' = [heard EXCEPT ![Alert] = @ + 1]
  /\ stage' = "fetch"
  /\ UNCHANGED <<budgetVars, committed, next, held, failed, faults, rejoins>>

\* Mutant: handle posts again after an error.
PostRetried ==
  /\ stage = "post" /\ Strike({Alert})
  /\ heard' = [heard EXCEPT ![Alert] = @ + 1] \/ UNCHANGED heard
  /\ UNCHANGED <<budgetVars, readerVars, rejoins>>

\* An error, a timeout or 300 and above: the webhook may have taken it.
PostFails ==
  /\ stage = "post" /\ Strike({Alert})
  /\ heard' = [heard EXCEPT ![Alert] = @ + 1] \/ UNCHANGED heard
  /\ stage' = "fetch"
  /\ UNCHANGED <<budgetVars, committed, next, held, rejoins>>

\* The notifier stops, with a message that it has committed in hand or not.
Crash ==
  /\ stage # "down" /\ Strike(IF stage = "post" THEN {Alert} ELSE {})
  /\ stage' = "down"
  /\ UNCHANGED <<budgetVars, committed, next, held, heard, rejoins>>

\* Mutants: a reader that starts after the committed message's successor;
\* one that starts at the end of the topic.
StartPastOffset ==
  /\ stage = "down"
  /\ next' = committed + 1 /\ stage' = "fetch"
  /\ UNCHANGED <<budgetVars, committed, held, heard, failed, faults, rejoins>>

StartAtEnd ==
  /\ stage = "down"
  /\ next' = Len(topic) /\ stage' = "fetch"
  /\ UNCHANGED <<budgetVars, committed, held, heard, failed, faults, rejoins>>

\* main builds a new reader, which joins the group.
Start ==
  /\ stage = "down"
  /\ next' = committed /\ stage' = "fetch"
  /\ UNCHANGED <<budgetVars, committed, held, heard, failed, faults, rejoins>>

\* A rebalance: the reader goes back to the committed offset.
Rejoin ==
  /\ stage # "down" /\ rejoins < MaxRejoins
  /\ rejoins' = rejoins + 1
  /\ next' = committed
  /\ UNCHANGED <<budgetVars, committed, stage, held, heard, failed, faults>>

Work ==
  \/ \E a \in Denials : Publish(a) \/ PublishFails(a)
  \/ BatchTaken \/ BatchDone
  \/ Fetch \/ Commit \/ CommitFails \/ Post \/ PostFails \/ Start

Next == Work \/ (\E a \in Denials : Deny(a)) \/ BudgetCrash \/ Crash \/ Rejoin

\* Goroutines run, and a stopped notifier is started again.
Spec == Init /\ [][Next]_vars /\ WF_vars(Work)

----------------------------------------------------------------------------
(***************************************************************************)
(* Every variable stays in its range: the reader never runs past the end   *)
(* of the topic, the group commits no message that is not there.           *)
(***************************************************************************)
TypeOK ==
  /\ task \in [Denials -> {"none", "started", "queued", "over"}]
  /\ queue \in Seq(Denials) /\ topic \in Seq(Denials)
  /\ {committed, next, held} \subseteq 0 .. Len(topic)
  /\ stage \in {"fetch", "commit", "post", "down"}
  /\ heard \in [Denials -> Nat] /\ failed \subseteq Denials
  /\ faults \in 0 .. MaxFaults /\ rejoins \in 0 .. MaxRejoins

(***************************************************************************)
(* A message that the group has committed or the reader has passed, and    *)
(* that the webhook never took, was struck by a failure itself: a restart  *)
(* loses the message in hand and none of its neighbours.                   *)
(***************************************************************************)
Passed(o) ==
  /\ o <= committed \/ (stage # "down" /\ o <= next)
  /\ ~(stage \in {"commit", "post"} /\ o = held)

SilenceExplained ==
  \A o \in 1 .. Len(topic) :
    Passed(o) /\ heard[topic[o]] = 0 => topic[o] \in failed

(***************************************************************************)
(* Posts too many have a doubled message or a rejoin behind them, one      *)
(* each; neither a restart nor a webhook that fails repeats an alert.      *)
(***************************************************************************)
RepeatsExplained == SumFunction(heard) <= Len(topic) + rejoins

(***************************************************************************)
(* Every denial is heard of, unless a failure struck its own alert: the    *)
(* failure of another alert holds nothing up.                              *)
(***************************************************************************)
HeardUnlessStruck ==
  \A a \in Denials : task[a] = "started" ~> heard[a] > 0 \/ a \in failed
=============================================================================
