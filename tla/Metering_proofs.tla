--------------------------- MODULE Metering_proofs ---------------------------
(***************************************************************************)
(* Theorems about the metering consumer, for any number of events and      *)
(* customers, any prices and any number of copies, failures and rejoins.   *)
(***************************************************************************)
EXTENDS Metering, FiniteSetTheorems, TLAPS

USE EventsAssumption, BoundAssumption

----------------------------------------------------------------------------
(***************************************************************************)
(* Types.  TypeOK is not inductive alone: a message starts with no IncrBy  *)
(* applied for it, so that the attempts stay within what the client makes. *)
(***************************************************************************)
TypeInv == TypeOK /\ (stage # "incr" => tries = 0)

\* Offsets, positions and counts are whole numbers.
LEMMA Offsets ==
  ASSUME TypeInv
  PROVE  /\ committed \in Nat /\ next \in Nat /\ held \in Nat /\ Len(log) \in Nat
         /\ committed <= Len(log) /\ next <= Len(log) /\ held <= Len(log)
         /\ tries \in Nat /\ tries <= Resends + 1 /\ Resends \in Nat
         /\ faults \in Nat /\ rejoins \in Nat /\ log \in Seq(Events)
<1>1. log \in Seq(Events) /\ Len(log) \in Nat
  BY DEF TypeInv, TypeOK
<1>2. committed \in 0 .. Len(log) /\ next \in 0 .. Len(log) /\ held \in 0 .. Len(log)
  BY DEF TypeInv, TypeOK
<1>3. tries \in 0 .. Resends + 1 /\ faults \in 0 .. MaxFaults /\ rejoins \in 0 .. MaxRejoins
  BY DEF TypeInv, TypeOK
<1> QED
  BY <1>1, <1>2, <1>3

\* The message in hand is an event of the topic.
LEMMA EventType ==
  ASSUME TypeInv, stage \in {"commit", "price", "insert", "incr"}
  PROVE  Event \in Events /\ held \in 1 .. Len(log)
<1>1. held \in 1 .. Len(log)
  BY DEF TypeInv, TypeOK
<1> QED
  BY <1>1 DEF TypeInv, TypeOK, Event

LEMMA FaultType == ASSUME TypeInv, Fault PROVE faults' \in 0 .. MaxFaults
  BY SMT DEF TypeInv, TypeOK, Fault

LEMMA ReturnType ==
  ASSUME TypeInv, stage \in {"price", "insert", "incr"}, Return
  PROVE  handled' \subseteq 1 .. Len(log) /\ tries' = 0
<1>1. held \in 1 .. Len(log)
  BY EventType
<1> QED
  BY <1>1 DEF TypeInv, TypeOK, Return

LEMMA AddRowType ==
  ASSUME TypeInv, NEW e \in Events, AddRow(e) PROVE rows' \in [Events -> Nat]
<1>1. rows \in [Events -> Nat]
  BY DEF TypeInv, TypeOK
<1> QED
  BY <1>1 DEF AddRow

LEMMA IncrByType ==
  ASSUME TypeInv, NEW e \in Events, ApplyIncrBy(e)
  PROVE  charges' \in [Events -> Nat] /\ spend' \in [Customers -> Nat]
<1>1. charges \in [Events -> Nat] /\ spend \in [Customers -> Nat]
  BY DEF TypeInv, TypeOK
<1>2. CustomerOf[e] \in Customers /\ Cost[e] \in Nat
  OBVIOUS
<1>3. spend[CustomerOf[e]] + Cost[e] \in Nat /\ charges[e] + 1 \in Nat
  BY <1>1, <1>2
<1> QED
  BY <1>1, <1>2, <1>3 DEF ApplyIncrBy

LEMMA TypeStep == TypeInv /\ [Next]_vars => TypeInv'
<1> SUFFICES ASSUME TypeInv, [Next]_vars PROVE TypeInv'
  OBVIOUS
<1> USE DEF TypeInv, brokerVars, readerVars, sinkVars
<1>0. 0 \in 0 .. Resends + 1
  BY SMT
<1>1. ASSUME NEW e \in Events, Append1(e) PROVE TypeInv'
  <2>0. log \in Seq(Events) /\ log' = Append(log, e)
    BY <1>1 DEF Append1, TypeOK
  <2>1. log' \in Seq(Events) /\ Len(log') = Len(log) + 1 /\ Len(log) \in Nat
    BY <2>0
  <2>2. {committed, next, held} \subseteq 0 .. Len(log')
    <3>1. {committed, next, held} \subseteq 0 .. Len(log) + 1
      BY Offsets
    <3> QED
      BY <2>1, <3>1
  <2>3. handled \subseteq 1 .. Len(log')
    <3>1. 1 .. Len(log) \subseteq 1 .. Len(log')
      BY <2>1
    <3> QED
      BY <3>1 DEF TypeOK
  <2>4. UNCHANGED <<committed, readerVars, sinkVars, handled, faults, rejoins>>
    BY <1>1 DEF Append1
  <2> QED
    BY <2>1, <2>2, <2>3, <2>4 DEF TypeOK
<1>2. CASE Fetch
  <2>0. /\ next \in Nat /\ Len(log) \in Nat /\ committed \in 0 .. Len(log)
        /\ next < Len(log) /\ committed' = committed /\ next' = next + 1 /\ held' = next + 1
    BY <1>2, Offsets DEF Fetch
  <2>1. next + 1 \in 0 .. Len(log) /\ next + 1 > 0
    BY <2>0
  <2>2. {committed', next', held'} \subseteq 0 .. Len(log) /\ held' > 0
    BY <2>0, <2>1
  <2> QED
    BY <1>2, <2>2 DEF Fetch, TypeOK
<1>3. CASE Commit
  BY <1>3 DEF Commit, TypeOK
<1>4. CASE CommitFails
  BY <1>4, FaultType DEF CommitFails, TypeOK
<1>5. CASE Price
  BY <1>5 DEF Price, TypeOK
<1>6. CASE PriceFails
  BY <1>0, <1>6, FaultType, ReturnType DEF PriceFails, Return, TypeOK
<1>7. CASE Insert
  BY <1>7, EventType, AddRowType DEF Insert, TypeOK
<1>8. CASE InsertFails
  <2>1. rows' \in [Events -> Nat]
    BY <1>8, EventType, AddRowType DEF InsertFails, TypeOK
  <2> QED
    BY <1>0, <1>8, <2>1, FaultType, ReturnType DEF InsertFails, Return, TypeOK
<1>9. CASE IncrBy \/ IncrByLost
  <2>1. stage = "incr" /\ tries <= Resends /\ Event \in Events
    BY <1>9, EventType DEF IncrBy, IncrByLost, ApplyIncrBy
  <2>2. charges' \in [Events -> Nat] /\ spend' \in [Customers -> Nat]
    BY <1>9, <2>1, IncrByType DEF IncrBy, IncrByLost
  <2>3. CASE IncrBy
    BY <1>0, <2>1, <2>2, <2>3, ReturnType DEF IncrBy, ApplyIncrBy, Return, TypeOK
  <2>4. CASE IncrByLost
    <3>1. tries' = tries + 1 /\ tries \in Nat /\ Resends \in Nat
      BY <2>4, Offsets DEF IncrByLost
    <3>2. tries' \in 0 .. Resends + 1
      BY <2>1, <3>1
    <3> QED
      BY <2>1, <2>2, <2>4, <3>2 DEF IncrByLost, ApplyIncrBy, TypeOK
  <2> QED
    BY <1>9, <2>3, <2>4
<1>10. CASE IncrByFails
  <2>1. faults' \in 0 .. MaxFaults
    BY <1>10, FaultType DEF IncrByFails, TypeOK
  <2> QED
    BY <1>0, <1>10, <2>1, ReturnType DEF IncrByFails, Return, TypeOK
<1>11. CASE Crash
  BY <1>0, <1>11, FaultType DEF Crash, TypeOK
<1>12. CASE Start
  BY <1>12 DEF Start, TypeOK
<1>13. CASE Rejoin
  <2>1. rejoins' \in 0 .. MaxRejoins
    BY <1>13, SMT DEF Rejoin, TypeOK
  <2> QED
    BY <1>13, <2>1 DEF Rejoin, TypeOK
<1>14. CASE UNCHANGED vars
  BY <1>14 DEF vars, TypeOK
<1> QED
  BY <1>1, <1>2, <1>3, <1>4, <1>5, <1>6, <1>7, <1>8, <1>9, <1>10, <1>11, <1>12, <1>13, <1>14
     DEF Next, ConsumerStep

LEMMA TypeInvHolds == Spec => []TypeInv
<1>1. Init => TypeInv
  <2>1. 0 \in 0 .. MaxFaults /\ 0 \in 0 .. MaxRejoins /\ 0 \in 0 .. Resends + 1
    BY SMT
  <2> QED
    BY <2>1 DEF Init, TypeInv, TypeOK
<1> QED
  BY <1>1, TypeStep, PTL DEF Spec

\* The message in hand is one of the topic, and Redis applies the IncrBy of
\* a message at most once per attempt.
THEOREM TypeCorrect == Spec => []TypeOK
<1>1. TypeInv => TypeOK
  BY DEF TypeInv
<1> QED
  BY <1>1, TypeInvHolds, PTL

----------------------------------------------------------------------------
(***************************************************************************)
(* Charges.  ChargesBackedByRows is not inductive: it does not say how     *)
(* many charges the message in hand may still bring.  Once its row is      *)
(* there, those are the attempts the Redis client has left.                *)
(***************************************************************************)
Attempts == Resends + 1

ChargesInv ==
  /\ \A e \in Events : charges[e] <= Attempts * rows[e]
  /\ stage = "incr" => charges[Event] + (Attempts - tries) <= Attempts * rows[Event]

\* One more row pays for one more round of attempts.
LEMMA OneMoreRow ==
  ASSUME NEW n \in Nat
  PROVE  Attempts * n \in Nat /\ Attempts * (n + 1) = Attempts * n + Attempts
<1>1. Attempts \in Nat
  BY SMT DEF Attempts
<1>2. \A k \in Nat : k * n \in Nat /\ k * (n + 1) = k * n + k
  BY SMT
<1> QED
  BY <1>1, <1>2

\* The steps that touch neither rows nor charges, nor enter the last stage.
LEMMA ChargesStay ==
  ASSUME TypeInv, ChargesInv, UNCHANGED <<rows, charges>>,
         stage' = "incr" => UNCHANGED <<stage, tries>> /\ Event' = Event
  PROVE  ChargesInv'
  BY DEF ChargesInv, Attempts

LEMMA ChargesStep == TypeInv /\ ChargesInv /\ [Next]_vars => ChargesInv'
<1> SUFFICES ASSUME TypeInv, ChargesInv, [Next]_vars PROVE ChargesInv'
  OBVIOUS
<1>0. /\ rows \in [Events -> Nat] /\ charges \in [Events -> Nat]
      /\ Attempts \in Nat /\ Attempts = Resends + 1 /\ tries \in Nat /\ tries <= Attempts
  <2>1. rows \in [Events -> Nat] /\ charges \in [Events -> Nat]
    BY DEF TypeInv, TypeOK
  <2> QED
    BY <2>1, Offsets DEF Attempts
<1>1. ASSUME NEW e \in Events, Append1(e) PROVE ChargesInv'
  <2>1. log' = Append(log, e) /\ UNCHANGED <<stage, held, tries, rows, charges>>
    BY <1>1 DEF Append1, readerVars, sinkVars
  <2>2. stage = "incr" => Event' = Event
    BY <2>1, EventType, Offsets DEF Event
  <2> QED
    BY <2>1, <2>2, ChargesStay
<1>2. CASE Fetch \/ Commit \/ CommitFails \/ Price \/ PriceFails \/ IncrByFails
           \/ Crash \/ Start
  <2>1. stage' # "incr" /\ UNCHANGED <<rows, charges>>
    BY <1>2 DEF Fetch, Commit, CommitFails, Price, PriceFails, IncrByFails, Crash, Start,
                Return, sinkVars
  <2> QED
    BY <2>1, ChargesStay
<1>3. CASE Insert
  <2>1. /\ Event \in Events /\ rows' = [rows EXCEPT ![Event] = @ + 1]
        /\ stage = "insert" /\ UNCHANGED <<tries, charges>> /\ Event' = Event
    BY <1>3, EventType DEF Insert, AddRow, brokerVars, Event
  <2>2. /\ rows'[Event] = rows[Event] + 1 /\ tries = 0
        /\ \A e \in Events : e # Event => rows'[e] = rows[e]
    BY <1>0, <2>1 DEF TypeInv
  <2>3. charges[Event] + Attempts <= Attempts * rows'[Event]
    BY <1>0, <2>1, <2>2, OneMoreRow DEF ChargesInv
  <2>4. \A e \in Events : charges[e] <= Attempts * rows'[e]
    <3>1. charges[Event] <= Attempts * rows'[Event]
      BY <1>0, <2>1, <2>2, <2>3, OneMoreRow
    <3> QED
      BY <2>2, <3>1 DEF ChargesInv
  <2> QED
    BY <1>0, <2>1, <2>2, <2>3, <2>4 DEF ChargesInv, Attempts
<1>4. CASE InsertFails
  <2>1. /\ Event \in Events /\ stage' = "fetch" /\ charges' = charges
        /\ rows' = rows \/ rows' = [rows EXCEPT ![Event] = @ + 1]
    BY <1>4, EventType DEF InsertFails, AddRow, Return
  <2>2. \A e \in Events : rows'[e] = rows[e] \/ rows'[e] = rows[e] + 1
    BY <1>0, <2>1
  <2>3. \A e \in Events : charges[e] <= Attempts * rows'[e]
    <3> TAKE e \in Events
    <3>1. charges[e] <= Attempts * rows[e]
      BY DEF ChargesInv
    <3>2. CASE rows'[e] = rows[e] + 1
      <4>1. charges[e] \in Nat /\ rows[e] \in Nat
        BY <1>0
      <4>2. Attempts * rows[e] \in Nat /\ Attempts * (rows[e] + 1) = Attempts * rows[e] + Attempts
        BY <4>1, OneMoreRow
      <4> QED
        BY <1>0, <3>1, <3>2, <4>1, <4>2
    <3> QED
      BY <2>2, <3>1, <3>2
  <2> QED
    BY <2>1, <2>3 DEF ChargesInv, Attempts
<1>5. CASE IncrBy \/ IncrByLost
  <2>1. /\ Event \in Events /\ stage = "incr" /\ tries <= Resends
        /\ charges' = [charges EXCEPT ![Event] = @ + 1] /\ rows' = rows /\ Event' = Event
        /\ stage' = "fetch" \/ tries' = tries + 1
    BY <1>5, EventType DEF IncrBy, IncrByLost, ApplyIncrBy, Return, Event, brokerVars
  <2>2. /\ charges'[Event] = charges[Event] + 1
        /\ \A e \in Events : e # Event => charges'[e] = charges[e]
    BY <1>0, <2>1
  <2>3. Attempts * rows[Event] \in Nat
    BY <1>0, <2>1, OneMoreRow
  <2>4. charges[Event] + (Attempts - tries) <= Attempts * rows[Event]
    BY <2>1 DEF ChargesInv
  <2>5. /\ charges'[Event] <= Attempts * rows[Event]
        /\ tries' = tries + 1 => charges'[Event] + (Attempts - tries') <= Attempts * rows[Event]
    BY <1>0, <2>1, <2>2, <2>3, <2>4
  <2>6. \A e \in Events : charges'[e] <= Attempts * rows'[e]
    BY <2>1, <2>2, <2>5 DEF ChargesInv
  <2> QED
    BY <2>1, <2>5, <2>6 DEF ChargesInv, Attempts
<1>6. CASE Rejoin \/ UNCHANGED vars
  <2>1. UNCHANGED <<log, stage, held, tries, rows, charges>>
    BY <1>6 DEF Rejoin, vars, brokerVars, readerVars, sinkVars
  <2> QED
    BY <2>1, ChargesStay DEF Event
<1> QED
  BY <1>1, <1>2, <1>3, <1>4, <1>5, <1>6 DEF Next, ConsumerStep

LEMMA ChargesInvHolds == Spec => []ChargesInv
<1>1. Init => ChargesInv
  <2>1. \A k \in Nat : 0 <= k * 0
    BY SMT
  <2>2. Attempts \in Nat
    BY SMT DEF Attempts
  <2> QED
    BY <2>1, <2>2 DEF Init, ChargesInv
<1> QED
  BY <1>1, ChargesStep, TypeInvHolds, PTL DEF Spec

\* The spend counter never runs ahead of the rows that bill the customer by
\* more than the attempts the Redis client makes of one command.
THEOREM CounterBackedByRows == Spec => []ChargesBackedByRows
<1>1. ChargesInv => ChargesBackedByRows
  BY DEF ChargesInv, ChargesBackedByRows, Attempts
<1> QED
  BY <1>1, ChargesInvHolds, PTL

----------------------------------------------------------------------------
(***************************************************************************)
(* Losses.  A message is lost when the reader or the group has left it     *)
(* behind, its event was never charged and it is not at hand.              *)
(* LossBoundedByFaults counts the committed ones only; inductive is the    *)
(* count of all of them, since the next commit covers whatever the reader  *)
(* has run past.                                                           *)
(***************************************************************************)
LeftBehind(o) ==
  \/ o <= committed
  \/ stage # "down" /\ o <= next
  \/ stage = "commit" /\ o < held

AtHand(o) == o = held /\ (InHand \/ (stage = "commit" /\ held > committed))

Lost == {o \in 1 .. Len(log) : LeftBehind(o) /\ charges[log[o]] = 0 /\ ~AtHand(o)}

LossInv ==
  /\ Cardinality(Lost) <= faults
  /\ stage = "incr" /\ tries > 0 => charges[Event] > 0

LEMMA LostFinite ==
  ASSUME TypeInv PROVE IsFiniteSet(Lost) /\ Cardinality(Lost) \in Nat
<1>1. IsFiniteSet(1 .. Len(log))
  BY Offsets, FS_Interval
<1> QED
  BY <1>1, FS_Subset, FS_CardinalityType DEF Lost

\* A step that loses nothing, and one that loses the message in hand.
LEMMA NothingLost ==
  ASSUME TypeInv, LossInv, Lost' \subseteq Lost, faults' = faults \/ faults' = faults + 1
  PROVE  Cardinality(Lost') <= faults'
<1>1. Cardinality(Lost') \in Nat /\ Cardinality(Lost') <= Cardinality(Lost)
  BY LostFinite, FS_Subset, FS_CardinalityType
<1>2. Cardinality(Lost) \in Nat /\ faults \in Nat /\ Cardinality(Lost) <= faults
  BY LostFinite, Offsets DEF LossInv
<1> QED
  BY <1>1, <1>2

LEMMA HeldLost ==
  ASSUME TypeInv, LossInv, Lost' \subseteq Lost \cup {held}, faults' = faults + 1
  PROVE  Cardinality(Lost') <= faults'
<1>1. /\ IsFiniteSet(Lost \cup {held})
      /\ Cardinality(Lost \cup {held}) <= Cardinality(Lost) + 1
  <2>1. IsFiniteSet(Lost) /\ Cardinality(Lost) \in Nat
    BY LostFinite
  <2>2. /\ IsFiniteSet(Lost \cup {held})
        /\ Cardinality(Lost \cup {held})
             = IF held \in Lost THEN Cardinality(Lost) ELSE Cardinality(Lost) + 1
    BY <2>1, FS_AddElement
  <2> QED
    BY <2>1, <2>2
<1>2. Cardinality(Lost \cup {held}) \in Nat
  BY <1>1, FS_CardinalityType
<1>3. Cardinality(Lost') \in Nat /\ Cardinality(Lost') <= Cardinality(Lost \cup {held})
  BY <1>1, FS_Subset, FS_CardinalityType
<1>4. Cardinality(Lost) \in Nat /\ faults \in Nat /\ Cardinality(Lost) <= faults
  BY LostFinite, Offsets DEF LossInv
<1> QED
  BY <1>1, <1>2, <1>3, <1>4

LEMMA LossStep == TypeInv /\ LossInv /\ [Next]_vars => LossInv'
<1> SUFFICES ASSUME TypeInv, LossInv, [Next]_vars PROVE LossInv'
  OBVIOUS
<1>0. /\ charges \in [Events -> Nat]
      /\ \A o \in 1 .. Len(log) : log[o] \in Events /\ charges[log[o]] \in Nat
  <2>1. charges \in [Events -> Nat]
    BY DEF TypeInv, TypeOK
  <2>2. log \in Seq(Events)
    BY Offsets
  <2>3. \A o \in 1 .. Len(log) : log[o] \in Events
    BY <2>2
  <2> QED
    BY <2>1, <2>3
<1>1. ASSUME NEW e \in Events, Append1(e) PROVE LossInv'
  <2>1. log' = Append(log, e)
        /\ UNCHANGED <<committed, next, stage, held, tries, charges, faults>>
    BY <1>1 DEF Append1, readerVars, sinkVars
  <2>2. /\ Len(log') = Len(log) + 1
        /\ \A o \in 1 .. Len(log) : log'[o] = log[o]
    BY <2>1, Offsets
  <2>3. \A o \in 1 .. Len(log') : LeftBehind(o) => o \in 1 .. Len(log)
    BY <2>2, Offsets DEF LeftBehind
  <2>4. Lost' \subseteq Lost
    BY <2>1, <2>2, <2>3 DEF Lost, LeftBehind, AtHand, InHand
  <2>5. stage = "incr" => Event' = Event
    BY <2>1, <2>2, EventType DEF Event
  <2> QED
    BY <2>1, <2>4, <2>5, NothingLost DEF LossInv
<1>2. CASE Fetch
  <2>1. /\ UNCHANGED <<log, committed, charges, faults>>
        /\ stage = "fetch" /\ stage' = "commit" /\ next' = next + 1 /\ held' = next + 1
    BY <1>2 DEF Fetch, brokerVars, sinkVars
  <2>2. Lost' \subseteq Lost
    BY <2>1, Offsets DEF Lost, LeftBehind, AtHand, InHand
  <2> QED
    BY <2>1, <2>2, NothingLost DEF LossInv
<1>3. CASE Commit
  <2>1. /\ UNCHANGED <<log, next, held, charges, faults>>
        /\ stage = "commit" /\ stage' = "price" /\ committed' = held
    BY <1>3 DEF Commit, sinkVars
  <2>2. Lost' \subseteq Lost
    BY <2>1, Offsets DEF Lost, LeftBehind, AtHand, InHand
  <2> QED
    BY <2>1, <2>2, NothingLost DEF LossInv
<1>4. CASE CommitFails
  <2>1. /\ UNCHANGED <<log, next, held, charges>> /\ faults' = faults + 1
        /\ stage = "commit" /\ stage' = "fetch" /\ committed' \in {held, committed}
    BY <1>4 DEF CommitFails, Fault, sinkVars
  <2>2. \A o \in 1 .. Len(log) : LeftBehind(o)' => LeftBehind(o) \/ o = held
    <3>1. held \in Nat /\ committed \in Nat /\ next \in Nat
      BY Offsets
    <3> QED
      BY <2>1, <3>1 DEF LeftBehind
  <2>3. \A o : AtHand(o) => o = held
    BY DEF AtHand
  <2>4. Lost' \subseteq Lost \cup {held}
    BY <2>1, <2>2, <2>3 DEF Lost
  <2> QED
    BY <2>1, <2>4, HeldLost DEF LossInv
<1>5. CASE Price \/ Insert
  <2>1. /\ UNCHANGED <<log, committed, next, held, tries, charges, faults>>
        /\ stage \in {"price", "insert"} /\ stage' \in {"insert", "incr"} /\ tries = 0
    BY <1>5 DEF Price, Insert, brokerVars, sinkVars, TypeInv
  <2>2. Lost' \subseteq Lost
    BY <2>1 DEF Lost, LeftBehind, AtHand, InHand
  <2> QED
    BY <2>1, <2>2, NothingLost DEF LossInv
<1>6. CASE PriceFails \/ InsertFails \/ (IncrByFails /\ tries = 0)
  <2>1. /\ UNCHANGED <<log, committed, next, held, charges>> /\ faults' = faults + 1
        /\ stage \in {"price", "insert", "incr"} /\ stage' = "fetch"
    BY <1>6 DEF PriceFails, InsertFails, IncrByFails, Fault, Return, brokerVars, sinkVars
  <2>2. Lost' \subseteq Lost \cup {held}
    BY <2>1 DEF Lost, LeftBehind, AtHand, InHand
  <2> QED
    BY <2>1, <2>2, HeldLost DEF LossInv
<1>7. CASE IncrBy \/ IncrByLost \/ (IncrByFails /\ tries > 0)
  <2>1. /\ UNCHANGED <<log, committed, next, held, faults>>
        /\ stage = "incr" /\ stage' \in {"fetch", "incr"}
    BY <1>7, Offsets
       DEF IncrBy, IncrByLost, IncrByFails, ApplyIncrBy, Return, brokerVars
  <2>2. /\ charges' = charges /\ charges[Event] > 0
        \/ charges' = [charges EXCEPT ![Event] = @ + 1]
    BY <1>7, Offsets DEF IncrBy, IncrByLost, IncrByFails, ApplyIncrBy, sinkVars, LossInv
  <2>3. /\ Event \in Events /\ charges[Event] \in Nat /\ Event = log[held] /\ Event' = Event
    BY <1>0, <2>1, EventType DEF Event
  <2>4. /\ charges'[Event] > 0
        /\ \A o \in 1 .. Len(log) : charges'[log[o]] = 0 => charges[log[o]] = 0 /\ o # held
    BY <1>0, <2>2, <2>3
  <2>5. Lost' \subseteq Lost
    BY <2>1, <2>4 DEF Lost, LeftBehind, AtHand, InHand
  <2> QED
    BY <2>1, <2>3, <2>4, <2>5, NothingLost DEF LossInv
<1>8. CASE Crash
  <2>1. /\ UNCHANGED <<log, committed, next, held, charges>> /\ faults' = faults + 1
        /\ stage' = "down"
    BY <1>8 DEF Crash, Fault, brokerVars, sinkVars
  <2>2. Lost' \subseteq Lost \cup {held}
    BY <2>1 DEF Lost, LeftBehind, AtHand, InHand
  <2> QED
    BY <2>1, <2>2, HeldLost DEF LossInv
<1>9. CASE Start
  <2>1. /\ UNCHANGED <<log, committed, held, charges, faults>>
        /\ stage = "down" /\ stage' = "fetch" /\ next' = committed
    BY <1>9 DEF Start, brokerVars, sinkVars
  <2>2. Lost' \subseteq Lost
    BY <2>1 DEF Lost, LeftBehind, AtHand, InHand
  <2> QED
    BY <2>1, <2>2, NothingLost DEF LossInv
<1>10. CASE Rejoin
  <2>1. /\ UNCHANGED <<log, committed, stage, held, tries, charges, faults>>
        /\ next' = committed /\ Event' = Event
    BY <1>10 DEF Rejoin, brokerVars, sinkVars, Event
  <2>2. Lost' \subseteq Lost
    BY <2>1 DEF Lost, LeftBehind, AtHand, InHand
  <2> QED
    BY <2>1, <2>2, NothingLost DEF LossInv
<1>11. CASE UNCHANGED vars
  BY <1>11 DEF vars, brokerVars, readerVars, sinkVars, LossInv, Lost, LeftBehind, AtHand,
              InHand, Event
<1>12. IncrByFails => tries = 0 \/ tries > 0
  BY DEF IncrByFails
<1> QED
  BY <1>1, <1>2, <1>3, <1>4, <1>5, <1>6, <1>7, <1>8, <1>9, <1>10, <1>11, <1>12
     DEF Next, ConsumerStep

\* Committing first loses at most one message per failure.
THEOREM OneLossPerFault == Spec => []LossBoundedByFaults
<1>1. Init => LossInv
  <2> SUFFICES ASSUME Init PROVE LossInv
    OBVIOUS
  <2>1. Lost = {}
    BY DEF Init, Lost
  <2> QED
    BY <2>1, FS_EmptySet DEF Init, LossInv
<1>2. TypeInv /\ LossInv => LossBoundedByFaults
  <2> SUFFICES ASSUME TypeInv, LossInv PROVE LossBoundedByFaults
    OBVIOUS
  <2> DEFINE L == {o \in 1 .. committed : charges[log[o]] = 0 /\ ~(InHand /\ held = o)}
  <2>1. L \subseteq Lost
    BY Offsets DEF Lost, LeftBehind, AtHand
  <2>2. Cardinality(L) \in Nat /\ Cardinality(L) <= Cardinality(Lost)
    BY <2>1, LostFinite, FS_Subset, FS_CardinalityType
  <2> QED
    BY <2>2, LostFinite, Offsets DEF LossInv, LossBoundedByFaults
<1> QED
  BY <1>1, <1>2, LossStep, TypeInvHolds, PTL DEF Spec

----------------------------------------------------------------------------
(***************************************************************************)
(* Duplicates.  A message is behind when nothing short of a rejoin brings  *)
(* it up again: the group has committed it, the reader is past it, and no  *)
(* commit in progress moves the offset back below it.  Each row of an      *)
(* event, and the row that the message in hand is about to get, has a copy *)
(* behind or a rejoin to account for it.                                   *)
(***************************************************************************)
Behind(o) ==
  /\ o <= committed
  /\ stage # "down" => o <= next
  /\ stage = "commit" => o <= held

Past(e) == {o \in 1 .. Len(log) : log[o] = e /\ Behind(o)}

\* The row that is due, unless the copy it is for is not behind yet.
RowDue ==
  \/ stage \in {"price", "insert"}
  \/ stage = "commit" /\ (held <= committed \/ next < held)

Due(e) == IF RowDue /\ Event = e THEN 1 ELSE 0

DuplicatesInv == \A e \in Events : rows[e] + Due(e) <= Cardinality(Past(e)) + rejoins

LEMMA OffsetsFinite ==
  ASSUME NEW n \in Nat, NEW S \in SUBSET (1 .. n)
  PROVE  IsFiniteSet(S) /\ Cardinality(S) \in Nat
<1>1. IsFiniteSet(1 .. n)
  BY FS_Interval
<1> QED
  BY <1>1, FS_Subset, FS_CardinalityType

LEMMA PastFinite ==
  ASSUME TypeInv, NEW e \in Events
  PROVE  IsFiniteSet(Past(e)) /\ Cardinality(Past(e)) \in Nat
<1>1. Len(log) \in Nat
  BY Offsets
<1>2. Past(e) \in SUBSET (1 .. Len(log))
  BY DEF Past
<1> QED
  BY <1>1, <1>2, OffsetsFinite

LEMMA PastFiniteNext ==
  ASSUME TypeInv', NEW e \in Events
  PROVE  IsFiniteSet(Past(e)') /\ Cardinality(Past(e)') \in Nat
<1>1. Len(log') \in Nat
  BY DEF TypeInv, TypeOK
<1>2. Past(e)' \in SUBSET (1 .. Len(log'))
  BY DEF Past
<1> QED
  BY <1>1, <1>2, OffsetsFinite

LEMMA RowsType == ASSUME TypeInv PROVE rows \in [Events -> Nat]
  BY DEF TypeInv, TypeOK

LEMMA RowsTypeNext == ASSUME TypeInv' PROVE rows' \in [Events -> Nat]
  BY DEF TypeInv, TypeOK

\* A step that leaves no message to read again takes at most the row due.
LEMMA RowCovered ==
  ASSUME TypeInv, TypeInv', DuplicatesInv, rejoins' = rejoins, NEW e \in Events,
         Past(e) \subseteq Past(e)', rows'[e] + Due(e)' <= rows[e] + Due(e)
  PROVE  rows'[e] + Due(e)' <= Cardinality(Past(e)') + rejoins'
<1>1. /\ IsFiniteSet(Past(e)) /\ Cardinality(Past(e)) \in Nat
      /\ IsFiniteSet(Past(e)') /\ Cardinality(Past(e)') \in Nat
  BY PastFinite, PastFiniteNext
<1>2. Cardinality(Past(e)) <= Cardinality(Past(e)')
  BY <1>1, FS_Subset
<1>3. rows[e] + Due(e) <= Cardinality(Past(e)) + rejoins
  BY DEF DuplicatesInv
<1>4. /\ rows[e] \in Nat /\ rows'[e] \in Nat /\ rejoins \in Nat
      /\ Due(e) \in Nat /\ Due(e)' \in Nat
  BY RowsType, RowsTypeNext, Offsets DEF Due
<1> QED
  BY <1>1, <1>2, <1>3, <1>4

LEMMA RowsCovered ==
  ASSUME TypeInv, TypeInv', DuplicatesInv, rejoins' = rejoins,
         \A e \in Events : Past(e) \subseteq Past(e)'
                           /\ rows'[e] + Due(e)' <= rows[e] + Due(e)
  PROVE  DuplicatesInv'
<1>1. \A e \in Events : rows'[e] + Due(e)' <= Cardinality(Past(e)') + rejoins'
  BY RowCovered
<1> QED
  BY <1>1 DEF DuplicatesInv

\* A rejoin accounts for one more row of any event.
LEMMA RejoinCovers ==
  ASSUME TypeInv, TypeInv', DuplicatesInv, rows' = rows, rejoins' = rejoins + 1,
         NEW e \in Events, Past(e) \subseteq Past(e)'
  PROVE  rows'[e] + Due(e)' <= Cardinality(Past(e)') + rejoins'
<1>1. /\ IsFiniteSet(Past(e)) /\ Cardinality(Past(e)) \in Nat
      /\ IsFiniteSet(Past(e)') /\ Cardinality(Past(e)') \in Nat
  BY PastFinite, PastFiniteNext
<1>2. Cardinality(Past(e)) <= Cardinality(Past(e)')
  BY <1>1, FS_Subset
<1>3. rows[e] + Due(e) <= Cardinality(Past(e)) + rejoins
  BY DEF DuplicatesInv
<1>4. rows[e] \in Nat /\ rejoins \in Nat /\ Due(e) \in {0, 1} /\ Due(e)' \in {0, 1}
  BY RowsType, Offsets DEF Due
<1> QED
  BY <1>1, <1>2, <1>3, <1>4

\* A step that puts a copy behind may make one more row due.
LEMMA CopyCovers ==
  ASSUME TypeInv, TypeInv', DuplicatesInv, UNCHANGED <<rows, rejoins>>,
         NEW e \in Events, NEW o, o \in Past(e)', o \notin Past(e), Past(e) \subseteq Past(e)'
  PROVE  rows'[e] + Due(e)' <= Cardinality(Past(e)') + rejoins'
<1>1. /\ IsFiniteSet(Past(e)) /\ Cardinality(Past(e)) \in Nat
      /\ IsFiniteSet(Past(e)') /\ Cardinality(Past(e)') \in Nat
  BY PastFinite, PastFiniteNext
<1>2. Cardinality(Past(e) \cup {o}) = Cardinality(Past(e)) + 1
  BY <1>1, FS_AddElement
<1>3. Cardinality(Past(e) \cup {o}) <= Cardinality(Past(e)')
  <2>1. Past(e) \cup {o} \subseteq Past(e)'
    OBVIOUS
  <2> QED
    BY <1>1, <2>1, FS_Subset
<1>4. rows[e] + Due(e) <= Cardinality(Past(e)) + rejoins
  BY DEF DuplicatesInv
<1>5. /\ rows[e] \in Nat /\ rows' = rows /\ rejoins \in Nat /\ rejoins' = rejoins
      /\ Due(e) \in {0, 1} /\ Due(e)' \in {0, 1}
  BY RowsType, RowsTypeNext, Offsets DEF Due
<1> QED
  BY <1>1, <1>2, <1>3, <1>4, <1>5

LEMMA DuplicatesStep ==
  TypeInv /\ TypeInv' /\ DuplicatesInv /\ [Next]_vars => DuplicatesInv'
<1> SUFFICES ASSUME TypeInv, TypeInv', DuplicatesInv, [Next]_vars PROVE DuplicatesInv'
  OBVIOUS
<1>0. /\ \A e \in Events : rows[e] \in Nat /\ rows'[e] \in Nat
      /\ \A e : Due(e) \in {0, 1} /\ Due(e)' \in {0, 1}
  BY RowsType, RowsTypeNext DEF Due
<1>1. ASSUME NEW e \in Events, Append1(e) PROVE DuplicatesInv'
  <2>1. log' = Append(log, e)
        /\ UNCHANGED <<committed, next, stage, held, rows, rejoins>>
    BY <1>1 DEF Append1, readerVars, sinkVars
  <2>2. /\ Len(log') = Len(log) + 1
        /\ \A o \in 1 .. Len(log) : o \in 1 .. Len(log') /\ log'[o] = log[o]
    BY <2>1, Offsets
  <2>3. \A x \in Events : Past(x) \subseteq Past(x)'
    BY <2>1, <2>2 DEF Past, Behind
  <2>4. \A x \in Events : Due(x)' = Due(x)
    BY <2>1, <2>2, EventType DEF Due, RowDue, Event
  <2> QED
    BY <1>0, <2>1, <2>3, <2>4, RowsCovered
<1>2. CASE Fetch
  <2>1. /\ UNCHANGED <<log, committed, rows, rejoins>> /\ stage = "fetch"
        /\ stage' = "commit" /\ next' = next + 1 /\ held' = next + 1 /\ next < Len(log)
    BY <1>2 DEF Fetch, brokerVars, sinkVars
  <2>0. next \in Nat /\ Len(log) \in Nat /\ committed \in Nat
    BY Offsets
  <2>2. \A e \in Events : Past(e) \subseteq Past(e)'
    <3>1. \A o \in 1 .. Len(log) : Behind(o) => Behind(o)'
      BY <2>0, <2>1 DEF Behind
    <3> QED
      BY <2>1, <3>1 DEF Past
  <2>3. ASSUME NEW e \in Events, Due(e)' = 1
        PROVE  held' \in Past(e)' /\ held' \notin Past(e)
    <3>1. held' <= committed /\ log[held'] = e
      BY <2>0, <2>1, <2>3 DEF Due, RowDue, Event
    <3>2. held' \in 1 .. Len(log) /\ held' > next
      BY <2>0, <2>1
    <3>3. Behind(held)' /\ ~Behind(held')
      BY <2>0, <2>1, <3>1, <3>2 DEF Behind
    <3> QED
      BY <2>1, <3>1, <3>2, <3>3 DEF Past
  <2>4. ASSUME NEW e \in Events
        PROVE  rows'[e] + Due(e)' <= Cardinality(Past(e)') + rejoins'
    <3>1. CASE Due(e)' = 1
      BY <2>1, <2>2, <2>3, <3>1, CopyCovers
    <3>2. CASE Due(e)' = 0
      <4>1. rows'[e] + Due(e)' <= rows[e] + Due(e)
        BY <1>0, <2>1, <3>2
      <4> QED
        BY <2>1, <2>2, <4>1, RowCovered
    <3> QED
      BY <1>0, <3>1, <3>2
  <2> QED
    BY <2>4 DEF DuplicatesInv
<1>3. CASE Commit
  <2>1. /\ UNCHANGED <<log, next, held, rows, rejoins>> /\ stage = "commit"
        /\ stage' = "price" /\ committed' = held /\ Event' = Event
    BY <1>3 DEF Commit, sinkVars, Event
  <2>2. \A e \in Events : Past(e) \subseteq Past(e)'
    BY <2>1, Offsets DEF Past, Behind
  <2>3. CASE RowDue
    <3>1. \A e \in Events : Due(e)' = Due(e)
      BY <2>1, <2>3 DEF Due, RowDue
    <3> QED
      BY <1>0, <2>1, <2>2, <3>1, RowsCovered
  <2>4. CASE ~RowDue
    <3>1. held \in Past(Event)' /\ held \notin Past(Event) /\ Event \in Events
      BY <2>1, <2>4, EventType, Offsets DEF RowDue, Event, Past, Behind
    <3>2. ASSUME NEW e \in Events
          PROVE  rows'[e] + Due(e)' <= Cardinality(Past(e)') + rejoins'
      <4>1. CASE e = Event
        BY <2>1, <2>2, <3>1, <4>1, CopyCovers
      <4>2. CASE e # Event
        <5>1. Due(e)' = 0
          BY <2>1, <4>2 DEF Due
        <5>2. rows'[e] + Due(e)' <= rows[e] + Due(e)
          BY <1>0, <2>1, <5>1
        <5> QED
          BY <2>1, <2>2, <5>2, RowCovered
      <4> QED
        BY <4>1, <4>2
    <3> QED
      BY <3>2 DEF DuplicatesInv
  <2> QED
    BY <2>3, <2>4
<1>4. CASE CommitFails \/ Crash \/ Start \/ PriceFails \/ IncrBy \/ IncrByLost \/ IncrByFails
  <2>1. UNCHANGED <<log, held, rows, rejoins>> /\ stage' \in {"fetch", "down", "incr"}
    BY <1>4 DEF CommitFails, Crash, Start, PriceFails, IncrBy, IncrByLost, IncrByFails,
                ApplyIncrBy, Return, brokerVars, sinkVars
  <2>2. \A o : Behind(o) => Behind(o)'
    BY <1>4 DEF CommitFails, Crash, Start, PriceFails, IncrBy, IncrByLost, IncrByFails,
                ApplyIncrBy, Return, brokerVars, Behind
  <2>3. \A e \in Events : Past(e) \subseteq Past(e)'
    BY <2>1, <2>2 DEF Past
  <2>4. \A e \in Events : Due(e)' = 0
    BY <2>1 DEF Due, RowDue
  <2> QED
    BY <1>0, <2>1, <2>3, <2>4, RowsCovered
<1>5. CASE Price
  <2>1. /\ UNCHANGED <<log, committed, next, held, rows, rejoins>>
        /\ stage = "price" /\ stage' = "insert"
    BY <1>5 DEF Price, brokerVars, sinkVars
  <2>2. \A e \in Events : Past(e) \subseteq Past(e)' /\ Due(e)' = Due(e)
    BY <2>1 DEF Past, Behind, Due, RowDue, Event
  <2> QED
    BY <1>0, <2>1, <2>2, RowsCovered
<1>6. CASE Insert \/ InsertFails
  <2>1. /\ UNCHANGED <<log, committed, next, held, rejoins>> /\ Event \in Events
        /\ stage = "insert" /\ stage' \in {"incr", "fetch"}
        /\ rows' = rows \/ rows' = [rows EXCEPT ![Event] = @ + 1]
    BY <1>6, EventType DEF Insert, InsertFails, AddRow, Return, brokerVars
  <2>2. \A e \in Events : Past(e) \subseteq Past(e)'
    BY <2>1 DEF Past, Behind
  <2>3. ASSUME NEW e \in Events PROVE rows'[e] + Due(e)' <= rows[e] + Due(e)
    <3>1. Due(e)' = 0
      BY <2>1 DEF Due, RowDue
    <3>2. rows'[e] = rows[e] \/ (e = Event /\ rows'[e] = rows[e] + 1)
      BY <2>1, RowsType, RowsTypeNext
    <3>3. e = Event => Due(e) = 1
      BY <2>1 DEF Due, RowDue
    <3> QED
      BY <1>0, <3>1, <3>2, <3>3
  <2> QED
    BY <2>1, <2>2, <2>3, RowsCovered
<1>7. CASE Rejoin
  <2>1. /\ UNCHANGED <<log, committed, stage, held, rows>>
        /\ next' = committed /\ rejoins' = rejoins + 1
    BY <1>7 DEF Rejoin, brokerVars, sinkVars
  <2>2. \A e \in Events : Past(e) \subseteq Past(e)'
    BY <2>1 DEF Past, Behind
  <2>3. \A e \in Events : rows'[e] + Due(e)' <= Cardinality(Past(e)') + rejoins'
    BY <2>1, <2>2, RejoinCovers
  <2> QED
    BY <2>3 DEF DuplicatesInv
<1>8. CASE UNCHANGED vars
  BY <1>8 DEF vars, brokerVars, readerVars, sinkVars, DuplicatesInv, Past, Behind, Due, RowDue,
              Event
<1> QED
  BY <1>1, <1>2, <1>3, <1>4, <1>5, <1>6, <1>7, <1>8 DEF Next, ConsumerStep

\* A row is duplicated only by a second copy in the topic or by a rejoin.
THEOREM RowsExplained == Spec => []DuplicatesExplained
<1>1. Init => DuplicatesInv
  <2> SUFFICES ASSUME Init, NEW e \in Events
               PROVE  rows[e] + Due(e) <= Cardinality(Past(e)) + rejoins
    BY DEF DuplicatesInv
  <2>1. Past(e) = {}
    BY DEF Init, Past
  <2>2. Due(e) = 0
    BY DEF Init, Due, RowDue
  <2> QED
    BY <2>1, <2>2, FS_EmptySet DEF Init
<1>2. TypeInv /\ DuplicatesInv => DuplicatesExplained
  <2> SUFFICES ASSUME TypeInv, DuplicatesInv, NEW e \in Events
               PROVE  rows[e] <= Cardinality(Copies(e)) + rejoins
    BY DEF DuplicatesExplained
  <2>1. IsFiniteSet(Copies(e))
    <3>1. IsFiniteSet(1 .. Len(log))
      BY Offsets, FS_Interval
    <3> QED
      BY <3>1, FS_Subset DEF Copies
  <2>2. Past(e) \subseteq Copies(e)
    BY DEF Past, Copies
  <2>3. Cardinality(Past(e)) <= Cardinality(Copies(e)) /\ Cardinality(Copies(e)) \in Nat
    BY <2>1, <2>2, FS_Subset, FS_CardinalityType
  <2>4. rows[e] \in Nat /\ Due(e) \in Nat
    BY RowsType DEF Due
  <2>5. rows[e] + Due(e) <= Cardinality(Past(e)) + rejoins
    BY DEF DuplicatesInv
  <2>6. Cardinality(Past(e)) \in Nat /\ rejoins \in Nat
    BY PastFinite, Offsets
  <2> QED
    BY <2>3, <2>4, <2>5, <2>6
<1> QED
  BY <1>1, <1>2, DuplicatesStep, TypeInvHolds, PTL DEF Spec

=============================================================================
