------------------------------- MODULE Rating -------------------------------
(***************************************************************************)
(* The rating service and its client.  Metering's one consumer prices one  *)
(* message at a time, so one Price call is under way at most; it reads the *)
(* row of the model, and the row "default" when there is none.             *)
(*                                                                         *)
(* Without a rating service, metering prices from a table of its own with  *)
(* the numbers of the seed, in floating point.  Rates are in twentieths of *)
(* a micro per token here, which all of both tables are multiples of.      *)
(***************************************************************************)
EXTENDS Bootstrap

CONSTANTS Models,  \* model names metering asks for
          Default, \* the key "default"
          Rates,   \* Rates[k][n]: the rates of revision n of the row of k
          Tokens   \* bound: token counts of a call

ASSUME RatesAssumption ==
  /\ Default \in Keys
  /\ Rates \in [Keys -> [0 .. MaxRevision -> [in : Nat, out : Nat]]]
  /\ Models # {} /\ Tokens # {} /\ Tokens \subseteq Nat
ASSUME CatalogAssumption ==
  /\ StopAtError /\ Len(SeedRows) > 0
  /\ \A i \in 1 .. Len(SeedRows) : SeedRows[i] = Default <=> i = Len(SeedRows)

VARIABLES call,  \* where the Price call stands
          ask,   \* what it asks for
          basis, \* the row it was priced by, and its revision
          cost   \* its answer, in micros

callVars == <<call, ask, basis, cost>>
vars     == <<bootVars, callVars>>

----------------------------------------------------------------------------
Unit == 20

Amount(rate, q) == q.in * rate.in + q.out * rate.out

\* Mutant: the two sides of a call are rounded one by one.
PriceBySide(rate, q) == (q.in * rate.in) \div Unit + (q.out * rate.out) \div Unit

\* Rating divides integers, and drops the rest.
Price(rate, q) == Amount(rate, q) \div Unit

\* Metering's own pricer rounds to the nearest micro; a tie goes either way,
\* for the products of the floats are off by a bit.
Nearest(n) ==
  {(2 * n + Unit) \div (2 * Unit)} \cup (IF n % Unit = Unit \div 2 THEN {n \div Unit} ELSE {})

BuiltinKey(m) == IF m \in Range(SeedRows) THEN m ELSE Default
Builtin(q)    == Nearest(Amount(Rates[BuiltinKey(q.model)][0], q))

Asks == [model : Models, in : Tokens, out : Tokens]

Init ==
  /\ BootInit
  /\ call = "idle" /\ ask = (CHOOSE q \in Asks : TRUE)
  /\ basis = <<Default, 0>> /\ cost = 0

Under == {"rates", "default"}

\* Metering calls; the channel fails at once when no one listens.
Cost(q) ==
  /\ call \notin Under
  /\ ask' = q
  /\ call' = IF proc = "serve" THEN "rates" ELSE "error"
  /\ basis' = <<Default, 0>> /\ cost' = 0
  /\ UNCHANGED bootVars

Answer(k) ==
  /\ call' = "priced"
  /\ basis' = <<k, table[k]>>
  /\ cost' = Price(Rates[k][table[k]], ask)
  /\ UNCHANGED <<bootVars, ask>>

\* The next read, or the error, after a read that found no row.
Missing(to) == call' = to /\ UNCHANGED <<bootVars, ask, basis, cost>>

ReadRates ==
  /\ call = "rates" /\ pg
  /\ \/ ask.model \in Rows /\ Answer(ask.model)
     \/ ask.model \notin Rows /\ ask.model # Default /\ Missing("default")
     \/ ask.model \notin Rows /\ ask.model = Default /\ Missing("error")

\* Mutant: the row "default" is looked for again.
ReadDefaultAgain ==
  /\ call = "default" /\ pg
  /\ \/ Default \in Rows /\ Answer(Default)
     \/ Default \notin Rows /\ Missing("rates")

ReadDefault ==
  /\ call = "default" /\ pg
  /\ \/ Default \in Rows /\ Answer(Default)
     \/ Default \notin Rows /\ Missing("error")

ReadFails == call \in Under /\ ~pg /\ Missing("error")

\* A stop takes the call under way along.
Stopped ==
  /\ Stop
  /\ call' = IF call \in Under THEN "error" ELSE call
  /\ UNCHANGED <<ask, basis, cost>>

Main    == Boot /\ UNCHANGED callVars
Answers == ReadRates \/ ReadDefault \/ ReadFails

Next ==
  \/ Main \/ Answers \/ Stopped
  \/ Outside /\ UNCHANGED callVars
  \/ \E q \in Asks : Cost(q)

Spec     == Init /\ [][Next]_vars
FairSpec == Spec /\ WF_vars(Main) /\ WF_vars(Answers)

----------------------------------------------------------------------------
(***************************************************************************)
(* Every variable stays in its range.                                      *)
(***************************************************************************)
TypeOK ==
  /\ BootTypeOK
  /\ call \in {"idle", "rates", "default", "priced", "error"}
  /\ ask \in Asks
  /\ basis \in Keys \X (0 .. MaxRevision) /\ cost \in Nat

(***************************************************************************)
(* A model of the seed, whose row no operator deletes, is never charged at *)
(* the row "default" that the seed wrote: its order, with "default" last,  *)
(* and its end at the first failing insert leave a call without a price    *)
(* rather than with a wrong one.  A row "default" that an operator inserts *)
(* early or has changed is the operator's word.                            *)
(***************************************************************************)
NoSilentDefault ==
  call = "priced" /\ ask.model \in Range(SeedRows) \ Range(deleted) /\ ask.model # Default
    => basis # <<Default, 0>>

(***************************************************************************)
(* As long as a call is priced by the row that the seed has written for    *)
(* it, it makes less than a micro of difference which pricer metering is   *)
(* set up with: rating never charges more than the built-in table, and at  *)
(* most one micro less.                                                    *)
(***************************************************************************)
PricersAgree ==
  call = "priced" /\ basis = <<BuiltinKey(ask.model), 0>>
    => \A b \in Builtin(ask) : cost <= b /\ b <= cost + 1

(***************************************************************************)
(* Price comes to an end, with a price or an error: a catalog that lacks   *)
(* "default" does not send rates round in circles.                         *)
(***************************************************************************)
PriceEnds == call \in Under ~> call \notin Under
=============================================================================
