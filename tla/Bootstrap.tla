----------------------------- MODULE Bootstrap -----------------------------
(***************************************************************************)
(* The life of a service that keeps a table in Postgres: identity its      *)
(* virtual keys, rating its model prices, billing its subscriptions.  Each *)
(* main connects with a few attempts, creates the table, seeds it and only *)
(* then serves; docker-compose starts the process again when it ends.      *)
(*                                                                         *)
(* Statements fail while Postgres is down.  One that was sent before and   *)
(* whose reply the outage swallowed may have taken effect.                 *)
(*                                                                         *)
(* A row is known by its primary key and a revision: 0 as the seed wrote   *)
(* it, n after n statements of an operator, who has nothing but SQL.       *)
(***************************************************************************)
EXTENDS Integers, Sequences, FiniteSets, Functions

CONSTANTS Keys,        \* primary keys
          SeedRows,    \* the keys the service seeds, in order
          StopAtError, \* whether the first failing insert ends the seeding
          Attempts,    \* attempts of connect
          MaxStops,    \* bound: how often the process is stopped
          MaxOutages,  \* bound: how often Postgres goes down
          MaxRevision, \* bound: the operator's statements on a row
          MaxDeletes   \* bound: rows the operator deletes

ASSUME SeedAssumption == SeedRows \in Seq(Keys) /\ StopAtError \in BOOLEAN
ASSUME AttemptsAssumption == Attempts \in Nat \ {0}
ASSUME BoundAssumption == {MaxStops, MaxOutages, MaxRevision, MaxDeletes} \subseteq Nat

VARIABLES pg,      \* whether Postgres answers
          proc,    \* where main stands
          tries,   \* connect's failed attempts
          at,      \* the seed row to be inserted next
          schema,  \* whether the table exists
          table,   \* table[k]: the revision of the row of k, where there is one
          deleted, \* history: the keys whose row an operator has deleted, in order
          lacking, \* seed rows whose insert failed or was not tried in this life,
                   \* or whose row an operator has deleted since it began
          missed,  \* history: the seed rows any life of the process has lacked
          stops, outages

procVars == <<proc, tries, at, lacking, missed>>
rowVars  == <<schema, table, deleted>>
bootVars == <<pg, procVars, rowVars, stops, outages>>

----------------------------------------------------------------------------
Rows == DOMAIN table

\* Mutant: ON CONFLICT DO UPDATE.
Upsert(k) == [j \in Rows \cup {k} |-> IF j = k THEN 0 ELSE table[j]]

\* The table after the insert of k, ON CONFLICT DO NOTHING.
Insert(k) == [j \in Rows \cup {k} |-> IF j \in Rows THEN table[j] ELSE 0]

BootInit ==
  /\ pg = FALSE /\ proc = "down" /\ tries = 0 /\ at = 1
  /\ schema = FALSE /\ table = << >> /\ deleted = << >> /\ lacking = {} /\ missed = {}
  /\ stops = 0 /\ outages = 0

Start ==
  /\ proc = "down"
  /\ proc' = "connect" /\ tries' = 0 /\ at' = 1 /\ lacking' = {}
  /\ UNCHANGED <<pg, missed, rowVars, stops, outages>>

Connect ==
  /\ proc = "connect" /\ pg
  /\ proc' = "migrate"
  /\ UNCHANGED <<pg, tries, at, lacking, missed, rowVars, stops, outages>>

\* Mutant: main stays, without a connection, after the last attempt.
ConnectFailsForGood ==
  /\ proc = "connect" /\ ~pg
  /\ tries' = tries + 1
  /\ proc' = IF tries' = Attempts THEN "stuck" ELSE proc
  /\ UNCHANGED <<pg, at, lacking, missed, rowVars, stops, outages>>

\* An attempt fails; after the last one main exits.
ConnectFails ==
  /\ proc = "connect" /\ ~pg
  /\ tries' = tries + 1
  /\ proc' = IF tries' = Attempts THEN "down" ELSE proc
  /\ UNCHANGED <<pg, at, lacking, missed, rowVars, stops, outages>>

Migrate ==
  /\ proc = "migrate" /\ pg
  /\ schema' = TRUE /\ proc' = "seed"
  /\ UNCHANGED <<pg, tries, at, table, deleted, lacking, missed, stops, outages>>

MigrateFails ==
  /\ proc = "migrate" /\ ~pg
  /\ schema' \in {schema, TRUE}
  /\ proc' = "down"
  /\ UNCHANGED <<pg, tries, at, table, deleted, lacking, missed, stops, outages>>

Seeding == proc = "seed" /\ at <= Len(SeedRows)

SeedRow ==
  /\ Seeding /\ pg
  /\ table' = Insert(SeedRows[at])
  /\ at' = at + 1
  /\ UNCHANGED <<pg, proc, tries, lacking, missed, schema, deleted, stops, outages>>

\* Mutant: the other way round, on or off at the first failing insert.
SeedFailsOtherwise ==
  LET last == IF StopAtError THEN at ELSE Len(SeedRows)
  IN  /\ Seeding /\ ~pg
      /\ table' \in {table, Insert(SeedRows[at])}
      /\ lacking' = lacking \cup {SeedRows[i] : i \in at .. last}
      /\ missed' = missed \cup lacking' /\ at' = last + 1
      /\ UNCHANGED <<pg, proc, tries, schema, deleted, stops, outages>>

\* The error is logged, and main goes on to serve.
SeedFails ==
  LET last == IF StopAtError THEN Len(SeedRows) ELSE at
  IN  /\ Seeding /\ ~pg
      /\ table' \in {table, Insert(SeedRows[at])}
      /\ lacking' = lacking \cup {SeedRows[i] : i \in at .. last}
      /\ missed' = missed \cup lacking' /\ at' = last + 1
      /\ UNCHANGED <<pg, proc, tries, schema, deleted, stops, outages>>

\* Mutant: listening comes first.
ListenEarly ==
  /\ proc = "seed"
  /\ proc' = "serve"
  /\ UNCHANGED <<pg, tries, at, lacking, missed, rowVars, stops, outages>>

Listen ==
  /\ proc = "seed" /\ ~Seeding
  /\ proc' = "serve"
  /\ UNCHANGED <<pg, tries, at, lacking, missed, rowVars, stops, outages>>

\* What main does of itself.
Boot ==
  \/ Start \/ Connect \/ ConnectFails \/ Migrate \/ MigrateFails
  \/ SeedRow \/ SeedFails \/ Listen

\* A kill, a signal, a port that is taken, a server that ends.
Stop ==
  /\ proc # "down" /\ stops < MaxStops
  /\ proc' = "down" /\ stops' = stops + 1
  /\ UNCHANGED <<pg, tries, at, lacking, missed, rowVars, outages>>

Outage ==
  /\ pg /\ outages < MaxOutages
  /\ pg' = FALSE /\ outages' = outages + 1
  /\ UNCHANGED <<procVars, rowVars, stops>>

Recover ==
  /\ ~pg /\ pg' = TRUE
  /\ UNCHANGED <<procVars, rowVars, stops, outages>>

(***************************************************************************)
(* The operator changes a row or inserts one, of the seed or not.          *)
(***************************************************************************)
Operate(k) ==
  LET old == IF k \in Rows THEN table[k] ELSE 0
  IN  /\ pg /\ schema
      /\ old < MaxRevision
      /\ table' = [j \in Rows \cup {k} |-> IF j = k THEN old + 1 ELSE table[j]]
      /\ UNCHANGED <<pg, procVars, schema, deleted, stops, outages>>

\* The operator deletes a row, say of a virtual key that is revoked.
Delete(k) ==
  /\ pg /\ k \in Rows /\ Len(deleted) < MaxDeletes
  /\ table' = [j \in Rows \ {k} |-> table[j]]
  /\ deleted' = Append(deleted, k)
  /\ lacking' = lacking \cup ({k} \cap Range(SeedRows))
  /\ missed' = missed \cup lacking'
  /\ UNCHANGED <<pg, proc, tries, at, schema, stops, outages>>

\* What happens to the table and to Postgres.
Outside == Outage \/ Recover \/ \E k \in Keys : Operate(k) \/ Delete(k)

----------------------------------------------------------------------------
(***************************************************************************)
(* Every variable stays in its range.                                      *)
(***************************************************************************)
BootTypeOK ==
  /\ pg \in BOOLEAN /\ schema \in BOOLEAN
  /\ proc \in {"down", "connect", "migrate", "seed", "serve"}
  /\ tries \in 0 .. Attempts /\ (proc = "connect" => tries < Attempts)
  /\ at \in 1 .. Len(SeedRows) + 1
  /\ Rows \subseteq Keys /\ table \in [Rows -> 0 .. MaxRevision]
  /\ deleted \in Seq(Keys) /\ Len(deleted) <= MaxDeletes
  /\ lacking \subseteq missed /\ missed \subseteq Range(SeedRows)
  /\ stops \in 0 .. MaxStops /\ outages \in 0 .. MaxOutages

(***************************************************************************)
(* Nothing is served before the table is there and every seed row is in    *)
(* it, but for those whose insert this life of the process has seen fail   *)
(* and those an operator has deleted since it began.  An error of Seed is  *)
(* only logged, and leaves a service that answers without the rest of its  *)
(* rows until it is started again; and a seed row deleted before is back.  *)
(***************************************************************************)
ServesItsSeed == proc = "serve" => schema /\ Range(SeedRows) \subseteq Rows \cup lacking

(***************************************************************************)
(* Whatever a life of the process was cut short by, starting again never   *)
(* loses a row, the operator's own or a seeded one, and never sets one     *)
(* that was changed back to the seed: only a DELETE takes a row away.      *)
(* This is no promise that the DELETE stands.  A seed row that is gone, a  *)
(* virtual key that was revoked say, is inserted again by the next start,  *)
(* as ServesItsSeed has it.                                                *)
(***************************************************************************)
RevisionsKept ==
  [][\A k \in Rows :
       \/ deleted' = Append(deleted, k)
       \/ k \in DOMAIN table' /\ table'[k] >= table[k]]_table

(***************************************************************************)
(* Once Postgres is up for good the service serves again and again,        *)
(* however many attempts, migrations and inserts had failed before: giving *)
(* up ends a life of the process and not the service.                      *)
(***************************************************************************)
ServesAgain == <>[]pg => []<>(proc = "serve")
=============================================================================
