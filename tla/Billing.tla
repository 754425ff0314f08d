------------------------------ MODULE Billing ------------------------------
(***************************************************************************)
(* The pages that set subscriptions against costs.  Billing keeps the      *)
(* subscriptions in Postgres, metering the costs in ClickHouse; billing's  *)
(* invoice is a page for a tenant or for one customer, analytics' margin   *)
(* and forecast are pages for a tenant, which read the two tables in the   *)
(* same order.  The dashboard's overview asks for the invoice and then for *)
(* the forecast, and shows what it gets.                                   *)
(*                                                                         *)
(* A page is read in two steps from two databases, while usage keeps       *)
(* coming in.  Pages only read, so one at a time shows what any number of  *)
(* them may see; the time is one billing month, and the export is Periods' *)
(* subject.                                                                *)
(***************************************************************************)
EXTENDS Bootstrap, FiniteSetsExt

CONSTANTS Accounts, \* <<tenant, customer>> pairs that use the gateway
          All,      \* instead of a customer: the page of a tenant
          MaxUsage  \* bound: the costs of an account

VARIABLES page,  \* where the page stands, at last its status
          by,    \* the service asked
          of,    \* <<tenant, customer>> or <<tenant, All>>
          subs,  \* the customers whose subscriptions have been read
          lines, \* lines[c]: the costs the page shows for c
          usage, \* usage[a]: the costs in ClickHouse of account a
          asOf,  \* history: the tenant's usage when the page was asked for
          view,  \* the part of an overview the page is for
          shown  \* the invoice lines of the overview

pageVars == <<page, by, of, subs, lines, asOf>>
viewVars == <<view, shown>>
vars     == <<bootVars, pageVars, viewVars, usage>>

----------------------------------------------------------------------------
Everyone == Keys \cup Accounts
Pages    == {k[1] : k \in Everyone} \X ({k[2] : k \in Everyone} \cup {All})

Tenant == of[1]

\* Mutant: the costs of all customers of that name.
CogsByName(c) == MapThenSumSet(LAMBDA a : usage[a], {a \in Accounts : a[2] = c})

\* The costs of customer c of the page's tenant, 0 when there is no usage.
Cogs(c) == IF <<Tenant, c>> \in Accounts THEN usage[<<Tenant, c>>] ELSE 0

\* The customers whose subscription the page is about.
Subscribers == {c \in {k[2] : k \in Rows} : <<Tenant, c>> \in Rows /\ of[2] \in {c, All}}

Init ==
  /\ BootInit
  /\ page = "idle" /\ by = "billing" /\ of = (CHOOSE p \in Pages : TRUE)
  /\ subs = {} /\ lines = << >> /\ view = "none" /\ shown = << >>
  /\ usage = [a \in Accounts |-> 0] /\ asOf = << >>

\* The tenant's rows in ClickHouse.
UsageOf(t) == [a \in {b \in Accounts : b[1] = t} |-> usage[a]]

Reading == {"subs", "cogs"}

\* A service is asked for a page; billing refuses the connection before it serves.
Ask(who, p) ==
  /\ by' = who /\ of' = p
  /\ page' = IF who = "billing" /\ proc # "serve" THEN "no answer" ELSE "subs"
  /\ subs' = {} /\ lines' = << >> /\ asOf' = UsageOf(p[1])
  /\ UNCHANGED <<bootVars, usage>>

Free == page \notin Reading /\ view # "invoice"

\* A caller asks for a page.
Get(who, p) ==
  /\ Free /\ Ask(who, p)
  /\ view' = "none" /\ shown' = << >>

Invoice(p) == Get("billing", p)
Margin(p)  == p[2] = All /\ Get("analytics", p)

\* The dashboard asks for a tenant's invoice, ...
Overview(p) ==
  /\ Free /\ p[2] = All /\ Ask("billing", p)
  /\ view' = "invoice" /\ shown' = << >>

\* ... and then for its forecast, even if the invoice failed or took too long.
Forecast ==
  /\ view = "invoice" /\ Ask("analytics", of)
  /\ view' = "forecast" /\ shown' = IF page = "200" THEN lines ELSE << >>

\* List, or Get: only the page of one customer ends when there is no row.
ReadSubs ==
  /\ page = "subs" /\ pg /\ schema
  /\ subs' = Subscribers
  /\ page' = IF Subscribers = {} /\ of[2] # All THEN "404" ELSE "cogs"
  /\ UNCHANGED <<bootVars, by, of, lines, asOf, viewVars, usage>>

\* ByCustomer, or Customer, and the page is written.
ReadCogs ==
  /\ page = "cogs"
  /\ lines' = [c \in subs |-> Cogs(c)]
  /\ page' = "200" /\ subs' = {}
  /\ UNCHANGED <<bootVars, by, of, asOf, viewVars, usage>>

Failure == IF by = "billing" THEN "502" ELSE "500"

\* Mutant: a failing query counts as one without rows.
ReadFailsAsMissing ==
  /\ \/ page = "subs" /\ ~(pg /\ schema) /\ page' = "404"
     \/ page = "cogs" /\ page' = Failure
  /\ UNCHANGED <<bootVars, by, of, subs, lines, asOf, viewVars, usage>>

\* Postgres is down, the table is not there yet, or ClickHouse fails.
ReadFails ==
  /\ \/ page = "subs" /\ ~(pg /\ schema)
     \/ page = "cogs"
  /\ page' = Failure
  /\ UNCHANGED <<bootVars, by, of, subs, lines, asOf, viewVars, usage>>

\* Metering stores another usage row.
Metered(a) ==
  /\ usage[a] < MaxUsage
  /\ usage' = [usage EXCEPT ![a] = @ + 1]
  /\ UNCHANGED <<bootVars, pageVars, viewVars>>

\* A stop takes billing's page under way along.
Stopped ==
  /\ Stop
  /\ page' = IF page \in Reading /\ by = "billing" THEN "no answer" ELSE page
  /\ UNCHANGED <<by, of, subs, lines, asOf, viewVars, usage>>

Main    == Boot /\ UNCHANGED <<pageVars, viewVars, usage>>
Answers == ReadSubs \/ ReadCogs \/ ReadFails

Next ==
  \/ Main \/ Answers \/ Stopped \/ Forecast
  \/ Outside /\ UNCHANGED <<pageVars, viewVars, usage>>
  \/ \E p \in Pages : Invoice(p) \/ Margin(p) \/ Overview(p)
  \/ \E a \in Accounts : Metered(a)

Spec == Init /\ [][Next]_vars

----------------------------------------------------------------------------
(***************************************************************************)
(* Every variable stays in its range.                                      *)
(***************************************************************************)
TypeOK ==
  /\ BootTypeOK
  /\ page \in {"idle", "subs", "cogs", "200", "404", "500", "502", "no answer"}
  /\ by \in {"billing", "analytics"} /\ of \in Pages
  /\ usage \in [Accounts -> 0 .. MaxUsage] /\ asOf \in [DOMAIN asOf -> 0 .. MaxUsage]
  /\ subs \cup DOMAIN lines \subseteq {k[2] : k \in Keys}
  /\ view \in {"none", "invoice", "forecast"}

(***************************************************************************)
(* The costs on a page are that very customer's, as they were at some      *)
(* instant between the request and the answer: not a namesake's of another *)
(* tenant, and no usage that was stored before is missing.  Within an      *)
(* overview, the forecast knows of every customer of the invoice whose     *)
(* subscription no operator deletes, and of no less than the invoice has   *)
(* shown.                                                                  *)
(***************************************************************************)
LinesBracketed ==
  page = "200" =>
    /\ \A c \in DOMAIN lines : <<Tenant, c>> \in Accounts =>
         asOf[<<Tenant, c>>] <= lines[c] /\ lines[c] <= usage[<<Tenant, c>>]
    /\ view = "forecast" =>
         \A c \in DOMAIN shown : <<Tenant, c>> \notin Range(deleted) =>
           c \in DOMAIN lines /\ shown[c] <= lines[c]

(***************************************************************************)
(* A seeded subscription is on its tenant's invoice and has a page of its  *)
(* own, unless its insert had failed in some life of the service or an     *)
(* operator had deleted it.                                                *)
(* Analytics gives no such promise: it reads while billing still seeds.    *)
(***************************************************************************)
SubscribersSeen ==
  by = "billing" =>
    \A k \in Range(SeedRows) \ missed : k[1] = Tenant =>
      /\ page = "200" /\ of[2] \in {k[2], All} => k[2] \in DOMAIN lines
      /\ page = "404" => of[2] # k[2]
=============================================================================
