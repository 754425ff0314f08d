------------------------------ MODULE Gateway ------------------------------
(***************************************************************************)
(* The gateway: what happens to a chat-completion request between its      *)
(* arrival and its answer.  A step ends where the request waits for        *)
(* another party: identity, the cache, budget, the provider, the topic.    *)
(*                                                                         *)
(*   idle --> lookup --> allow --> upstream --> fill --> publish --> flush *)
(*              |                                           ^         |    *)
(*              +------------------ hit --------------------+        200   *)
(*                                                                         *)
(* Requests carry prompts.  Guard is what the guardrail makes of a prompt  *)
(* and Fingerprint is the cache key of a prompt: two different prompts may *)
(* have one.  A response is known by the request whose provider call       *)
(* produced it.                                                            *)
(***************************************************************************)
EXTENDS Integers, Sequences, FiniteSets, Functions

CONSTANTS Requests,    \* chat-completion requests, each sent once
          Prompts,     \* model and messages of a request
          PromptOf,    \* the prompt a request carries
          Guard,       \* Guard[p]: p, p redacted, or Nothing when blocked
          Fingerprint, \* Fingerprint[p]: the cache key of p
          Nothing,     \* no prompt, no response
          MaxCopies,   \* bound: copies of an event in the topic
          MaxDrops     \* bound: usage events that never reach the topic

ASSUME RequestsAssumption == IsFiniteSet(Requests) /\ PromptOf \in [Requests -> Prompts]
ASSUME GuardAssumption ==
  /\ Nothing \notin Prompts \cup Requests
  /\ Guard \in [Prompts -> Prompts \cup {Nothing}]
  /\ DOMAIN Fingerprint = Prompts
ASSUME BoundAssumption == MaxCopies \in Nat /\ MaxDrops \in Nat

VARIABLES stage,   \* stage[r]: where request r stands, at last its HTTP status
          answer,  \* answer[r]: the request whose response r is given
          cache,   \* cache[k]: the response cached under key k
          wire,    \* requests whose usage event is in a batch of the writer
          log      \* the usage topic, a sequence of usage events

(***************************************************************************)
(* History: nothing in the program reads these.                            *)
(***************************************************************************)
VARIABLES granted, \* requests the budget check let through
          drops    \* usage events that were due and were dropped

cacheVars == <<answer, cache>>
topicVars == <<wire, log>>
vars      == <<stage, cacheVars, topicVars, granted, drops>>

----------------------------------------------------------------------------
Answered == {"200", "400", "401", "402", "403", "502", "gone"}
AtWork   == {"lookup", "allow", "upstream", "fill", "publish", "flush"}

Keys      == Range(Fingerprint)
Guarded(r) == Guard[PromptOf[r]]
Key(r)    == Fingerprint[Guarded(r)]

\* Mutant: a hit is reported like a provider call.
UsageOfProvider(r) == <<r, "provider">>

\* The usage event of r: its provider field says how the answer was come by.
UsageOf(r)  == <<r, IF answer[r] = r THEN "provider" ELSE "cache">>
Published(r) == UsageOf(r) \in Range(log)

Init ==
  /\ stage = [r \in Requests |-> "idle"]
  /\ answer = [r \in Requests |-> Nothing]
  /\ cache = [k \in Keys |-> Nothing]
  /\ wire = {} /\ log = << >>
  /\ granted = {} /\ drops = 0

Goto(r, from, to) == stage[r] = from /\ stage' = [stage EXCEPT ![r] = to]

(***************************************************************************)
(* The key is missing or unknown, identity fails, or the body is no JSON.  *)
(***************************************************************************)
TurnAway(r) ==
  /\ \E status \in {"401", "502", "400"} : Goto(r, "idle", status)
  /\ UNCHANGED <<cacheVars, topicVars, granted, drops>>

\* Mutant: the guardrail's verdict is not looked at.
AdmitUnguarded(r) ==
  /\ Goto(r, "idle", "lookup")
  /\ UNCHANGED <<cacheVars, topicVars, granted, drops>>

\* The caller is known.  The guardrail blocks the prompt or rewrites it.
Admit(r) ==
  /\ Goto(r, "idle", IF Guarded(r) = Nothing THEN "403" ELSE "lookup")
  /\ UNCHANGED <<cacheVars, topicVars, granted, drops>>

\* Mutant: a hit is answered without a usage event.
HitInSilence(r) ==
  /\ Goto(r, "lookup", "200")
  /\ cache[Key(r)] # Nothing
  /\ answer' = [answer EXCEPT ![r] = cache[Key(r)]]
  /\ UNCHANGED <<cache, topicVars, granted, drops>>

\* A hit is answered from the cache: no budget check and no provider call.
Hit(r) ==
  /\ Goto(r, "lookup", "publish")
  /\ cache[Key(r)] # Nothing
  /\ answer' = [answer EXCEPT ![r] = cache[Key(r)]]
  /\ UNCHANGED <<cache, topicVars, granted, drops>>

\* No entry, or the cache fails, which is logged and treated as a miss.
Miss(r) ==
  /\ Goto(r, "lookup", "allow")
  /\ UNCHANGED <<cacheVars, topicVars, granted, drops>>

Granted(r) ==
  /\ Goto(r, "allow", "upstream")
  /\ granted' = granted \cup {r}
  /\ UNCHANGED <<cacheVars, topicVars, drops>>

Refused(r) ==
  /\ Goto(r, "allow", "402")
  /\ UNCHANGED <<cacheVars, topicVars, granted, drops>>

\* Mutants: no verdict lets the request through; it starts the request over.
AllowFailsOpen(r) ==
  /\ Goto(r, "allow", "upstream")
  /\ UNCHANGED <<cacheVars, topicVars, granted, drops>>

AllowRetried(r) ==
  /\ Goto(r, "allow", "lookup")
  /\ UNCHANGED <<cacheVars, topicVars, granted, drops>>

\* No verdict: the gateway fails closed.
AllowFails(r) ==
  /\ Goto(r, "allow", "502")
  /\ UNCHANGED <<cacheVars, topicVars, granted, drops>>

Complete(r) ==
  /\ Goto(r, "upstream", "fill")
  /\ answer' = [answer EXCEPT ![r] = r]
  /\ UNCHANGED <<cache, topicVars, granted, drops>>

UpstreamFails(r) ==
  /\ Goto(r, "upstream", "502")
  /\ UNCHANGED <<cacheVars, topicVars, granted, drops>>

\* Mutant: a failure to cache the response ends the request.
FillOrAnswer(r) ==
  /\ \/ Goto(r, "fill", "publish") /\ cache' = [cache EXCEPT ![Key(r)] = answer[r]]
     \/ Goto(r, "fill", "200") /\ UNCHANGED cache
  /\ UNCHANGED <<answer, topicVars, granted, drops>>

\* A failure to cache the response is logged.
Fill(r) ==
  /\ Goto(r, "fill", "publish")
  /\ \/ cache' = [cache EXCEPT ![Key(r)] = answer[r]]
     \/ UNCHANGED cache
  /\ UNCHANGED <<answer, topicVars, granted, drops>>

\* Publish hands the event to a batch of the topic's writer and waits for it.
Publish(r) ==
  /\ Goto(r, "publish", "flush")
  /\ wire' = wire \cup {r}
  /\ UNCHANGED <<cacheVars, log, granted, drops>>

Drop(n) == drops' = drops + n /\ drops' <= MaxDrops

\* The topic cannot be looked up, or the client has gone: the event is dropped.
PublishFails(r) ==
  /\ Goto(r, "publish", "200")
  /\ Drop(1)
  /\ UNCHANGED <<cacheVars, topicVars, granted>>

\* The batch is done with, or the wait is over: either way the answer is 200.
Respond(r) ==
  /\ Goto(r, "flush", "200")
  /\ UNCHANGED <<cacheVars, topicVars, granted, drops>>

(***************************************************************************)
(* The writer's own thread.  A batch may be sent more than once before the *)
(* writer is done with it, and it asks for no acknowledgement: it may be   *)
(* done with a batch the broker never took.                                *)
(***************************************************************************)
BatchTaken(r) ==
  /\ r \in wire
  /\ Cardinality({o \in 1 .. Len(log) : log[o] = UsageOf(r)}) < MaxCopies
  /\ log' = Append(log, UsageOf(r))
  /\ UNCHANGED <<stage, cacheVars, wire, granted, drops>>

BatchDone(r) ==
  /\ r \in wire
  /\ wire' = wire \ {r}
  /\ IF Published(r) THEN UNCHANGED drops ELSE Drop(1)
  /\ UNCHANGED <<stage, cacheVars, log, granted>>

\* The TTL of an entry runs out, or Redis evicts it.
Evict(k) ==
  /\ cache[k] # Nothing
  /\ cache' = [cache EXCEPT ![k] = Nothing]
  /\ UNCHANGED <<stage, answer, topicVars, granted, drops>>

\* The process dies with its requests and its writer's batches.
Crash ==
  /\ Drop(Cardinality({r \in Requests : r \in wire \/ stage[r] \in {"fill", "publish"}}))
  /\ stage' = [r \in Requests |-> IF stage[r] \in AtWork THEN "gone" ELSE stage[r]]
  /\ wire' = {}
  /\ UNCHANGED <<cacheVars, log, granted>>

Handle(r) ==
  \/ TurnAway(r) \/ Admit(r) \/ Hit(r) \/ Miss(r)
  \/ Granted(r) \/ Refused(r) \/ AllowFails(r)
  \/ Complete(r) \/ UpstreamFails(r) \/ Fill(r)
  \/ Publish(r) \/ PublishFails(r) \/ Respond(r)

Write(r) == BatchTaken(r) \/ BatchDone(r)

Next ==
  \/ \E r \in Requests : Handle(r) \/ Write(r)
  \/ \E k \in Keys : Evict(k)
  \/ Crash

Spec == Init /\ [][Next]_vars

----------------------------------------------------------------------------
(***************************************************************************)
(* Every variable stays in its range; only a prompt the guardrail let      *)
(* through gets past it.                                                   *)
(***************************************************************************)
TypeOK ==
  /\ stage \in [Requests -> {"idle"} \cup AtWork \cup Answered]
  /\ \A r \in Requests : stage[r] \in AtWork => Guarded(r) # Nothing
  /\ answer \in [Requests -> Requests \cup {Nothing}]
  /\ cache \in [Keys -> Requests \cup {Nothing}]
  /\ wire \subseteq Requests
  /\ log \in Seq(Requests \X {"provider", "cache"})
  /\ granted \subseteq Requests
  /\ drops \in 0 .. MaxDrops

(***************************************************************************)
(* No free ride: every response served, from the provider or the cache,    *)
(* came from a provider call that a budget check let through, made for a   *)
(* prompt with the fingerprint of the one it answers, as guarded.          *)
(***************************************************************************)
AnswersArePaidFor ==
  \A r \in Requests :
    LET q == answer[r]
    IN  stage[r] = "200" => /\ q \in granted
                            /\ Guarded(q) # Nothing /\ Key(q) = Key(r)

(***************************************************************************)
(* Every response the provider produced, and every one served, is in the   *)
(* topic, on its way to it, or one of the drops: nothing else of the       *)
(* request path loses usage.                                               *)
(***************************************************************************)
UsageAccountedFor ==
  Cardinality({r \in Requests : /\ answer[r] # Nothing
                                /\ stage[r] \notin {"fill", "publish"}
                                /\ r \notin wire /\ ~Published(r)}) <= drops

(***************************************************************************)
(* A provider call is metered at most at its own price: the topic says     *)
(* "provider" only of a request that was granted, and tells one story of   *)
(* a request however often its batch was sent.                             *)
(***************************************************************************)
OneStoryPerRequest ==
  /\ \A m \in Range(log) : m[2] = "provider" => m[1] \in granted
  /\ \A m, n \in Range(log) : m[1] = n[1] => m = n
=============================================================================
