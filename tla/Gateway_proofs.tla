--------------------------- MODULE Gateway_proofs ---------------------------
(***************************************************************************)
(* Theorems about the gateway, for any number of requests and prompts, any *)
(* guardrail and any fingerprint, whatever prompts it makes meet.          *)
(***************************************************************************)
EXTENDS Gateway, FiniteSetTheorems, TLAPS

USE RequestsAssumption, GuardAssumption, BoundAssumption

----------------------------------------------------------------------------
(* Facts about keys, sequences and steps.                                  *)

\* A prompt the guardrail let through has a key.
LEMMA KeyInRange ==
  ASSUME NEW r \in Requests, Guarded(r) # Nothing
  PROVE  Key(r) \in Keys
  BY DEF Guarded, Key, Keys, Range

\* Appending adds one element.
LEMMA RangeOfAppend ==
  ASSUME NEW S, NEW s \in Seq(S), NEW e \in S
  PROVE  Range(Append(s, e)) = Range(s) \cup {e}
<1>1. /\ Len(Append(s, e)) = Len(s) + 1 /\ Len(s) \in Nat
      /\ DOMAIN s = 1 .. Len(s) /\ DOMAIN Append(s, e) = 1 .. Len(s) + 1
  OBVIOUS
<1>2. \A i \in 1 .. Len(s) : Append(s, e)[i] = s[i]
  OBVIOUS
<1>3. Append(s, e)[Len(s) + 1] = e
  OBVIOUS
<1>4. 1 .. Len(s) + 1 = (1 .. Len(s)) \cup {Len(s) + 1}
  BY <1>1, SMT
<1> QED
  BY <1>1, <1>2, <1>3, <1>4 DEF Range

\* A step of one request moves that request alone.
LEMMA GotoMoves ==
  ASSUME TypeOK, NEW r \in Requests, NEW from, NEW to, Goto(r, from, to)
  PROVE  /\ stage[r] = from /\ stage'[r] = to
         /\ \A q \in Requests : q # r => stage'[q] = stage[q]
  BY DEF Goto, TypeOK

----------------------------------------------------------------------------
(* Types.                                                                  *)

\* A count of requests is a natural number.
LEMMA RequestsCounted ==
  ASSUME NEW S \in SUBSET Requests PROVE Cardinality(S) \in Nat
  BY FS_Subset, FS_CardinalityType

LEMMA DropType ==
  ASSUME TypeOK, NEW n \in Nat, Drop(n) PROVE drops' \in 0 .. MaxDrops
  BY SMT DEF TypeOK, Drop

LEMMA HandleKeepsType ==
  ASSUME TypeOK, NEW r \in Requests, Handle(r) PROVE TypeOK'
<1> USE DEF TypeOK, AtWork, Answered, Goto, cacheVars, topicVars
<1>1. CASE TurnAway(r)
  BY <1>1 DEF TurnAway
<1>2. CASE Admit(r)
  BY <1>2 DEF Admit
<1>3. CASE Hit(r)
  <2>1. Key(r) \in Keys
    BY <1>3, KeyInRange DEF Hit
  <2> QED
    BY <1>3, <2>1 DEF Hit
<1>4. CASE Miss(r)
  BY <1>4 DEF Miss
<1>5. CASE Granted(r)
  BY <1>5 DEF Granted
<1>6. CASE Refused(r)
  BY <1>6 DEF Refused
<1>7. CASE AllowFails(r)
  BY <1>7 DEF AllowFails
<1>8. CASE Complete(r)
  BY <1>8 DEF Complete
<1>9. CASE UpstreamFails(r)
  BY <1>9 DEF UpstreamFails
<1>10. CASE Fill(r)
  <2>1. Key(r) \in Keys
    BY <1>10, KeyInRange DEF Fill
  <2> QED
    BY <1>10, <2>1 DEF Fill
<1>11. CASE Publish(r)
  BY <1>11 DEF Publish
<1>12. CASE PublishFails(r)
  BY <1>12, DropType DEF PublishFails
<1>13. CASE Respond(r)
  BY <1>13 DEF Respond
<1> QED
  BY <1>1, <1>2, <1>3, <1>4, <1>5, <1>6, <1>7, <1>8, <1>9, <1>10, <1>11, <1>12, <1>13
     DEF Handle

LEMMA NextKeepsType == TypeOK /\ [Next]_vars => TypeOK'
<1> SUFFICES ASSUME TypeOK, [Next]_vars PROVE TypeOK'
  OBVIOUS
<1>1. ASSUME NEW r \in Requests, Handle(r) PROVE TypeOK'
  BY <1>1, HandleKeepsType
<1>2. ASSUME NEW r \in Requests, BatchTaken(r) PROVE TypeOK'
  <2>1. UsageOf(r) \in Requests \X {"provider", "cache"}
    BY DEF UsageOf
  <2>2. log' \in Seq(Requests \X {"provider", "cache"})
    BY <1>2, <2>1 DEF BatchTaken, TypeOK
  <2> QED
    BY <1>2, <2>2 DEF BatchTaken, TypeOK, cacheVars
<1>3. ASSUME NEW r \in Requests, BatchDone(r) PROVE TypeOK'
  <2>1. drops' \in 0 .. MaxDrops
    BY <1>3, DropType DEF BatchDone, TypeOK
  <2> QED
    BY <1>3, <2>1 DEF BatchDone, TypeOK, cacheVars
<1>4. ASSUME NEW k \in Keys, Evict(k) PROVE TypeOK'
  BY <1>4 DEF Evict, TypeOK, topicVars
<1>5. CASE Crash
  <2>1. drops' \in 0 .. MaxDrops
    BY <1>5, DropType, RequestsCounted DEF Crash
  <2>2. stage' \in [Requests -> {"idle"} \cup AtWork \cup Answered]
    BY <1>5 DEF Crash, TypeOK, AtWork, Answered
  <2>3. \A r \in Requests : stage'[r] \notin AtWork
    BY <1>5 DEF Crash, AtWork
  <2> QED
    BY <1>5, <2>1, <2>2, <2>3 DEF Crash, TypeOK, cacheVars
<1>6. CASE UNCHANGED vars
  BY <1>6 DEF vars, TypeOK, cacheVars, topicVars
<1> QED
  BY <1>1, <1>2, <1>3, <1>4, <1>5, <1>6 DEF Next, Write

\* Every variable stays in its range; a prompt the guardrail blocked gets
\* no further.
THEOREM TypeCorrect == Spec => []TypeOK
<1>1. Init => TypeOK
  BY SMT DEF Init, TypeOK, AtWork, Answered
<1> QED
  BY <1>1, NextKeepsType, PTL DEF Spec

----------------------------------------------------------------------------
(***************************************************************************)
(* Responses.  A response is born at a granted request, under that         *)
(* request's key, and travels through the cache entry of that key only.    *)
(***************************************************************************)
FitFor(q, k) == q \in granted /\ Guarded(q) # Nothing /\ Key(q) = k

PaidInv ==
  /\ \A k \in Keys : cache[k] # Nothing => FitFor(cache[k], k)
  /\ \A r \in Requests :
       /\ answer[r] # Nothing => FitFor(answer[r], Key(r))
       /\ stage[r] = "upstream" => r \in granted
       /\ stage[r] \in {"fill", "publish", "flush", "200"} => answer[r] # Nothing

LEMMA HandleKeepsPaid ==
  ASSUME TypeOK, PaidInv, NEW r \in Requests, Handle(r) PROVE PaidInv'
<1> USE DEF PaidInv, FitFor, cacheVars, topicVars
<1>1. Guarded(r) # Nothing => Key(r) \in Keys
  BY KeyInRange
<1>2. CASE TurnAway(r)
  BY <1>2, GotoMoves DEF TurnAway
<1>3. CASE Admit(r)
  <2>1. PICK to \in {"403", "lookup"} : Goto(r, "idle", to)
    BY <1>3 DEF Admit
  <2> QED
    BY <1>3, <2>1, GotoMoves DEF Admit
<1>4. CASE Hit(r)
  <2>1. stage[r] = "lookup" /\ stage'[r] = "publish"
        /\ \A q \in Requests : q # r => stage'[q] = stage[q]
    BY <1>4, GotoMoves DEF Hit
  <2>2. FitFor(cache[Key(r)], Key(r))
    BY <1>1, <1>4, <2>1 DEF Hit, TypeOK, AtWork
  <2>3. answer'[r] = cache[Key(r)] /\ \A q \in Requests : q # r => answer'[q] = answer[q]
    BY <1>4 DEF Hit, TypeOK
  <2> QED
    BY <1>4, <2>1, <2>2, <2>3 DEF Hit
<1>5. CASE Miss(r)
  BY <1>5, GotoMoves DEF Miss
<1>6. CASE Granted(r)
  BY <1>6, GotoMoves DEF Granted
<1>7. CASE Refused(r)
  BY <1>7, GotoMoves DEF Refused
<1>8. CASE AllowFails(r)
  BY <1>8, GotoMoves DEF AllowFails
<1>9. CASE Complete(r)
  <2>1. stage[r] = "upstream" /\ stage'[r] = "fill"
        /\ \A q \in Requests : q # r => stage'[q] = stage[q]
    BY <1>9, GotoMoves DEF Complete
  <2>2. FitFor(r, Key(r))
    BY <2>1 DEF TypeOK, AtWork
  <2>3. answer'[r] = r /\ \A q \in Requests : q # r => answer'[q] = answer[q]
    BY <1>9 DEF Complete, TypeOK
  <2> QED
    BY <1>9, <2>1, <2>2, <2>3 DEF Complete
<1>10. CASE UpstreamFails(r)
  BY <1>10, GotoMoves DEF UpstreamFails
<1>11. CASE Fill(r)
  <2>1. stage[r] = "fill" /\ stage'[r] = "publish"
        /\ \A q \in Requests : q # r => stage'[q] = stage[q]
    BY <1>11, GotoMoves DEF Fill
  <2>2. FitFor(answer[r], Key(r))
    BY <2>1
  <2>3. \A k \in Keys : cache'[k] = cache[k] \/ (k = Key(r) /\ cache'[k] = answer[r])
    BY <1>11 DEF Fill, TypeOK
  <2> QED
    BY <1>11, <2>1, <2>2, <2>3 DEF Fill
<1>12. CASE Publish(r)
  BY <1>12, GotoMoves DEF Publish
<1>13. CASE PublishFails(r)
  BY <1>13, GotoMoves DEF PublishFails
<1>14. CASE Respond(r)
  BY <1>14, GotoMoves DEF Respond
<1> QED
  BY <1>2, <1>3, <1>4, <1>5, <1>6, <1>7, <1>8, <1>9, <1>10, <1>11, <1>12, <1>13, <1>14
     DEF Handle

LEMMA PaidInvHolds == Spec => []PaidInv
<1>1. Init => PaidInv
  BY DEF Init, PaidInv
<1>2. TypeOK /\ PaidInv /\ [Next]_vars => PaidInv'
  <2> SUFFICES ASSUME TypeOK, PaidInv, [Next]_vars PROVE PaidInv'
    OBVIOUS
  <2>1. ASSUME NEW r \in Requests, Handle(r) PROVE PaidInv'
    BY <2>1, HandleKeepsPaid
  <2>2. CASE \E r \in Requests : Write(r)
    BY <2>2 DEF Write, BatchTaken, BatchDone, PaidInv, FitFor, cacheVars
  <2>3. ASSUME NEW k \in Keys, Evict(k) PROVE PaidInv'
    <3>1. \A j \in Keys : cache'[j] = cache[j] \/ cache'[j] = Nothing
      BY <2>3 DEF Evict, TypeOK
    <3> QED
      BY <2>3, <3>1 DEF Evict, PaidInv, FitFor
  <2>4. CASE Crash
    <3>1. \A r \in Requests : stage'[r] = stage[r] \/ stage'[r] = "gone"
      BY <2>4 DEF Crash
    <3> QED
      BY <2>4, <3>1 DEF Crash, PaidInv, FitFor, cacheVars
  <2>5. CASE UNCHANGED vars
    BY <2>5 DEF vars, cacheVars, PaidInv, FitFor
  <2> QED
    BY <2>1, <2>2, <2>3, <2>4, <2>5 DEF Next
<1> QED
  BY <1>1, <1>2, TypeCorrect, PTL DEF Spec

\* No response is free: each served one came from a granted provider call
\* for a prompt with the same fingerprint.
THEOREM ResponsesArePaidFor == Spec => []AnswersArePaidFor
<1>1. PaidInv => AnswersArePaidFor
  BY DEF PaidInv, FitFor, AnswersArePaidFor
<1> QED
  BY <1>1, PaidInvHolds, PTL

----------------------------------------------------------------------------
(***************************************************************************)
(* Usage events.  What a request has handed to the writer, or the topic    *)
(* holds of it, was derived from an answer that no longer changes.         *)
(***************************************************************************)
Settled == {"flush", "200", "gone"}

StoryInv ==
  /\ \A r \in wire : stage[r] \in Settled
  /\ \A m \in Range(log) :
       m[1] \in Requests /\ stage[m[1]] \in Settled /\ m = UsageOf(m[1])

\* Requests that are settled stay so, with their answer, and the topic stays.
LEMMA SettledStays ==
  ASSUME TypeOK, NEW r \in Requests, Handle(r), NEW q \in Requests, stage[q] \in Settled
  PROVE  /\ stage'[q] \in Settled /\ UsageOf(q)' = UsageOf(q)
         /\ q \in wire' <=> q \in wire
<1> USE DEF Settled, cacheVars, topicVars, UsageOf
<1>1. CASE TurnAway(r)
  BY <1>1, GotoMoves DEF TurnAway
<1>2. CASE Admit(r)
  <2>1. PICK to \in {"403", "lookup"} : Goto(r, "idle", to)
    BY <1>2 DEF Admit
  <2> QED
    BY <1>2, <2>1, GotoMoves DEF Admit
<1>3. CASE Hit(r)
  <2>1. q # r /\ stage'[q] = stage[q]
    BY <1>3, GotoMoves DEF Hit
  <2> QED
    BY <1>3, <2>1 DEF Hit, TypeOK
<1>4. CASE Miss(r) \/ Refused(r) \/ AllowFails(r) \/ UpstreamFails(r) \/ Respond(r)
  BY <1>4, GotoMoves DEF Miss, Refused, AllowFails, UpstreamFails, Respond
<1>5. CASE Granted(r) \/ Fill(r) \/ PublishFails(r)
  BY <1>5, GotoMoves DEF Granted, Fill, PublishFails
<1>6. CASE Complete(r)
  <2>1. q # r /\ stage'[q] = stage[q]
    BY <1>6, GotoMoves DEF Complete
  <2> QED
    BY <1>6, <2>1 DEF Complete, TypeOK
<1>7. CASE Publish(r)
  <2>1. q # r /\ stage'[q] = stage[q]
    BY <1>7, GotoMoves DEF Publish
  <2> QED
    BY <1>7, <2>1 DEF Publish
<1> QED
  BY <1>1, <1>2, <1>3, <1>4, <1>5, <1>6, <1>7 DEF Handle

LEMMA HandleKeepsStory ==
  ASSUME TypeOK, StoryInv, NEW r \in Requests, Handle(r) PROVE StoryInv'
<1>1. log' = log
  BY DEF Handle, TurnAway, Admit, Hit, Miss, Granted, Refused, AllowFails, Complete,
         UpstreamFails, Fill, Publish, PublishFails, Respond, topicVars
<1>2. \A m \in Range(log) : stage'[m[1]] \in Settled /\ m = UsageOf(m[1])'
  BY SettledStays DEF StoryInv
<1>3. \A q \in wire' : q \in wire \/ (q = r /\ stage'[r] = "flush")
  <2>1. CASE Publish(r)
    BY <2>1, GotoMoves DEF Publish
  <2>2. CASE ~Publish(r)
    BY <2>2 DEF Handle, TurnAway, Admit, Hit, Miss, Granted, Refused, AllowFails, Complete,
         UpstreamFails, Fill, PublishFails, Respond, topicVars
  <2> QED
    BY <2>1, <2>2
<1>4. \A q \in wire' : stage'[q] \in Settled
  BY <1>3, SettledStays DEF StoryInv, TypeOK, Settled
<1> QED
  BY <1>1, <1>2, <1>4 DEF StoryInv

LEMMA StoryInvHolds == Spec => []StoryInv
<1>1. Init => StoryInv
  <2>1. Range(<< >>) = {}
    BY DEF Range
  <2> QED
    BY <2>1 DEF Init, StoryInv
<1>2. TypeOK /\ StoryInv /\ [Next]_vars => StoryInv'
  <2> SUFFICES ASSUME TypeOK, StoryInv, [Next]_vars PROVE StoryInv'
    OBVIOUS
  <2>1. ASSUME NEW r \in Requests, Handle(r) PROVE StoryInv'
    BY <2>1, HandleKeepsStory
  <2>2. ASSUME NEW r \in Requests, BatchTaken(r) PROVE StoryInv'
    <3>1. UsageOf(r) \in Requests \X {"provider", "cache"} /\ UsageOf(r)[1] = r
      BY DEF UsageOf
    <3>2. Range(log') = Range(log) \cup {UsageOf(r)}
      <4>1. log \in Seq(Requests \X {"provider", "cache"}) /\ log' = Append(log, UsageOf(r))
        BY <2>2 DEF BatchTaken, TypeOK
      <4> QED
        BY <3>1, <4>1, RangeOfAppend
    <3>3. \A q : UsageOf(q)' = UsageOf(q)
      BY <2>2 DEF BatchTaken, cacheVars, UsageOf
    <3>4. stage' = stage /\ wire' = wire /\ r \in wire
      BY <2>2 DEF BatchTaken
    <3> QED
      BY <3>1, <3>2, <3>3, <3>4 DEF StoryInv
  <2>3. ASSUME NEW r \in Requests, BatchDone(r) PROVE StoryInv'
    BY <2>3 DEF BatchDone, StoryInv, cacheVars, UsageOf
  <2>4. CASE \E k \in Keys : Evict(k)
    BY <2>4 DEF Evict, StoryInv, topicVars, UsageOf
  <2>5. CASE Crash
    <3>1. \A r \in Requests : stage[r] \in Settled => stage'[r] \in Settled
      BY <2>5 DEF Crash, Settled
    <3> QED
      BY <2>5, <3>1 DEF Crash, StoryInv, cacheVars, UsageOf
  <2>6. CASE UNCHANGED vars
    BY <2>6 DEF vars, cacheVars, topicVars, StoryInv, UsageOf
  <2> QED
    BY <2>1, <2>2, <2>3, <2>4, <2>5, <2>6 DEF Next, Write
<1> QED
  BY <1>1, <1>2, TypeCorrect, PTL DEF Spec

\* The topic tells one story of a request, and says "provider" only of one
\* that was granted.
THEOREM TopicTellsOneStory == Spec => []OneStoryPerRequest
<1>1. TypeOK /\ PaidInv /\ StoryInv => OneStoryPerRequest
  <2> SUFFICES ASSUME TypeOK, PaidInv, StoryInv PROVE OneStoryPerRequest
    OBVIOUS
  <2>1. ASSUME NEW m \in Range(log), m[2] = "provider" PROVE m[1] \in granted
    <3>1. m[1] \in Requests /\ m = UsageOf(m[1])
      BY DEF StoryInv
    <3>2. answer[m[1]] = m[1]
      BY <2>1, <3>1 DEF UsageOf
    <3> QED
      BY <3>1, <3>2 DEF PaidInv, FitFor
  <2>2. \A m, n \in Range(log) : m[1] = n[1] => m = n
    BY DEF StoryInv
  <2> QED
    BY <2>1, <2>2 DEF OneStoryPerRequest
<1> QED
  BY <1>1, TypeCorrect, PaidInvHolds, StoryInvHolds, PTL

----------------------------------------------------------------------------
(***************************************************************************)
(* Usage.  A request is unaccounted for when it has a response, is through *)
(* with publishing, and neither the writer nor the topic has its event.    *)
(***************************************************************************)
Unaccounted == {r \in Requests : /\ answer[r] # Nothing
                                 /\ stage[r] \notin {"fill", "publish"}
                                 /\ r \notin wire /\ ~Published(r)}

LEMMA UnaccountedFinite ==
  /\ IsFiniteSet(Unaccounted) /\ Cardinality(Unaccounted) \in Nat
  /\ IsFiniteSet(Unaccounted') /\ Cardinality(Unaccounted') \in Nat
<1>1. Unaccounted \in SUBSET Requests /\ Unaccounted' \in SUBSET Requests
  BY DEF Unaccounted
<1> QED
  BY <1>1, FS_Subset, FS_CardinalityType

\* A step that adds no more requests than it drops events keeps the account.
LEMMA DropsCover ==
  ASSUME TypeOK, UsageAccountedFor, NEW S \in SUBSET Requests,
         Unaccounted' \subseteq Unaccounted \cup S, drops' = drops + Cardinality(S)
  PROVE  UsageAccountedFor'
<1>1. IsFiniteSet(S) /\ Cardinality(S) \in Nat
  BY FS_Subset, FS_CardinalityType
<1>2. IsFiniteSet(Unaccounted) /\ Cardinality(Unaccounted) \in Nat
  BY UnaccountedFinite
<1>3. /\ IsFiniteSet(Unaccounted \cup S) /\ IsFiniteSet(Unaccounted \cap S)
      /\ Cardinality(Unaccounted \cup S)
           = Cardinality(Unaccounted) + Cardinality(S) - Cardinality(Unaccounted \cap S)
  BY <1>1, <1>2, FS_Union, FS_Intersection
<1>4. Cardinality(Unaccounted \cap S) \in Nat /\ Cardinality(Unaccounted \cup S) \in Nat
  BY <1>3, FS_CardinalityType
<1>5. Cardinality(Unaccounted') <= Cardinality(Unaccounted \cup S)
  BY <1>3, FS_Subset
<1>6. Cardinality(Unaccounted) <= drops /\ drops \in Nat
  BY DEF UsageAccountedFor, Unaccounted, TypeOK
<1>7. Cardinality(Unaccounted') <= drops'
  BY <1>1, <1>2, <1>3, <1>4, <1>5, <1>6, UnaccountedFinite
<1> QED
  BY <1>7 DEF UsageAccountedFor, Unaccounted

\* A step that adds none and drops none keeps it, too.
LEMMA NoneAdded ==
  ASSUME TypeOK, UsageAccountedFor, Unaccounted' \subseteq Unaccounted, drops' = drops
  PROVE  UsageAccountedFor'
<1>1. Cardinality({}) = 0
  BY FS_EmptySet
<1>2. drops' = drops + Cardinality({})
  BY <1>1 DEF TypeOK
<1> QED
  BY <1>2, DropsCover

LEMMA HandleKeepsAccount ==
  ASSUME TypeOK, UsageAccountedFor, NEW r \in Requests, Handle(r)
  PROVE  UsageAccountedFor'
<1>1. CASE PublishFails(r)
  <2>1. /\ UNCHANGED <<answer, wire, log>> /\ drops' = drops + 1
        /\ \A q \in Requests : q # r => stage'[q] = stage[q]
    BY <1>1, GotoMoves DEF PublishFails, Drop, cacheVars, topicVars
  <2>2. Unaccounted' \subseteq Unaccounted \cup {r}
    BY <2>1 DEF Unaccounted, Published, UsageOf
  <2>3. Cardinality({r}) = 1
    BY FS_Singleton
  <2> QED
    BY <2>1, <2>2, <2>3, DropsCover
<1>2. CASE Hit(r) \/ Complete(r)
  <2>1. /\ UNCHANGED <<wire, log, drops>> /\ stage'[r] \in {"publish", "fill"}
        /\ \A q \in Requests : q # r => stage'[q] = stage[q]
    BY <1>2, GotoMoves DEF Hit, Complete, topicVars
  <2>2. \A q \in Requests : q # r => answer'[q] = answer[q]
    BY <1>2 DEF Hit, Complete, TypeOK
  <2>3. Unaccounted' \subseteq Unaccounted
    BY <2>1, <2>2 DEF Unaccounted, Published, UsageOf
  <2> QED
    BY <2>1, <2>3, NoneAdded
<1>3. CASE Publish(r)
  <2>1. /\ UNCHANGED <<answer, log, drops>> /\ wire' = wire \cup {r}
        /\ \A q \in Requests : q # r => stage'[q] = stage[q]
    BY <1>3, GotoMoves DEF Publish, cacheVars
  <2>2. Unaccounted' \subseteq Unaccounted
    BY <2>1 DEF Unaccounted, Published, UsageOf
  <2> QED
    BY <2>1, <2>2, NoneAdded
<1>4. CASE \/ TurnAway(r) \/ Admit(r) \/ Miss(r) \/ Granted(r) \/ Refused(r)
           \/ AllowFails(r) \/ UpstreamFails(r) \/ Respond(r)
  <2>1. UNCHANGED <<answer, wire, log, drops>>
    BY <1>4 DEF TurnAway, Admit, Miss, Granted, Refused, AllowFails, UpstreamFails, Respond,
                cacheVars, topicVars
  <2>2. PICK from \in {"idle", "lookup", "allow", "upstream", "flush"} :
                \E to : Goto(r, from, to)
    BY <1>4 DEF TurnAway, Admit, Miss, Granted, Refused, AllowFails, UpstreamFails, Respond
  <2>3. /\ stage[r] \notin {"fill", "publish"}
        /\ \A q \in Requests : q # r => stage'[q] = stage[q]
    BY <2>2, GotoMoves
  <2>4. Unaccounted' \subseteq Unaccounted
    BY <2>1, <2>3 DEF Unaccounted, Published, UsageOf
  <2> QED
    BY <2>1, <2>4, NoneAdded
<1>5. CASE Fill(r)
  <2>1. /\ UNCHANGED <<answer, wire, log, drops>> /\ stage'[r] = "publish"
        /\ \A q \in Requests : q # r => stage'[q] = stage[q]
    BY <1>5, GotoMoves DEF Fill, topicVars
  <2>2. Unaccounted' \subseteq Unaccounted
    BY <2>1 DEF Unaccounted, Published, UsageOf
  <2> QED
    BY <2>1, <2>2, NoneAdded
<1> QED
  BY <1>1, <1>2, <1>3, <1>4, <1>5 DEF Handle

\* The usage of every response is in the topic, on its way to it, or one of
\* the drops.
THEOREM NoUsageUnaccounted == Spec => []UsageAccountedFor
<1>1. Init => UsageAccountedFor
  <2> SUFFICES ASSUME Init PROVE UsageAccountedFor
    OBVIOUS
  <2>1. Unaccounted = {}
    BY DEF Init, Unaccounted
  <2>2. Cardinality(Unaccounted) = 0 /\ drops = 0
    BY <2>1, FS_EmptySet DEF Init
  <2> QED
    BY <2>2 DEF UsageAccountedFor, Unaccounted
<1>2. TypeOK /\ UsageAccountedFor /\ [Next]_vars => UsageAccountedFor'
  <2> SUFFICES ASSUME TypeOK, UsageAccountedFor, [Next]_vars PROVE UsageAccountedFor'
    OBVIOUS
  <2>1. ASSUME NEW r \in Requests, Handle(r) PROVE UsageAccountedFor'
    BY <2>1, HandleKeepsAccount
  <2>2. ASSUME NEW r \in Requests, BatchTaken(r) PROVE UsageAccountedFor'
    <3>1. /\ UNCHANGED <<stage, answer, wire, drops>>
          /\ UsageOf(r) \in Requests \X {"provider", "cache"}
      BY <2>2 DEF BatchTaken, cacheVars, UsageOf
    <3>2. Range(log') = Range(log) \cup {UsageOf(r)}
      <4>1. log \in Seq(Requests \X {"provider", "cache"}) /\ log' = Append(log, UsageOf(r))
        BY <2>2 DEF BatchTaken, TypeOK
      <4> QED
        BY <3>1, <4>1, RangeOfAppend
    <3>3. Unaccounted' \subseteq Unaccounted
      BY <3>1, <3>2 DEF Unaccounted, Published, UsageOf
    <3> QED
      BY <3>1, <3>3, NoneAdded
  <2>3. ASSUME NEW r \in Requests, BatchDone(r) PROVE UsageAccountedFor'
    <3>1. UNCHANGED <<stage, answer, log>> /\ wire' = wire \ {r}
      BY <2>3 DEF BatchDone, cacheVars
    <3>2. CASE Published(r)
      <4>1. drops' = drops
        BY <2>3, <3>2 DEF BatchDone
      <4>2. Unaccounted' \subseteq Unaccounted
        BY <3>1, <3>2 DEF Unaccounted, Published, UsageOf
      <4> QED
        BY <4>1, <4>2, NoneAdded
    <3>3. CASE ~Published(r)
      <4>1. drops' = drops + 1
        BY <2>3, <3>3 DEF BatchDone, Drop
      <4>2. Unaccounted' \subseteq Unaccounted \cup {r}
        BY <3>1 DEF Unaccounted, Published, UsageOf
      <4>3. Cardinality({r}) = 1
        BY FS_Singleton
      <4> QED
        BY <4>1, <4>2, <4>3, DropsCover
    <3> QED
      BY <3>2, <3>3
  <2>4. ASSUME NEW k \in Keys, Evict(k) PROVE UsageAccountedFor'
    <3>1. UNCHANGED <<stage, answer, wire, log, drops>>
      BY <2>4 DEF Evict, topicVars
    <3> QED
      BY <3>1 DEF UsageAccountedFor, Published, UsageOf
  <2>5. CASE Crash
    <3> DEFINE S == {r \in Requests : r \in wire \/ stage[r] \in {"fill", "publish"}}
    <3>1. /\ UNCHANGED <<answer, log>> /\ drops' = drops + Cardinality(S)
      BY <2>5 DEF Crash, Drop, cacheVars
    <3>2. Unaccounted' \subseteq Unaccounted \cup S
      BY <3>1 DEF Unaccounted, Published, UsageOf
    <3> HIDE DEF S
    <3>3. S \in SUBSET Requests
      BY DEF S
    <3> QED
      BY <3>1, <3>2, <3>3, DropsCover
  <2>6. CASE UNCHANGED vars
    BY <2>6 DEF vars, cacheVars, topicVars, UsageAccountedFor, Published, UsageOf
  <2> QED
    BY <2>1, <2>2, <2>3, <2>4, <2>5, <2>6 DEF Next, Write
<1> QED
  BY <1>1, <1>2, TypeCorrect, PTL DEF Spec
=============================================================================
