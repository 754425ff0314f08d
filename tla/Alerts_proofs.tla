---------------------------- MODULE Alerts_proofs ----------------------------
(***************************************************************************)
(* Theorems about the road of an alert, for any set of denials and any     *)
(* number of copies, failures and rejoins.                                 *)
(***************************************************************************)
EXTENDS Alerts, SumTheorems

USE AlertsAssumption, BoundAssumption

----------------------------------------------------------------------------
(***************************************************************************)
(* Types.  TypeOK alone is not inductive: that the message in hand is one  *)
(* of the topic takes an offset above 0 from the fetch to the post.        *)
(***************************************************************************)
TypeInv == TypeOK /\ (stage \in {"commit", "post"} => held > 0)

\* The message in hand is an alert of a denied call.
LEMMA AlertInHand ==
  ASSUME TypeInv, stage \in {"commit", "post"}
  PROVE  Alert \in Denials /\ held \in 1 .. Len(topic)
<1>1. held \in 1 .. Len(topic)
  BY DEF TypeInv, TypeOK
<1> QED
  BY <1>1 DEF TypeInv, TypeOK, Alert

\* A failure keeps the history in range.
LEMMA StrikeType ==
  ASSUME TypeOK, NEW S \in SUBSET Denials, Strike(S)
  PROVE  faults' \in 0 .. MaxFaults /\ failed' \subseteq Denials
<1>1. faults' \in 0 .. MaxFaults
  BY SMT DEF TypeOK, Strike
<1> QED
  BY <1>1 DEF TypeOK, Strike

\* The steps of budget and its writer.
LEMMA BudgetKeepsType ==
  ASSUME TypeInv,
         (\E a \in Denials : Deny(a) \/ Publish(a) \/ PublishFails(a))
           \/ BatchTaken \/ BatchDone \/ BudgetCrash
  PROVE  TypeInv'
<1> USE DEF TypeInv, readerVars
<1>1. ASSUME NEW a \in Denials, Deny(a) PROVE TypeInv'
  BY <1>1 DEF Deny, TypeOK
<1>2. ASSUME NEW a \in Denials, Publish(a) PROVE TypeInv'
  BY <1>2 DEF Publish, TypeOK
<1>3. ASSUME NEW a \in Denials, PublishFails(a) PROVE TypeInv'
  <2>1. faults' \in 0 .. MaxFaults /\ failed' \subseteq Denials
    BY <1>3, StrikeType DEF PublishFails
  <2> QED
    BY <1>3, <2>1 DEF PublishFails, TypeOK
<1>4. ASSUME queue # << >> PROVE Head(queue) \in Denials /\ Tail(queue) \in Seq(Denials)
  BY <1>4 DEF TypeOK
<1>5. CASE BatchTaken
  <2>1. topic' \in Seq(Denials) /\ Len(topic') = Len(topic) + 1
    BY <1>4, <1>5 DEF BatchTaken, TypeOK
  <2>2. {committed, next, held} \subseteq 0 .. Len(topic')
    BY <2>1, SMT DEF TypeOK
  <2> QED
    BY <1>5, <2>1, <2>2 DEF BatchTaken, TypeOK
<1>6. CASE BatchDone
  <2>1. faults' \in 0 .. MaxFaults /\ failed' \subseteq Denials
    BY <1>4, <1>6, StrikeType DEF BatchDone, TypeOK
  <2> QED
    BY <1>4, <1>6, <2>1 DEF BatchDone, TypeOK
<1>7. CASE BudgetCrash
  <2>1. faults' \in 0 .. MaxFaults /\ failed' \subseteq Denials
    BY <1>7, StrikeType DEF BudgetCrash, Unsent
  <2> QED
    BY <1>7, <2>1 DEF BudgetCrash, TypeOK
<1> QED
  BY <1>1, <1>2, <1>3, <1>5, <1>6, <1>7

\* The steps of the notifier.
LEMMA NotifierKeepsType ==
  ASSUME TypeInv,
         Fetch \/ Commit \/ CommitFails \/ Post \/ PostFails \/ Start \/ Crash \/ Rejoin
  PROVE  TypeInv'
<1> USE DEF TypeInv, budgetVars
<1>1. CASE Fetch
  <2>1. next + 1 \in 1 .. Len(topic)
    BY <1>1, SMT DEF Fetch, TypeOK
  <2> QED
    BY <1>1, <2>1 DEF Fetch, TypeOK
<1>2. CASE Commit
  BY <1>2 DEF Commit, TypeOK
<1>3. CASE CommitFails
  <2>1. faults' \in 0 .. MaxFaults /\ failed' \subseteq Denials
    BY <1>3, AlertInHand, StrikeType DEF CommitFails
  <2> QED
    BY <1>3, <2>1 DEF CommitFails, TypeOK
<1>4. CASE Post
  <2>1. Alert \in Denials /\ heard \in [Denials -> Nat]
    BY <1>4, AlertInHand DEF Post, TypeOK
  <2>2. heard' \in [Denials -> Nat]
    BY <1>4, <2>1 DEF Post
  <2> QED
    BY <1>4, <2>2 DEF Post, TypeOK
<1>5. CASE PostFails
  <2>1. faults' \in 0 .. MaxFaults /\ failed' \subseteq Denials
    BY <1>5, AlertInHand, StrikeType DEF PostFails
  <2>2. heard' \in [Denials -> Nat]
    <3>1. Alert \in Denials /\ heard[Alert] + 1 \in Nat
      BY <1>5, AlertInHand DEF PostFails, TypeOK
    <3>2. heard' = heard \/ heard' = [heard EXCEPT ![Alert] = heard[Alert] + 1]
      BY <1>5 DEF PostFails
    <3> QED
      BY <3>1, <3>2 DEF TypeOK
  <2> QED
    BY <1>5, <2>1, <2>2 DEF PostFails, TypeOK
<1>6. CASE Start
  BY <1>6 DEF Start, TypeOK
<1>7. CASE Crash
  <2>1. faults' \in 0 .. MaxFaults /\ failed' \subseteq Denials
    BY <1>7, AlertInHand, StrikeType DEF Crash
  <2> QED
    BY <1>7, <2>1 DEF Crash, TypeOK
<1>8. CASE Rejoin
  <2>1. rejoins' \in 0 .. MaxRejoins
    BY <1>8, SMT DEF Rejoin, TypeOK
  <2> QED
    BY <1>8, <2>1 DEF Rejoin, TypeOK
<1> QED
  BY <1>1, <1>2, <1>3, <1>4, <1>5, <1>6, <1>7, <1>8

LEMMA TypeInvHolds == Spec => []TypeInv
<1>1. Init => TypeInv
  <2>1. 0 \in 0 .. MaxFaults /\ 0 \in 0 .. MaxRejoins
    BY SMT
  <2> QED
    BY <2>1 DEF Init, TypeInv, TypeOK
<1>2. TypeInv /\ [Next]_vars => TypeInv'
  <2> SUFFICES ASSUME TypeInv, [Next]_vars PROVE TypeInv'
    OBVIOUS
  <2>1. CASE Next
    BY <2>1, BudgetKeepsType, NotifierKeepsType DEF Next, Work
  <2>2. CASE UNCHANGED vars
    BY <2>2 DEF vars, budgetVars, readerVars, TypeInv, TypeOK
  <2> QED
    BY <2>1, <2>2
<1> QED
  BY <1>1, <1>2, PTL DEF Spec

\* The reader never runs past the end of the topic, and the group commits
\* no message that is not there.
THEOREM TypeCorrect == Spec => []TypeOK
<1>1. TypeInv => TypeOK
  BY DEF TypeInv
<1> QED
  BY <1>1, TypeInvHolds, PTL

----------------------------------------------------------------------------
(***************************************************************************)
(* Silence.  A message is Done with once the webhook took it or a failure  *)
(* struck it.  SilenceExplained is not inductive: what a commit covers     *)
(* besides the message it is for must be known to be done with before the  *)
(* commit, and a message in hand that a rejoined group has committed       *)
(* already must be so too.                                                 *)
(***************************************************************************)
Done(o) == heard[topic[o]] # 0 \/ topic[o] \in failed

InFlight(o) == o = held /\ (stage = "post" \/ (stage = "commit" /\ o > committed))

SilenceInv ==
  /\ \A o \in 1 .. Len(topic) :
       o <= committed \/ (stage # "down" /\ o <= next) => Done(o) \/ InFlight(o)
  /\ stage = "commit" => \A o \in 1 .. Len(topic) : o < held => Done(o)

\* Nothing that is done with is undone while the topic stays.
LEMMA DoneStays ==
  ASSUME TypeInv, [Next]_vars, topic' = topic, NEW o \in 1 .. Len(topic), Done(o)
  PROVE  Done(o)'
<1>1. topic[o] \in Denials
  BY DEF TypeInv, TypeOK
<1>2. failed \subseteq failed'
  BY DEF Next, Work, Deny, Publish, PublishFails, BatchTaken, BatchDone, BudgetCrash, Fetch,
         Commit, CommitFails, Post, PostFails, Crash, Start, Rejoin, Strike, vars
<1>3. heard' = heard \/ ((Post \/ PostFails) /\ heard' = [heard EXCEPT ![Alert] = @ + 1])
  BY DEF Next, Work, Deny, Publish, PublishFails, BatchTaken, BatchDone, BudgetCrash, Fetch,
         Commit, CommitFails, Post, PostFails, Crash, Start, Rejoin, vars
<1>4. heard[topic[o]] # 0 => heard'[topic[o]] # 0
  <2>1. heard \in [Denials -> Nat]
    BY DEF TypeInv, TypeOK
  <2>2. CASE heard' = heard
    BY <2>2
  <2>3. CASE heard' = [heard EXCEPT ![Alert] = @ + 1]
    <3>1. heard[topic[o]] \in Nat
      BY <1>1, <2>1
    <3>2. heard'[topic[o]] \in {heard[topic[o]], heard[topic[o]] + 1}
      BY <1>1, <2>1, <2>3
    <3> QED
      BY <3>1, <3>2
  <2> QED
    BY <1>3, <2>2, <2>3
<1> QED
  BY <1>2, <1>4 DEF Done

\* A failure that strikes the message in hand, or a post, is done with it.
LEMMA StruckIsDone ==
  ASSUME TypeInv, stage \in {"commit", "post"}, topic' = topic, held' = held,
         Strike({Alert}) \/ heard' = [heard EXCEPT ![Alert] = @ + 1]
  PROVE  Done(held)'
<1>1. CASE Strike({Alert})
  BY <1>1 DEF Strike, Alert, Done
<1>2. CASE heard' = [heard EXCEPT ![Alert] = @ + 1]
  <2>1. Alert \in Denials /\ heard[Alert] \in Nat
    BY AlertInHand DEF TypeInv, TypeOK
  <2>2. heard'[Alert] = heard[Alert] + 1
    BY <1>2, <2>1 DEF TypeInv, TypeOK
  <2>3. heard'[topic'[held']] # 0
    BY <2>1, <2>2 DEF Alert
  <2> QED
    BY <2>3 DEF Done
<1> QED
  BY <1>1, <1>2

LEMMA SilenceStep == TypeInv /\ SilenceInv /\ [Next]_vars => SilenceInv'
<1> SUFFICES ASSUME TypeInv, SilenceInv, [Next]_vars PROVE SilenceInv'
  OBVIOUS
<1>0. /\ committed \in Nat /\ next \in Nat /\ held \in Nat /\ Len(topic) \in Nat
      /\ committed <= Len(topic) /\ next <= Len(topic) /\ held <= Len(topic)
  BY DEF TypeInv, TypeOK
<1>1. ASSUME topic' = topic
      PROVE  \A o \in 1 .. Len(topic) : Done(o) => Done(o)'
  BY <1>1, DoneStays
<1>2. CASE BatchTaken
  <2>1. Head(queue) \in Denials
    BY <1>2 DEF BatchTaken, TypeInv, TypeOK
  <2>2. /\ Len(topic') = Len(topic) + 1
        /\ \A o \in 1 .. Len(topic) : topic'[o] = topic[o]
    BY <1>2, <2>1 DEF BatchTaken, TypeInv, TypeOK
  <2>3. \A o \in 1 .. Len(topic) : Done(o)' = Done(o)
    BY <1>2, <2>2 DEF BatchTaken, Done
  <2>4. UNCHANGED <<committed, next, stage, held>>
    BY <1>2 DEF BatchTaken, readerVars
  <2> QED
    BY <1>0, <2>2, <2>3, <2>4 DEF SilenceInv, InFlight
<1>3. CASE \/ \E a \in Denials : Deny(a) \/ Publish(a) \/ PublishFails(a)
           \/ BatchDone \/ BudgetCrash \/ UNCHANGED vars
  <2>1. UNCHANGED <<topic, committed, next, stage, held>>
    BY <1>3 DEF Deny, Publish, PublishFails, BatchDone, BudgetCrash, vars, budgetVars, readerVars
  <2> QED
    BY <1>1, <2>1 DEF SilenceInv, InFlight
<1>4. CASE Fetch
  <2>1. /\ topic' = topic /\ committed' = committed /\ stage = "fetch" /\ stage' = "commit"
        /\ next' = next + 1 /\ held' = next + 1
    BY <1>4 DEF Fetch, budgetVars
  <2>2. \A o \in 1 .. Len(topic) : o <= committed \/ o <= next => Done(o)'
    BY <1>1, <2>1 DEF SilenceInv, InFlight
  <2> QED
    BY <1>0, <2>1, <2>2 DEF SilenceInv, InFlight
<1>5. CASE Commit
  <2>1. /\ topic' = topic /\ committed' = held /\ stage = "commit" /\ stage' = "post"
        /\ next' = next /\ held' = held
    BY <1>5 DEF Commit, budgetVars
  <2>2. \A o \in 1 .. Len(topic) : o < held \/ (o <= next /\ o # held) => Done(o)'
    BY <1>1, <2>1 DEF SilenceInv, InFlight
  <2> QED
    BY <1>0, <2>1, <2>2 DEF SilenceInv, InFlight
<1>6. CASE CommitFails
  <2>1. /\ topic' = topic /\ committed' \in {held, committed} /\ stage = "commit"
        /\ stage' = "fetch" /\ next' = next /\ held' = held /\ Strike({Alert})
    BY <1>6 DEF CommitFails, budgetVars
  <2>2. Done(held)'
    BY <2>1, StruckIsDone
  <2>3. \A o \in 1 .. Len(topic) :
          o < held \/ o <= next \/ o <= committed => Done(o)' \/ o = held
    BY <1>1, <2>1 DEF SilenceInv, InFlight
  <2>4. \A o \in 1 .. Len(topic) : o <= held \/ o <= next \/ o <= committed => Done(o)'
    BY <1>0, <2>1, <2>2, <2>3 DEF Done
  <2> QED
    BY <1>0, <2>1, <2>4 DEF SilenceInv
<1>7. CASE Post \/ PostFails
  <2>1. /\ UNCHANGED <<topic, committed, next, held>> /\ stage = "post" /\ stage' = "fetch"
        /\ Strike({Alert}) \/ heard' = [heard EXCEPT ![Alert] = @ + 1]
    BY <1>7 DEF Post, PostFails, budgetVars
  <2>2. Done(held)'
    BY <2>1, StruckIsDone
  <2>3. \A o \in 1 .. Len(topic) : o <= next \/ o <= committed => Done(o)' \/ o = held
    BY <1>1, <2>1 DEF SilenceInv, InFlight
  <2>4. \A o \in 1 .. Len(topic) : o <= next \/ o <= committed => Done(o)'
    BY <2>1, <2>2, <2>3 DEF Done
  <2> QED
    BY <2>1, <2>4 DEF SilenceInv
<1>8. CASE Crash
  <2>1. /\ UNCHANGED <<topic, committed, next, held>> /\ stage' = "down"
        /\ stage = "post" => Strike({Alert})
    BY <1>8 DEF Crash, budgetVars
  <2>2. stage = "post" => Done(held)'
    BY <2>1, StruckIsDone
  <2>3. \A o \in 1 .. Len(topic) :
          o <= committed => Done(o)' \/ (stage = "post" /\ o = held)
    BY <1>0, <1>1, <2>1 DEF SilenceInv, InFlight
  <2>4. \A o \in 1 .. Len(topic) : o <= committed => Done(o)'
    BY <2>1, <2>2, <2>3 DEF Done
  <2> QED
    BY <2>1, <2>4 DEF SilenceInv
<1>9. CASE Start
  <2>1. /\ UNCHANGED <<topic, committed, held>> /\ stage = "down" /\ stage' = "fetch"
        /\ next' = committed
    BY <1>9 DEF Start, budgetVars
  <2> QED
    BY <1>1, <2>1 DEF SilenceInv, InFlight
<1>10. CASE Rejoin
  <2>1. UNCHANGED <<topic, committed, held, stage>> /\ stage # "down" /\ next' = committed
    BY <1>10 DEF Rejoin, budgetVars
  <2> QED
    BY <1>1, <2>1 DEF SilenceInv, InFlight
<1> QED
  BY <1>2, <1>3, <1>4, <1>5, <1>6, <1>7, <1>8, <1>9, <1>10 DEF Next, Work

\* A restart, a rejoin or the failure of another alert silences no alert.
THEOREM OnlyTheStruckAreSilent == Spec => []SilenceExplained
<1>1. Init => SilenceInv
  BY DEF Init, SilenceInv
<1>2. TypeInv /\ SilenceInv => SilenceExplained
  BY DEF SilenceInv, SilenceExplained, Passed, InFlight, Done
<1> QED
  BY <1>1, <1>2, SilenceStep, TypeInvHolds, PTL DEF Spec
----------------------------------------------------------------------------
(***************************************************************************)
(* Repeats.  A post has a commit before it, and what is committed is not   *)
(* read again but after a rejoin; yet the committed offset moves back when *)
(* a message fetched before the rejoin is committed after it.  The posts   *)
(* are thus within both offsets, the committed one and the reader's, but   *)
(* for one post each rejoin.                                               *)
(***************************************************************************)
Posts == SumFunction(heard)

RepeatsInv ==
  /\ Posts <= committed + rejoins
  /\ stage # "down" => Posts <= next + rejoins
  /\ stage = "commit" => Posts < next + rejoins /\ Posts < held + rejoins
  /\ stage = "post" => Posts < next + rejoins /\ Posts < committed + rejoins

LEMMA PostsType == ASSUME TypeInv PROVE Posts \in Nat
<1>1. heard \in [Denials -> Nat] /\ Denials \in SUBSET Denials /\ DOMAIN heard = Denials
  BY DEF TypeInv, TypeOK
<1> QED
  BY <1>1, SumNat DEF Posts, SumFunction

\* A post that the webhook takes is one more.
LEMMA OneMorePost ==
  ASSUME TypeInv, stage = "post", heard' = [heard EXCEPT ![Alert] = @ + 1]
  PROVE  Posts' = Posts + 1
<1>0. heard \in [Denials -> Nat] /\ Alert \in Denials /\ heard[Alert] + 1 \in Int
  BY AlertInHand DEF TypeInv, TypeOK
<1>1. /\ heard \in [Denials -> Int] /\ heard' \in [Denials -> Int]
      /\ DOMAIN heard = Denials /\ DOMAIN heard' = Denials
  BY <1>0
<1>2. Alert \in Denials /\ heard'[Alert] = heard[Alert] + 1 /\ heard[Alert] \in Int
  BY <1>0, <1>1
<1>3. \A a \in Denials \ {Alert} : heard'[a] = heard[a]
  BY <1>1
<1>4. ASSUME NEW f \in [Denials -> Int], NEW g \in [Denials -> Int], NEW x \in Denials,
             \A a \in Denials \ {x} : g[a] = f[a], g[x] = f[x] + 1
      PROVE  SumFunctionOnSet(g, Denials) = SumFunctionOnSet(f, Denials) + 1
  <2>1. Denials \in SUBSET Denials
    OBVIOUS
  <2>2. SumFunctionOnSet(g, Denials) = SumFunctionOnSet(f, Denials) + (g[x] - f[x])
    BY <1>4, <2>1, SumUpdate
  <2>3. SumFunctionOnSet(f, Denials) \in Int /\ f[x] \in Int
    BY <2>1, SumType
  <2> QED
    BY <1>4, <2>2, <2>3
<1>5. SumFunctionOnSet(heard', Denials) = SumFunctionOnSet(heard, Denials) + 1
  BY <1>1, <1>2, <1>3, <1>4
<1> QED
  BY <1>1, <1>5 DEF Posts, SumFunction

LEMMA RepeatsStep == TypeInv /\ TypeInv' /\ RepeatsInv /\ [Next]_vars => RepeatsInv'
<1> SUFFICES ASSUME TypeInv, TypeInv', RepeatsInv, [Next]_vars PROVE RepeatsInv'
  OBVIOUS
<1>0. /\ committed \in Nat /\ next \in Nat /\ held \in Nat /\ rejoins \in Nat
      /\ stage \in {"fetch", "commit", "post", "down"} /\ Posts \in Nat
  BY PostsType, SMT DEF TypeInv, TypeOK
<1>1. CASE UNCHANGED <<readerVars, heard, rejoins>>
  BY <1>1 DEF RepeatsInv, Posts, readerVars
<1>2. CASE Fetch
  <2>1. /\ stage = "fetch" /\ stage' = "commit" /\ next' = next + 1 /\ held' = next + 1
        /\ committed' = committed /\ rejoins' = rejoins /\ Posts' = Posts
    BY <1>2 DEF Fetch, Posts
  <2> QED
    BY <1>0, <2>1 DEF RepeatsInv
<1>3. CASE Commit
  <2>1. /\ stage = "commit" /\ stage' = "post" /\ next' = next /\ held' = held
        /\ committed' = held /\ rejoins' = rejoins /\ Posts' = Posts
    BY <1>3 DEF Commit, Posts
  <2> QED
    BY <1>0, <2>1 DEF RepeatsInv
<1>4. CASE CommitFails
  <2>1. /\ stage = "commit" /\ stage' = "fetch" /\ next' = next /\ held' = held
        /\ rejoins' = rejoins /\ Posts' = Posts
        /\ committed' = held \/ committed' = committed
    BY <1>4 DEF CommitFails, Posts
  <2>2. Posts <= committed + rejoins /\ Posts < held + rejoins /\ Posts < next + rejoins
    BY <2>1 DEF RepeatsInv
  <2>3. Posts <= committed' + rejoins
    BY <1>0, <2>1, <2>2
  <2> QED
    BY <1>0, <2>1, <2>2, <2>3 DEF RepeatsInv
<1>5. CASE Post \/ PostFails
  <2>1. /\ stage = "post" /\ stage' = "fetch" /\ next' = next /\ held' = held
        /\ committed' = committed /\ rejoins' = rejoins
        /\ heard' = [heard EXCEPT ![Alert] = @ + 1] \/ heard' = heard
    BY <1>5 DEF Post, PostFails
  <2>2. Posts' \in {Posts, Posts + 1}
    BY <2>1, OneMorePost DEF Posts
  <2> QED
    BY <1>0, <2>1, <2>2 DEF RepeatsInv
<1>6. CASE Crash \/ Start \/ Rejoin
  <2>1. /\ committed' = committed /\ held' = held /\ Posts' = Posts
        /\ \/ stage' = "down" /\ next' = next /\ rejoins' = rejoins
           \/ stage' = "fetch" /\ next' = committed /\ rejoins' = rejoins
           \/ stage' = stage /\ next' = committed /\ rejoins' = rejoins + 1
    BY <1>6 DEF Crash, Start, Rejoin, Posts
  <2>2. CASE stage' = "down" /\ next' = next /\ rejoins' = rejoins
    BY <1>0, <2>1, <2>2 DEF RepeatsInv
  <2>3. CASE stage' = "fetch" /\ next' = committed /\ rejoins' = rejoins
    BY <1>0, <2>1, <2>3 DEF RepeatsInv
  <2>4. CASE stage' = stage /\ next' = committed /\ rejoins' = rejoins + 1
    BY <1>0, <2>1, <2>4 DEF RepeatsInv
  <2> QED
    BY <2>1, <2>2, <2>3, <2>4
<1>7. \/ UNCHANGED <<readerVars, heard, rejoins>> \/ Fetch \/ Commit \/ CommitFails
      \/ Post \/ PostFails \/ Crash \/ Start \/ Rejoin
  BY DEF Next, Work, Deny, Publish, PublishFails, BatchTaken, BatchDone, BudgetCrash, vars
<1> QED
  BY <1>1, <1>2, <1>3, <1>4, <1>5, <1>6, <1>7

\* Neither a restart nor a webhook that fails repeats an alert: the posts
\* number at most the messages and the rejoins.
THEOREM RepeatsNeedARejoin == Spec => []RepeatsExplained
<1>1. Init => RepeatsInv
  <2> SUFFICES ASSUME Init PROVE Posts = 0
    BY SMT DEF Init, RepeatsInv
  <2>1. heard \in [Denials -> Int] /\ \A a \in Denials : heard[a] = 0
    BY DEF Init
  <2>2. Denials \in SUBSET Denials /\ DOMAIN heard = Denials
    BY <2>1
  <2> QED
    BY <2>1, <2>2, SumZero DEF Posts, SumFunction
<1>2. TypeInv /\ RepeatsInv => RepeatsExplained
  <2> SUFFICES ASSUME TypeInv, RepeatsInv PROVE Posts <= Len(topic) + rejoins
    BY DEF Posts, RepeatsExplained
  <2>1. Posts \in Nat /\ rejoins \in Nat /\ committed \in 0 .. Len(topic)
    BY PostsType, SMT DEF TypeInv, TypeOK
  <2>2. Len(topic) \in Nat
    BY DEF TypeInv, TypeOK
  <2> QED
    BY <2>1, <2>2 DEF RepeatsInv
<1> QED
  BY <1>1, <1>2, RepeatsStep, TypeInvHolds, PTL DEF Spec
=============================================================================
