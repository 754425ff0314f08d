-------------------------- MODULE Services_proofs --------------------------
(***************************************************************************)
(* Theorems about the services around Postgres, for any seed, any prices,  *)
(* any number of keys, subscriptions, accounts and days, and any number of *)
(* stops, outages and operator's changes: the start-up they share, first   *)
(* for any of them; what rests on it in rating, identity and billing; the  *)
(* anomaly rule of analytics; and all of them together.                    *)
(***************************************************************************)
EXTENDS Services, SumTheorems

----------------------------------------------------------------------------
(***************************************************************************)
(* The start-up of any of the services.  Life(K, S, F) is Bootstrap for    *)
(* the keys K, the seed S, and seeding that ends at the first failing      *)
(* insert or not; the variables are the ones all services share.           *)
(***************************************************************************)
Life(K, S, F) == INSTANCE Bootstrap WITH Keys <- K, SeedRows <- S, StopAtError <- F

(***************************************************************************)
(* What seeding leaves behind.  While main seeds, the rows before the next *)
(* one are in the table or lacking, and after the last one all are; a row  *)
(* that is deleted is lacking, and a life that ends forgets only what it   *)
(* had lacking.                                                            *)
(***************************************************************************)
SeededUpTo(S, n) == \A i \in 1 .. n : S[i] \in Rows \cup lacking

SeedInv(S) ==
  /\ proc \in {"seed", "serve"} => schema /\ SeededUpTo(S, at - 1)
  /\ proc = "serve" => at = Len(S) + 1
  /\ proc \in {"connect", "migrate"} => at = 1

LifeInv(K, S, F) == Life(K, S, F)!BootTypeOK /\ SeedInv(S)

\* What can happen to a service and its table.
LifeStep(K, S, F) ==
  \/ Life(K, S, F)!Boot \/ Life(K, S, F)!Stop \/ Life(K, S, F)!Outside
  \/ UNCHANGED bootVars

\* The seed rows are keys, and each position names one of them.
LEMMA SeedRowsInRange ==
  ASSUME NEW K, NEW S \in Seq(K)
  PROVE  /\ Range(S) \subseteq K
         /\ \A i \in 1 .. Len(S) : S[i] \in Range(S)
         /\ \A k \in Range(S) : \E i \in 1 .. Len(S) : k = S[i]
         /\ Len(S) \in Nat
<1>1. Len(S) \in Nat /\ DOMAIN S = 1 .. Len(S)
  OBVIOUS
<1>2. \A i \in 1 .. Len(S) : S[i] \in K
  OBVIOUS
<1>3. Range(S) = {S[i] : i \in 1 .. Len(S)}
  BY <1>1 DEF Range
<1> QED
  BY <1>1, <1>2, <1>3

\* What the type of a service's variables says, without the instance.
LEMMA LifeType ==
  ASSUME NEW K, NEW S, NEW F, Life(K, S, F)!BootTypeOK
  PROVE  /\ Rows \subseteq K /\ table \in [Rows -> 0 .. MaxRevision]
         /\ \A k \in Rows : table[k] \in Nat
         /\ at \in 1 .. Len(S) + 1
         /\ lacking \subseteq missed /\ missed \subseteq Range(S)
         /\ deleted \in Seq(K)
<1>1. table \in [Rows -> 0 .. MaxRevision]
  BY DEF Life!BootTypeOK, Life!Rows, Rows
<1>2. \A k \in Rows : table[k] \in Nat
  BY <1>1, SMT
<1> QED
  BY <1>1, <1>2 DEF Life!BootTypeOK, Life!Rows, Life!Range, Rows, Range

\* The row to be inserted next is one of the seed.
LEMMA NextSeedRow ==
  ASSUME NEW K, NEW S \in Seq(K), NEW F, Life(K, S, F)!BootTypeOK, Life(K, S, F)!Seeding
  PROVE  at \in 1 .. Len(S) /\ S[at] \in K /\ S[at] \in Range(S)
<1>0. Len(S) \in Nat /\ at \in 1 .. Len(S) + 1 /\ at <= Len(S)
  BY LifeType, SeedRowsInRange DEF Life!Seeding
<1>1. at \in 1 .. Len(S)
  BY <1>0, SMT
<1> QED
  BY <1>1, SeedRowsInRange

\* The insert of a seed row keeps the table's type, and adds its key alone.
LEMMA InsertStep ==
  ASSUME NEW K, NEW S \in Seq(K), NEW F, Life(K, S, F)!BootTypeOK, Life(K, S, F)!Seeding,
         table' = Life(K, S, F)!Insert(S[at])
  PROVE  /\ Rows' = Rows \cup {S[at]} /\ Rows' \subseteq K
         /\ table' \in [Rows' -> 0 .. MaxRevision]
         /\ \A k \in Rows : table'[k] = table[k]
<1>1. S[at] \in K
  BY NextSeedRow
<1>2. Rows \subseteq K /\ table \in [Rows -> 0 .. MaxRevision] /\ 0 \in 0 .. MaxRevision
  BY BoundAssumption, LifeType, SMT
<1>3. table' = [j \in Rows \cup {S[at]} |-> IF j \in Rows THEN table[j] ELSE 0]
  BY DEF Life!Insert, Life!Rows, Rows
<1>4. Rows' = Rows \cup {S[at]}
  BY <1>3 DEF Rows
<1>5. table' \in [Rows \cup {S[at]} -> 0 .. MaxRevision]
  BY <1>2, <1>3
<1>6. \A k \in Rows : table'[k] = table[k]
  BY <1>3
<1> QED
  BY <1>1, <1>2, <1>4, <1>5, <1>6

\* A service begins with its types and with nothing seeded.
LEMMA LifeBegins ==
  ASSUME NEW K, NEW S \in Seq(K), NEW F, BootInit
  PROVE  LifeInv(K, S, F)
<1>1. 0 \in 0 .. Attempts /\ 0 \in 0 .. MaxStops /\ 0 \in 0 .. MaxOutages
      /\ 0 < Attempts /\ 1 \in 1 .. Len(S) + 1
  BY AttemptsAssumption, BoundAssumption, SeedRowsInRange, SMT
<1>2. DOMAIN << >> = {} /\ << >> \in [{} -> 0 .. MaxRevision]
  BY SMT
<1>3. << >> \in Seq(K) /\ Len(<< >>) <= MaxDeletes
  BY BoundAssumption, SMT
<1>4. deleted \in Seq(K) /\ Len(deleted) <= MaxDeletes
  BY <1>3 DEF BootInit
<1> QED
  BY <1>1, <1>2, <1>4 DEF BootInit, LifeInv, SeedInv, Life!BootTypeOK, Life!Rows

\* What main does of itself keeps the types.
LEMMA BootKeepsType ==
  ASSUME NEW K, NEW S \in Seq(K), NEW F, Life(K, S, F)!BootTypeOK, Life(K, S, F)!Boot
  PROVE  Life(K, S, F)!BootTypeOK'
<1> USE DEF Life!BootTypeOK, Life!Rows, Life!Range
<1>0. Len(S) \in Nat
  BY SeedRowsInRange
<1>1. CASE Life(K, S, F)!Start
  <2>1. 0 \in 0 .. Attempts /\ 0 < Attempts /\ 1 \in 1 .. Len(S) + 1
    BY <1>0, AttemptsAssumption, SMT
  <2> QED
    BY <1>1, <2>1 DEF Life!Start, Life!rowVars
<1>2. CASE Life(K, S, F)!Connect
  BY <1>2 DEF Life!Connect, Life!rowVars
<1>3. CASE Life(K, S, F)!ConnectFails
  <2>1. /\ tries + 1 \in 0 .. Attempts
        /\ tries + 1 # Attempts => tries + 1 < Attempts
    BY <1>3, AttemptsAssumption, SMT DEF Life!ConnectFails
  <2> QED
    BY <1>3, <2>1, SMT DEF Life!ConnectFails, Life!rowVars
<1>4. CASE Life(K, S, F)!Migrate
  BY <1>4 DEF Life!Migrate
<1>5. CASE Life(K, S, F)!MigrateFails
  BY <1>5 DEF Life!MigrateFails
<1>6. CASE Life(K, S, F)!SeedRow
  <2>1. at + 1 \in 1 .. Len(S) + 1
    <3>1. at \in 1 .. Len(S)
      BY <1>6, NextSeedRow DEF Life!SeedRow
    <3> QED
      BY <1>0, <3>1, SMT
  <2>2. Rows' \subseteq K /\ table' \in [Rows' -> 0 .. MaxRevision]
    BY <1>6, InsertStep DEF Life!SeedRow
  <2> QED
    BY <1>6, <2>1, <2>2 DEF Life!SeedRow, Rows
<1>7. CASE Life(K, S, F)!SeedFails
  <2>1. PICK last \in {at, Len(S)} :
          /\ lacking' = lacking \cup {S[i] : i \in at .. last}
          /\ missed' = missed \cup lacking' /\ at' = last + 1
    BY <1>7 DEF Life!SeedFails
  <2>2. at \in 1 .. Len(S) /\ last \in 1 .. Len(S)
    <3>1. at \in 1 .. Len(S)
      BY <1>7, NextSeedRow DEF Life!SeedFails
    <3>2. Len(S) \in 1 .. Len(S)
      BY <1>0, <3>1, SMT
    <3> QED
      BY <3>1, <3>2
  <2>3. {S[i] : i \in at .. last} \subseteq Range(S)
    <3>1. at .. last \subseteq 1 .. Len(S)
      BY <1>0, <2>2, SMT
    <3> QED
      BY <3>1, SeedRowsInRange
  <2>4. at' \in 1 .. Len(S) + 1
    BY <1>0, <2>1, <2>2, SMT
  <2>5. lacking' \subseteq missed' /\ missed' \subseteq Range(S)
    BY <2>1, <2>3, LifeType
  <2>6. Rows' \subseteq K /\ table' \in [Rows' -> 0 .. MaxRevision]
    BY <1>7, LifeType, InsertStep DEF Life!SeedFails, Rows
  <2> QED
    BY <1>7, <2>4, <2>5, <2>6 DEF Life!SeedFails, Rows, Range
<1>8. CASE Life(K, S, F)!Listen
  BY <1>8 DEF Life!Listen, Life!rowVars
<1> QED
  BY <1>1, <1>2, <1>3, <1>4, <1>5, <1>6, <1>7, <1>8 DEF Life!Boot

\* What an operator's change does to the table.
LEMMA OperateEffect ==
  ASSUME NEW K, NEW S, NEW F, Life(K, S, F)!BootTypeOK, NEW k \in K, Life(K, S, F)!Operate(k)
  PROVE  /\ Rows' = Rows \cup {k} /\ Rows' \subseteq K
         /\ table' \in [Rows' -> 0 .. MaxRevision]
         /\ table'[k] # 0
         /\ \A j \in Rows \ {k} : table'[j] = table[j]
         /\ \A j \in Rows : table'[j] >= table[j]
<1> DEFINE old == IF k \in Rows THEN table[k] ELSE 0
<1>1. Rows \subseteq K /\ table \in [Rows -> 0 .. MaxRevision] /\ \A j \in Rows : table[j] \in Nat
  BY LifeType
<1>2. old < MaxRevision
  BY DEF Life!Operate, Life!Rows, Rows
<1>3. old \in Nat
  BY <1>1
<1>4. table' = [j \in Rows \cup {k} |-> IF j = k THEN old + 1 ELSE table[j]]
  BY DEF Life!Operate, Life!Rows, Rows
<1>5. k \in Rows => old = table[k]
  OBVIOUS
<1> HIDE DEF old
<1>6. old + 1 \in 0 .. MaxRevision /\ old + 1 # 0 /\ old + 1 >= old
  BY <1>2, <1>3, BoundAssumption, SMT
<1>7. Rows' = Rows \cup {k} /\ table' \in [Rows \cup {k} -> 0 .. MaxRevision]
  BY <1>1, <1>4, <1>6 DEF Rows
<1>8. table'[k] = old + 1 /\ \A j \in Rows \ {k} : table'[j] = table[j]
  BY <1>4
<1>9. \A j \in Rows : table'[j] >= table[j]
  <2>1. \A j \in Rows \ {k} : table'[j] >= table[j]
    BY <1>1, <1>8, SMT
  <2> QED
    BY <1>5, <1>6, <1>8, <2>1
<1> QED
  BY <1>1, <1>6, <1>7, <1>8, <1>9

\* What the deletion of a row does.
LEMMA DeleteEffect ==
  ASSUME NEW K, NEW S, NEW F, Life(K, S, F)!BootTypeOK, NEW k \in K, Life(K, S, F)!Delete(k)
  PROVE  /\ Rows' = Rows \ {k}
         /\ table' \in [Rows' -> 0 .. MaxRevision]
         /\ \A j \in Rows' : table'[j] = table[j]
         /\ deleted' = Append(deleted, k) /\ deleted' \in Seq(K) /\ Len(deleted') <= MaxDeletes
         /\ Range(deleted)' = Range(deleted) \cup {k}
         /\ lacking' = lacking \cup ({k} \cap Range(S)) /\ missed' = missed \cup lacking'
<1>1. table \in [Rows -> 0 .. MaxRevision] /\ deleted \in Seq(K)
  BY LifeType
<1>2. table' = [j \in Rows \ {k} |-> table[j]] /\ deleted' = Append(deleted, k)
  BY DEF Life!Delete, Life!Rows, Rows
<1>3. Rows' = Rows \ {k} /\ table' \in [Rows \ {k} -> 0 .. MaxRevision]
  BY <1>1, <1>2 DEF Rows
<1>4. \A j \in Rows' : table'[j] = table[j]
  BY <1>2, <1>3
<1>5. Len(deleted) < MaxDeletes /\ Len(deleted) \in Nat
  BY <1>1 DEF Life!Delete
<1>6. deleted' \in Seq(K) /\ Len(deleted') = Len(deleted) + 1
  BY <1>1, <1>2
<1>7. Len(deleted') <= MaxDeletes
  BY <1>5, <1>6, BoundAssumption, SMT
<1>8. /\ DOMAIN deleted = 1 .. Len(deleted)
      /\ DOMAIN deleted' = DOMAIN deleted \cup {Len(deleted) + 1}
      /\ \A i \in DOMAIN deleted : deleted'[i] = deleted[i]
      /\ deleted'[Len(deleted) + 1] = k
  BY <1>1, <1>2, <1>5, <1>6, SMT
<1>9. Range(deleted)' = Range(deleted) \cup {k}
  BY <1>8 DEF Range
<1>10. lacking' = lacking \cup ({k} \cap Range(S)) /\ missed' = missed \cup lacking'
  BY DEF Life!Delete, Life!Range, Range
<1> QED
  BY <1>2, <1>3, <1>4, <1>6, <1>7, <1>9, <1>10

\* Postgres and the operator keep the types.
LEMMA OutsideKeepsType ==
  ASSUME NEW K, NEW S, NEW F, Life(K, S, F)!BootTypeOK, Life(K, S, F)!Outside
  PROVE  Life(K, S, F)!BootTypeOK'
<1>4. CASE \E k \in K : Life(K, S, F)!Delete(k)
  <2>1. PICK k \in K : Life(K, S, F)!Delete(k)
    BY <1>4
  <2>2. /\ Rows' = Rows \ {k} /\ table' \in [Rows' -> 0 .. MaxRevision]
        /\ deleted' \in Seq(K) /\ Len(deleted') <= MaxDeletes
        /\ lacking' = lacking \cup ({k} \cap Range(S)) /\ missed' = missed \cup lacking'
    BY <2>1, DeleteEffect
  <2>3. Rows \subseteq K /\ lacking \subseteq missed /\ missed \subseteq Range(S)
    BY LifeType
  <2>4. Rows' \subseteq K /\ lacking' \subseteq missed' /\ missed' \subseteq Range(S)
    BY <2>2, <2>3
  <2> QED
    BY <2>1, <2>2, <2>4 DEF Life!Delete, Life!BootTypeOK, Life!Rows, Life!Range, Rows, Range
<1> USE DEF Life!BootTypeOK, Life!Rows, Life!Range
<1>1. CASE Life(K, S, F)!Outage
  <2>1. outages + 1 \in 0 .. MaxOutages
    BY <1>1, BoundAssumption, SMT DEF Life!Outage
  <2> QED
    BY <1>1, <2>1 DEF Life!Outage, Life!procVars, Life!rowVars
<1>2. CASE Life(K, S, F)!Recover
  BY <1>2 DEF Life!Recover, Life!procVars, Life!rowVars
<1>3. CASE \E k \in K : Life(K, S, F)!Operate(k)
  <2>1. PICK k \in K : Life(K, S, F)!Operate(k)
    BY <1>3
  <2>2. Rows' \subseteq K /\ table' \in [Rows' -> 0 .. MaxRevision]
    BY <2>1, OperateEffect
  <2> QED
    BY <2>1, <2>2 DEF Life!Operate, Life!procVars, Rows
<1> QED
  BY <1>1, <1>2, <1>3, <1>4 DEF Life!Outside

\* So does a stop.
LEMMA StopKeepsType ==
  ASSUME NEW K, NEW S, NEW F, Life(K, S, F)!BootTypeOK, Life(K, S, F)!Stop
  PROVE  Life(K, S, F)!BootTypeOK'
<1>1. stops + 1 \in 0 .. MaxStops
  BY BoundAssumption, SMT DEF Life!BootTypeOK, Life!Stop
<1> QED
  BY <1>1 DEF Life!BootTypeOK, Life!Rows, Life!Range, Life!Stop, Life!rowVars

\* Rows leave the table when they are deleted only, and no row is set back.
LEMMA RowsStay ==
  ASSUME NEW K, NEW S \in Seq(K), NEW F, Life(K, S, F)!BootTypeOK, LifeStep(K, S, F)
  PROVE  /\ \A k \in Rows : (deleted' = Append(deleted, k))
                              \/ (k \in Rows' /\ table'[k] >= table[k])
         /\ missed \subseteq missed' /\ Range(deleted) \subseteq Range(deleted)'
         /\ Rows \subseteq Rows' \cup Range(deleted)'
         /\ \A k \in Rows \ Rows' : k \in Range(S) => k \in lacking' \cap missed'
<1> USE DEF LifeStep, Life!Boot, Life!Start, Life!Connect, Life!ConnectFails, Life!Migrate,
            Life!MigrateFails, Life!SeedRow, Life!SeedFails, Life!Listen, Life!Stop,
            Life!Outside, Life!Outage, Life!Recover, Life!rowVars, Life!procVars
<1>1. \/ UNCHANGED <<table, deleted>>
      \/ /\ Life(K, S, F)!Seeding /\ table' = Life(K, S, F)!Insert(S[at])
         /\ UNCHANGED deleted
      \/ \E k \in K : Life(K, S, F)!Operate(k)
      \/ \E k \in K : Life(K, S, F)!Delete(k)
  BY DEF bootVars, rowVars
<1>2. missed \subseteq missed'
  BY DEF Life!Operate, Life!Delete, bootVars, procVars
<1>3. CASE ~(\E k \in K : Life(K, S, F)!Delete(k))
  <2>1. \A k \in Rows : table[k] \in Nat
    BY LifeType
  <2>2. CASE UNCHANGED <<table, deleted>>
    BY <1>2, <2>1, <2>2, SMT DEF Rows, Range
  <2>3. CASE /\ Life(K, S, F)!Seeding /\ table' = Life(K, S, F)!Insert(S[at])
             /\ UNCHANGED deleted
    <3>1. Rows' = Rows \cup {S[at]} /\ \A k \in Rows : table'[k] = table[k]
      BY <2>3, InsertStep
    <3>2. \A k \in Rows : k \in Rows' /\ table'[k] >= table[k]
      BY <2>1, <3>1, SMT
    <3> QED
      BY <1>2, <2>3, <3>2 DEF Range
  <2>4. CASE \E k \in K : Life(K, S, F)!Operate(k)
    <3>1. PICK k \in K : Life(K, S, F)!Operate(k)
      BY <2>4
    <3>2. \A j \in Rows : j \in Rows' /\ table'[j] >= table[j]
      BY <3>1, OperateEffect
    <3>3. UNCHANGED deleted
      BY <3>1 DEF Life!Operate
    <3> QED
      BY <1>2, <3>2, <3>3 DEF Range
  <2> QED
    BY <1>1, <1>3, <2>2, <2>3, <2>4
<1>4. CASE \E k \in K : Life(K, S, F)!Delete(k)
  <2>1. PICK k \in K : Life(K, S, F)!Delete(k)
    BY <1>4
  <2>2. /\ Rows' = Rows \ {k} /\ \A j \in Rows' : table'[j] = table[j]
        /\ deleted' = Append(deleted, k) /\ Range(deleted)' = Range(deleted) \cup {k}
        /\ lacking' = lacking \cup ({k} \cap Range(S)) /\ missed' = missed \cup lacking'
    BY <2>1, DeleteEffect
  <2>3. \A j \in Rows : table[j] \in Nat
    BY LifeType
  <2>4. \A j \in Rows' : table'[j] >= table[j]
    BY <2>2, <2>3, SMT
  <2>5. /\ Range(deleted) \subseteq Range(deleted)' /\ Rows \subseteq Rows' \cup Range(deleted)'
        /\ \A j \in Rows \ Rows' : j \in Range(S) => j \in lacking' \cap missed'
    BY <2>2
  <2>6. \A j \in Rows : deleted' = Append(deleted, j) \/ (j \in Rows' /\ table'[j] >= table[j])
    BY <2>2, <2>4
  <2> QED
    BY <1>2, <2>5, <2>6
<1> QED
  BY <1>3, <1>4

\* Main's own steps keep the invariant of seeding.
LEMMA BootKeepsSeed ==
  ASSUME NEW K, NEW S \in Seq(K), NEW F, LifeInv(K, S, F), Life(K, S, F)!Boot
  PROVE  SeedInv(S)'
<1>0. at \in 1 .. Len(S) + 1 /\ Len(S) \in Nat
  BY SeedRowsInRange, LifeType DEF LifeInv
<1> USE DEF LifeInv, Life!rowVars, Rows
<1>1. CASE Life(K, S, F)!Start
  BY <1>1 DEF Life!Start, SeedInv
<1>2. CASE Life(K, S, F)!Connect
  BY <1>2 DEF Life!Connect, SeedInv
<1>3. CASE Life(K, S, F)!ConnectFails
  BY <1>3 DEF Life!ConnectFails, SeedInv
<1>4. CASE Life(K, S, F)!Migrate
  <2>1. 1 .. at - 1 = {}
    BY <1>4, SMT DEF Life!Migrate, SeedInv
  <2> QED
    BY <1>4, <2>1 DEF Life!Migrate, SeedInv, SeededUpTo
<1>5. CASE Life(K, S, F)!MigrateFails
  BY <1>5 DEF Life!MigrateFails, SeedInv
<1>6. CASE Life(K, S, F)!SeedRow
  <2>1. at' - 1 = at /\ 1 .. at = (1 .. at - 1) \cup {at}
    BY <1>0, <1>6, SMT DEF Life!SeedRow
  <2>2. Rows' = Rows \cup {S[at]}
    BY <1>6, InsertStep DEF Life!SeedRow
  <2>3. SeededUpTo(S, at - 1) /\ schema
    BY <1>6 DEF SeedInv, Life!SeedRow, Life!Seeding
  <2>4. \A i \in 1 .. at : S[i] \in Rows' \cup lacking'
    BY <1>6, <2>1, <2>2, <2>3 DEF Life!SeedRow, SeededUpTo
  <2> QED
    BY <1>6, <2>1, <2>3, <2>4 DEF Life!SeedRow, Life!Seeding, SeedInv, SeededUpTo
<1>7. CASE Life(K, S, F)!SeedFails
  <2>1. PICK last \in {at, Len(S)} :
          /\ lacking' = lacking \cup {S[i] : i \in at .. last}
          /\ at' = last + 1
    BY <1>7 DEF Life!SeedFails
  <2>2. at' - 1 = last /\ 1 .. last = (1 .. at - 1) \cup (at .. last)
    BY <1>0, <1>7, <2>1, SMT DEF Life!SeedFails, Life!Seeding
  <2>3. Rows \subseteq Rows'
    BY <1>7, InsertStep DEF Life!SeedFails
  <2>4. SeededUpTo(S, at - 1) /\ schema
    BY <1>7 DEF SeedInv, Life!SeedFails, Life!Seeding
  <2>5. \A i \in 1 .. last : S[i] \in Rows' \cup lacking'
    BY <2>1, <2>2, <2>3, <2>4 DEF SeededUpTo
  <2> QED
    BY <1>7, <2>2, <2>4, <2>5 DEF Life!SeedFails, Life!Seeding, SeedInv, SeededUpTo
<1>8. CASE Life(K, S, F)!Listen
  <2>1. at = Len(S) + 1
    BY <1>0, <1>8, SMT DEF Life!Listen, Life!Seeding
  <2> QED
    BY <1>8, <2>1 DEF Life!Listen, SeedInv, SeededUpTo
<1> QED
  BY <1>1, <1>2, <1>3, <1>4, <1>5, <1>6, <1>7, <1>8 DEF Life!Boot

\* Every step of a service, of its operator and of Postgres keeps both.
LEMMA LifeGoesOn ==
  ASSUME NEW K, NEW S \in Seq(K), NEW F, LifeInv(K, S, F), LifeStep(K, S, F)
  PROVE  LifeInv(K, S, F)'
<1>1. CASE Life(K, S, F)!Boot
  BY <1>1, BootKeepsType, BootKeepsSeed DEF LifeInv
<1>2. CASE Life(K, S, F)!Stop
  BY <1>2, StopKeepsType DEF LifeInv, SeedInv, Life!Stop
<1>3. CASE Life(K, S, F)!Outside
  <2>1. \A k \in Rows \ Rows' : k \in Range(S) => k \in lacking'
    BY <1>3, RowsStay DEF LifeStep, LifeInv
  <2>2. UNCHANGED <<proc, at, schema>> /\ lacking \subseteq lacking'
    BY <1>3 DEF Life!Outside, Life!Outage, Life!Recover, Life!Operate, Life!Delete, Life!procVars,
                Life!rowVars
  <2>3. at \in 1 .. Len(S) + 1 /\ \A i \in 1 .. Len(S) : S[i] \in Range(S)
    BY SeedRowsInRange, LifeType DEF LifeInv
  <2>4. \A i \in 1 .. at - 1 : S[i] \in Range(S)
    BY <2>3, SeedRowsInRange, SMT
  <2>5. SeededUpTo(S, at - 1) => SeededUpTo(S, at - 1)'
    BY <2>1, <2>2, <2>4 DEF SeededUpTo
  <2> QED
    BY <1>3, <2>2, <2>5, OutsideKeepsType DEF LifeInv, SeedInv
<1>4. CASE UNCHANGED bootVars
  BY <1>4 DEF bootVars, procVars, rowVars, Rows, LifeInv, SeedInv, SeededUpTo,
              Life!BootTypeOK, Life!Rows, Life!Range
<1> QED
  BY <1>1, <1>2, <1>3, <1>4 DEF LifeStep

\* A service that serves has its table and the rows it has not lacking.
LEMMA ServingMeansSeeded ==
  ASSUME NEW K, NEW S \in Seq(K), NEW F, LifeInv(K, S, F), proc = "serve"
  PROVE  schema /\ Range(S) \subseteq Rows \cup lacking
<1>1. schema /\ SeededUpTo(S, at - 1) /\ at - 1 = Len(S)
  BY SeedRowsInRange, SMT DEF LifeInv, SeedInv
<1> QED
  BY <1>1, SeedRowsInRange DEF SeededUpTo

\* A service that serves does so until it is stopped.
LEMMA ServesUntilStopped ==
  ASSUME NEW K, NEW S, NEW F, LifeStep(K, S, F), proc = "serve"
  PROVE  ~Life(K, S, F)!Boot /\ (Life(K, S, F)!Stop \/ proc' = "serve")
BY DEF LifeStep, Life!Boot, Life!Start, Life!Connect, Life!ConnectFails, Life!Migrate,
       Life!MigrateFails, Life!SeedRow, Life!SeedFails, Life!Seeding, Life!Listen,
       Life!Outside, Life!Outage, Life!Recover, Life!Operate, Life!Delete, Life!procVars,
       bootVars, procVars

----------------------------------------------------------------------------
(* Rating's life is one of these.                                          *)

RatingInv == LifeInv(Keys, SeedRows, StopAtError)

LEMMA RatingLife ==
  /\ BootTypeOK <=> Life(Keys, SeedRows, StopAtError)!BootTypeOK
  /\ BootTypeOK' <=> Life(Keys, SeedRows, StopAtError)!BootTypeOK'
  /\ Boot <=> Life(Keys, SeedRows, StopAtError)!Boot
  /\ Stop <=> Life(Keys, SeedRows, StopAtError)!Stop
  /\ Outside <=> Life(Keys, SeedRows, StopAtError)!Outside
<1>1. BootTypeOK <=> Life(Keys, SeedRows, StopAtError)!BootTypeOK
  BY DEF BootTypeOK, Life!BootTypeOK, Rows, Life!Rows, Range, Life!Range
<1>2. BootTypeOK' <=> Life(Keys, SeedRows, StopAtError)!BootTypeOK'
  BY DEF BootTypeOK, Life!BootTypeOK, Rows, Life!Rows, Range, Life!Range
<1> USE DEF procVars, rowVars, Life!procVars, Life!rowVars, Rows, Life!Rows, Range, Life!Range
<1>3. Boot <=> Life(Keys, SeedRows, StopAtError)!Boot
  BY DEF Boot, Start, Connect, ConnectFails, Migrate, MigrateFails, SeedRow, SeedFails, Listen,
         Seeding, Insert,
         Life!Boot, Life!Start, Life!Connect, Life!ConnectFails, Life!Migrate,
         Life!MigrateFails, Life!SeedRow, Life!SeedFails, Life!Listen,
         Life!Seeding, Life!Insert
<1>4. Stop <=> Life(Keys, SeedRows, StopAtError)!Stop
  BY DEF Stop, Life!Stop
<1>5. Outside <=> Life(Keys, SeedRows, StopAtError)!Outside
  BY DEF Outside, Outage, Recover, Operate, Delete,
         Life!Outside, Life!Outage, Life!Recover, Life!Operate, Life!Delete
<1> QED
  BY <1>1, <1>2, <1>3, <1>4, <1>5

\* What the bounds say of the rating service's seed and of its next row.
LEMMA RatingSeed ==
  /\ Range(SeedRows) \subseteq Keys /\ Len(SeedRows) \in Nat
  /\ \A i \in 1 .. Len(SeedRows) : SeedRows[i] \in Range(SeedRows)
  /\ \A k \in Range(SeedRows) : \E i \in 1 .. Len(SeedRows) : k = SeedRows[i]
  /\ BootTypeOK => at \in 1 .. Len(SeedRows) + 1
  /\ BootTypeOK /\ Seeding => at \in 1 .. Len(SeedRows)
<1>1. Life(Keys, SeedRows, StopAtError)!Seeding <=> Seeding
  BY DEF Seeding, Life!Seeding
<1>2. BootTypeOK /\ Seeding => at \in 1 .. Len(SeedRows)
  BY <1>1, SeedAssumption, NextSeedRow, RatingLife
<1>3. BootTypeOK => at \in 1 .. Len(SeedRows) + 1
  BY DEF BootTypeOK
<1> QED
  BY <1>2, <1>3, SeedAssumption, SeedRowsInRange

\* Each step of rating is one of these lives, whatever its client does.
LEMMA RatingSteps == [Next]_vars => LifeStep(Keys, SeedRows, StopAtError)
<1>1. [Next]_vars => Boot \/ Stop \/ Outside \/ UNCHANGED bootVars
  BY DEF Next, Main, Answers, ReadRates, ReadDefault, ReadFails, Answer, Missing, Cost,
         Stopped, vars
<1> QED
  BY <1>1, RatingLife DEF LifeStep

LEMMA RatingInvHolds == Spec => []RatingInv
<1>1. Init => RatingInv
  BY SeedAssumption, LifeBegins DEF Init, RatingInv
<1>2. RatingInv /\ [Next]_vars => RatingInv'
  BY SeedAssumption, RatingSteps, LifeGoesOn DEF RatingInv
<1> QED
  BY <1>1, <1>2, PTL DEF Spec

----------------------------------------------------------------------------
(* Rounding.                                                               *)

\* The amount a rate and a call come to is a natural number.
LEMMA AmountType ==
  ASSUME NEW rate \in [in : Nat, out : Nat], NEW q \in [model : Models, in : Tokens, out : Tokens]
  PROVE  Amount(rate, q) \in Nat
<1>1. q.in \in Nat /\ q.out \in Nat /\ rate.in \in Nat /\ rate.out \in Nat
  BY RatesAssumption
<1>2. \A m, n \in Nat : m * n \in Nat
  BY SMT
<1>3. q.in * rate.in \in Nat /\ q.out * rate.out \in Nat
  BY <1>1, <1>2
<1> QED
  BY <1>3, SMT DEF Amount

\* Rounding down and rounding to the nearest differ by at most one.
LEMMA RoundingGap ==
  ASSUME NEW n \in Nat, NEW b \in Nearest(n)
  PROVE  n \div Unit <= b /\ b <= n \div Unit + 1
<1>1. PICK d \in Nat, r \in 0 .. 19 : n = 20 * d + r
  <2>1. n = 20 * (n \div 20) + (n % 20) /\ n \div 20 \in Nat /\ n % 20 \in 0 .. 19
    BY SMT
  <2> QED
    BY <2>1
<1>2. n \div 20 = d
  BY <1>1, SMT
<1>3. CASE b = (2 * n + 20) \div 40
  <2>1. 2 * n + 20 = 40 * d + (2 * r + 20)
    BY <1>1, SMT
  <2>2. (2 * n + 20) \div 40 \in {d, d + 1}
    BY <1>1, <2>1, SMT
  <2> QED
    BY <1>2, <1>3, <2>2, SMT DEF Unit
<1>4. CASE b = n \div 20
  BY <1>2, <1>4, SMT DEF Unit
<1> QED
  BY <1>3, <1>4, SMT DEF Nearest, Unit

----------------------------------------------------------------------------
(* Types.                                                                  *)

\* A priced call and a call that moves on keep the types of the client.
LEMMA AnswerKeepsType ==
  ASSUME TypeOK, NEW k \in Rows, Answer(k)
  PROVE  TypeOK'
<1>1. k \in Keys /\ table[k] \in 0 .. MaxRevision
  BY DEF TypeOK, BootTypeOK
<1>2. Amount(Rates[k][table[k]], ask) \in Nat
  <2>1. Rates[k][table[k]] \in [in : Nat, out : Nat]
    BY <1>1, RatesAssumption
  <2> QED
    BY <2>1, AmountType DEF TypeOK, Asks
<1>3. cost' \in Nat
  <2>1. \A n \in Nat : n \div 20 \in Nat
    BY SMT
  <2> QED
    BY <1>2, <2>1 DEF Answer, Price, Unit
<1>4. basis' \in Keys \X (0 .. MaxRevision)
  BY <1>1 DEF Answer
<1>5. BootTypeOK'
  BY DEF TypeOK, BootTypeOK, Answer, bootVars, procVars, rowVars, Rows
<1> QED
  BY <1>3, <1>4, <1>5 DEF TypeOK, Answer, Asks

LEMMA MissingKeepsType ==
  ASSUME TypeOK, NEW to \in {"default", "error"}, Missing(to)
  PROVE  TypeOK'
<1>1. BootTypeOK'
  BY DEF TypeOK, BootTypeOK, Missing, bootVars, procVars, rowVars, Rows
<1> QED
  BY <1>1 DEF TypeOK, Missing, Asks

\* Every variable of the rating service and its client stays in its range.
THEOREM TypeCorrect == Spec => []TypeOK
<1>1. Init /\ RatingInv => TypeOK
  <2> SUFFICES ASSUME Init, RatingInv PROVE TypeOK
    OBVIOUS
  <2>1. BootTypeOK
    BY RatingLife DEF RatingInv, LifeInv
  <2>2. ask \in Asks
    <3>1. PICK m \in Models, n \in Tokens : TRUE
      BY RatesAssumption
    <3>2. [model |-> m, in |-> n, out |-> n] \in Asks
      BY <3>1 DEF Asks
    <3> QED
      BY <3>2 DEF Init
  <2>3. <<Default, 0>> \in Keys \X (0 .. MaxRevision)
    BY BoundAssumption, RatesAssumption, SMT
  <2> QED
    BY <2>1, <2>2, <2>3, SMT DEF Init, TypeOK
<1>2. TypeOK /\ RatingInv' /\ [Next]_vars => TypeOK'
  <2> SUFFICES ASSUME TypeOK, RatingInv', [Next]_vars PROVE TypeOK'
    OBVIOUS
  <2>0. BootTypeOK'
    BY RatingLife DEF RatingInv, LifeInv
  <2>1. CASE UNCHANGED callVars
    BY <2>0, <2>1 DEF TypeOK, callVars, Asks
  <2>2. CASE ReadRates
    BY <2>2, AnswerKeepsType, MissingKeepsType DEF ReadRates
  <2>3. CASE ReadDefault
    BY <2>3, AnswerKeepsType, MissingKeepsType DEF ReadDefault
  <2>4. CASE ReadFails
    BY <2>4, MissingKeepsType DEF ReadFails
  <2>5. CASE Stopped
    BY <2>0, <2>5 DEF Stopped, TypeOK, Asks
  <2>6. CASE \E q \in Asks : Cost(q)
    <3>1. <<Default, 0>> \in Keys \X (0 .. MaxRevision)
      BY BoundAssumption, RatesAssumption, SMT
    <3> QED
      BY <2>0, <2>6, <3>1 DEF Cost, TypeOK, Asks
  <2> QED
    BY <2>1, <2>2, <2>3, <2>4, <2>5, <2>6 DEF Next, Main, Answers, vars
<1> QED
  BY <1>1, <1>2, RatingInvHolds, PTL DEF Spec

----------------------------------------------------------------------------
(***************************************************************************)
(* Prices.  "default" is the last row of the seed, and an insert that      *)
(* fails ends the seeding: so where the seed's "default" is, every seeded  *)
(* model is or was before an operator deleted it.  A call that goes on to  *)
(* "default" has seen that its model has no row, and while it is under way *)
(* the service does not seed.                                              *)
(***************************************************************************)
SeedsDefault == Default \in Rows /\ table[Default] = 0

CatalogInv ==
  /\ SeedsDefault => Range(SeedRows) \subseteq Rows \cup Range(deleted)
  /\ Seeding => \A i \in 1 .. at - 1 : SeedRows[i] \in Rows \cup Range(deleted)

CallInv ==
  /\ call \in Under => proc = "serve"
  /\ call = "default" /\ ask.model \in Range(SeedRows) \ Range(deleted) => ~SeedsDefault

\* The row "default" is one of the seed.
LEMMA DefaultSeeded ==
  /\ Default \in Range(SeedRows)
  /\ \A i \in 1 .. Len(SeedRows) : SeedRows[i] = Default => i = Len(SeedRows)
<1>1. Len(SeedRows) \in 1 .. Len(SeedRows)
  BY CatalogAssumption, RatingSeed, SMT
<1> QED
  BY <1>1, CatalogAssumption, RatingSeed

\* No row is gone that has not been deleted.
LEMMA RatingKeeps ==
  TypeOK /\ [Next]_vars => /\ Range(deleted) \subseteq Range(deleted)'
                           /\ Rows \subseteq Rows' \cup Range(deleted)'
BY SeedAssumption, RatingSteps, RatingLife, RowsStay DEF TypeOK

\* An insert of the next seed row keeps the catalog in order.
LEMMA SeedInsertKeepsCatalog ==
  ASSUME TypeOK, CatalogInv, Seeding, table' = Insert(SeedRows[at]), UNCHANGED deleted
  PROVE  /\ SeedsDefault' => Range(SeedRows) \subseteq Rows' \cup Range(deleted)'
         /\ \A i \in 1 .. at : SeedRows[i] \in Rows' \cup Range(deleted)'
<1>1. at \in 1 .. Len(SeedRows) /\ SeedRows[at] \in Range(SeedRows)
  BY RatingSeed DEF TypeOK
<1>2. /\ Rows' = Rows \cup {SeedRows[at]} /\ \A k \in Rows : table'[k] = table[k]
      /\ Range(deleted)' = Range(deleted)
  BY DEF Insert, Rows, Range
<1>3. \A i \in 1 .. at : i \in 1 .. at - 1 \/ i = at
  <2>1. at \in Int
    BY SMT DEF TypeOK, BootTypeOK
  <2> QED
    BY <2>1, SMT
<1>4. \A i \in 1 .. at : SeedRows[i] \in Rows' \cup Range(deleted)'
  BY <1>2, <1>3 DEF CatalogInv
<1>5. ASSUME Default \in Rows', Default \notin Rows
      PROVE  Range(SeedRows) \subseteq Rows' \cup Range(deleted)'
  <2>1. at = Len(SeedRows)
    BY <1>1, <1>2, <1>5, DefaultSeeded
  <2> QED
    BY <1>4, <2>1, RatingSeed
<1>6. SeedsDefault => Range(SeedRows) \subseteq Rows' \cup Range(deleted)'
  BY <1>2 DEF CatalogInv
<1>7. SeedsDefault' /\ Default \in Rows => SeedsDefault
  BY <1>2 DEF SeedsDefault
<1> QED
  BY <1>4, <1>5, <1>6, <1>7 DEF SeedsDefault

LEMMA BootKeepsCatalog == TypeOK /\ RatingInv /\ CatalogInv /\ Boot => CatalogInv'
<1> SUFFICES ASSUME TypeOK, RatingInv, CatalogInv, Boot PROVE CatalogInv'
  OBVIOUS
<1>0. at \in 1 .. Len(SeedRows) + 1 /\ Len(SeedRows) \in Nat
  BY RatingSeed DEF TypeOK
<1>1. CASE (Start \/ Connect \/ ConnectFails \/ MigrateFails \/ Listen)
  <2>1. proc' # "seed" /\ UNCHANGED <<table, deleted>>
    BY <1>1 DEF Start, Connect, ConnectFails, MigrateFails, Listen, rowVars
  <2> QED
    BY <2>1 DEF CatalogInv, SeedsDefault, Seeding, Rows, Range
<1>2. CASE Migrate
  <2>1. at' = 1 /\ UNCHANGED <<table, deleted>>
    BY <1>2 DEF Migrate, RatingInv, LifeInv, SeedInv
  <2>2. 1 .. at' - 1 = {}
    BY <2>1, SMT
  <2> QED
    BY <2>1, <2>2 DEF CatalogInv, SeedsDefault, Rows, Range
<1>3. CASE SeedRow
  <2>1. at' - 1 = at
    BY <1>0, <1>3, SMT DEF SeedRow
  <2> QED
    BY <1>3, <2>1, SeedInsertKeepsCatalog DEF SeedRow, CatalogInv
<1>4. CASE SeedFails
  <2>1. at' = Len(SeedRows) + 1 /\ UNCHANGED deleted
    BY <1>4, CatalogAssumption DEF SeedFails
  <2>2. ~Seeding'
    BY <1>0, <2>1, SMT DEF Seeding
  <2>3. UNCHANGED table \/ table' = Insert(SeedRows[at])
    BY <1>4 DEF SeedFails
  <2>4. CASE UNCHANGED table
    BY <2>1, <2>2, <2>4 DEF CatalogInv, SeedsDefault, Rows, Range
  <2>5. CASE table' = Insert(SeedRows[at])
    BY <1>4, <2>1, <2>2, <2>5, SeedInsertKeepsCatalog DEF SeedFails, CatalogInv
  <2> QED
    BY <2>3, <2>4, <2>5
<1> QED
  BY <1>1, <1>2, <1>3, <1>4 DEF Boot

\* An operator writes no row as the seed does.
LEMMA OperatorLeavesDefault ==
  ASSUME TypeOK, NEW k \in Keys, Operate(k) \/ Delete(k)
  PROVE  SeedsDefault' => SeedsDefault
<1>1. CASE Operate(k)
  <2>1. PICK old \in Nat : table' = [j \in Rows \cup {k} |-> IF j = k THEN old + 1 ELSE table[j]]
    <3>1. \A j \in Rows : table[j] \in Nat
      BY SMT DEF TypeOK, BootTypeOK
    <3> QED
      BY <1>1, <3>1 DEF Operate
  <2>2. old + 1 # 0
    BY SMT
  <2> QED
    BY <2>1, <2>2 DEF SeedsDefault, Rows
<1>2. CASE Delete(k)
  BY <1>2 DEF Delete, SeedsDefault, Rows
<1> QED
  BY <1>1, <1>2

\* An operator's change keeps the catalog in order.
LEMMA OperatorKeepsCatalog ==
  ASSUME TypeOK, CatalogInv, [Next]_vars, NEW k \in Keys, Operate(k) \/ Delete(k)
  PROVE  CatalogInv'
<1>1. SeedsDefault' => SeedsDefault
  BY OperatorLeavesDefault
<1>2. Rows \cup Range(deleted) \subseteq Rows' \cup Range(deleted)'
  BY RatingKeeps
<1>3. UNCHANGED <<proc, at>>
  BY DEF Operate, Delete, procVars
<1> QED
  BY <1>1, <1>2, <1>3 DEF CatalogInv, Seeding

LEMMA CatalogInvHolds == Spec => []CatalogInv
<1>1. Init => CatalogInv
  BY DEF Init, BootInit, CatalogInv, SeedsDefault, Seeding, Rows
<1>2. TypeOK /\ RatingInv /\ CatalogInv /\ [Next]_vars => CatalogInv'
  <2> SUFFICES ASSUME TypeOK, RatingInv, CatalogInv, [Next]_vars PROVE CatalogInv'
    OBVIOUS
  <2>1. CASE Main
    BY <2>1, BootKeepsCatalog DEF Main
  <2>2. CASE \E k \in Keys : Operate(k) \/ Delete(k)
    BY <2>2, OperatorKeepsCatalog
  <2>3. CASE Stopped
    BY <2>3 DEF Stopped, Stop, rowVars, CatalogInv, SeedsDefault, Seeding, Rows, Range
  <2>4. CASE UNCHANGED <<procVars, rowVars>>
    BY <2>4 DEF procVars, rowVars, CatalogInv, SeedsDefault, Seeding, Rows, Range
  <2>5. [Next]_vars => \/ Main \/ Stopped \/ UNCHANGED <<procVars, rowVars>>
                     \/ \E k \in Keys : Operate(k) \/ Delete(k)
    BY DEF Next, Answers, ReadRates, ReadDefault, ReadFails, Answer, Missing, Cost,
           Outside, Outage, Recover, vars, bootVars
  <2> QED
    BY <2>1, <2>2, <2>3, <2>4, <2>5
<1> QED
  BY <1>1, <1>2, TypeCorrect, RatingInvHolds, PTL DEF Spec

LEMMA CallInvHolds == Spec => []CallInv
<1>1. Init => CallInv
  BY DEF Init, CallInv, Under
<1>2. TypeOK /\ CatalogInv /\ CallInv /\ [Next]_vars => CallInv'
  <2> SUFFICES ASSUME TypeOK, CatalogInv, CallInv, [Next]_vars PROVE CallInv'
    OBVIOUS
  <2> USE DEF CallInv, Under
  <2>1. CASE Main
    <3>1. CASE call \in Under
      <4>1. FALSE
        BY <2>1, <3>1 DEF Main, Boot, Start, Connect, ConnectFails, Migrate, MigrateFails,
                          SeedRow, SeedFails, Seeding, Listen
      <4> QED
        BY <4>1
    <3> QED
      BY <2>1, <3>1 DEF Main, callVars
  <2>2. CASE Answers
    <3>1. UNCHANGED <<proc, table, deleted, ask>>
      BY <2>2 DEF Answers, ReadRates, ReadDefault, ReadFails, Answer, Missing,
                  bootVars, procVars, rowVars
    <3>2. call' = "default" => call \in Under /\ ask.model \notin Rows
      BY <2>2 DEF Answers, ReadRates, ReadDefault, ReadFails, Answer, Missing
    <3>3. call' \in Under => call' = "default"
      BY <2>2 DEF Answers, ReadRates, ReadDefault, ReadFails, Answer, Missing
    <3> QED
      BY <3>1, <3>2, <3>3 DEF CatalogInv, SeedsDefault, Rows, Range
  <2>3. CASE Stopped
    BY <2>3 DEF Stopped
  <2>4. CASE (Outage \/ Recover) /\ UNCHANGED callVars
    BY <2>4 DEF Outage, Recover, procVars, rowVars, callVars, SeedsDefault, Rows, Range
  <2>5. CASE (\E k \in Keys : Operate(k) \/ Delete(k)) /\ UNCHANGED callVars
    <3>1. SeedsDefault' => SeedsDefault
      BY <2>5, OperatorLeavesDefault
    <3>2. Range(deleted) \subseteq Range(deleted)'
      BY RatingKeeps
    <3> QED
      BY <2>5, <3>1, <3>2 DEF Operate, Delete, procVars, callVars
  <2>6. CASE \E q \in Asks : Cost(q)
    BY <2>6 DEF Cost, bootVars, procVars
  <2>7. CASE UNCHANGED vars
    BY <2>7 DEF vars, bootVars, procVars, rowVars, callVars, SeedsDefault, Rows, Range
  <2> QED
    BY <2>1, <2>2, <2>3, <2>4, <2>5, <2>6, <2>7 DEF Next, Outside
<1> QED
  BY <1>1, <1>2, TypeCorrect, CatalogInvHolds, PTL DEF Spec

\* A seeded model whose row no operator has deleted is never charged at the
\* row "default" of the seed.
THEOREM DefaultIsForStrangers == Spec => []NoSilentDefault
<1>1. Init => NoSilentDefault
  BY DEF Init, NoSilentDefault
<1>2. TypeOK /\ CallInv /\ NoSilentDefault /\ [Next]_vars => NoSilentDefault'
  <2> SUFFICES ASSUME TypeOK, CallInv, NoSilentDefault, [Next]_vars,
                      call' = "priced", ask'.model \in Range(SeedRows) \ Range(deleted)',
                      ask'.model # Default
               PROVE  basis' # <<Default, 0>>
    BY DEF NoSilentDefault
  <2>0. Range(deleted) \subseteq Range(deleted)'
    BY RatingKeeps
  <2>1. CASE UNCHANGED callVars
    BY <2>0, <2>1 DEF callVars, NoSilentDefault
  <2>2. CASE ReadRates
    BY <2>2 DEF ReadRates, Answer, Missing
  <2>3. CASE ReadDefault
    <3>1. ~SeedsDefault
      BY <2>0, <2>3 DEF ReadDefault, Answer, Missing, CallInv
    <3> QED
      BY <2>3, <3>1 DEF ReadDefault, Answer, Missing, SeedsDefault
  <2>4. CASE ReadFails
    BY <2>4 DEF ReadFails, Missing
  <2>5. CASE Stopped
    BY <2>0, <2>5 DEF Stopped, NoSilentDefault
  <2>6. CASE \E q \in Asks : Cost(q)
    BY <2>6 DEF Cost
  <2> QED
    BY <2>1, <2>2, <2>3, <2>4, <2>5, <2>6 DEF Next, Main, Answers, vars
<1> QED
  BY <1>1, <1>2, TypeCorrect, CallInvHolds, PTL DEF Spec

\* Where a call is priced by the row that the seed has written for it, what
\* rating answers and what the built-in table would have are at most one
\* micro apart, and rating's is the lower, for all rates and tokens.
THEOREM PricersNeverFarApart == Spec => []PricersAgree
<1>1. Init => PricersAgree
  BY DEF Init, PricersAgree
<1>2. ASSUME TypeOK, NEW k \in Rows, Answer(k) PROVE PricersAgree'
  <2> SUFFICES ASSUME table[k] = 0, k = BuiltinKey(ask.model) PROVE PricersAgree'
    BY <1>2 DEF Answer, PricersAgree, BuiltinKey
  <2>1. /\ basis' = <<k, 0>> /\ ask' = ask
        /\ cost' = Amount(Rates[k][0], ask) \div Unit
    BY <1>2 DEF Answer, Price
  <2>2. Builtin(ask) = Nearest(Amount(Rates[k][0], ask))
    BY DEF Builtin
  <2>3. Amount(Rates[k][0], ask) \in Nat
    <3>1. k \in Keys /\ 0 \in 0 .. MaxRevision
      BY <1>2, SMT DEF TypeOK, BootTypeOK
    <3>2. Rates[k][0] \in [in : Nat, out : Nat]
      BY <3>1, RatesAssumption
    <3> QED
      BY <1>2, <3>2, AmountType DEF TypeOK, Asks
  <2> DEFINE n == Amount(Rates[k][0], ask)
  <2>4. \A b \in Nearest(n) : n \div Unit <= b /\ b <= n \div Unit + 1
    BY <2>3, RoundingGap
  <2> QED
    BY <2>1, <2>2, <2>4 DEF PricersAgree
<1>3. TypeOK /\ PricersAgree /\ [Next]_vars => PricersAgree'
  <2> SUFFICES ASSUME TypeOK, PricersAgree, [Next]_vars PROVE PricersAgree'
    OBVIOUS
  <2>1. CASE UNCHANGED callVars
    BY <2>1 DEF callVars, PricersAgree, Builtin, BuiltinKey
  <2>2. CASE ReadRates \/ ReadDefault
    <3>1. CASE \E to \in {"default", "error"} : Missing(to)
      BY <3>1 DEF Missing, PricersAgree
    <3>2. CASE \E k \in Rows : Answer(k)
      BY <1>2, <3>2
    <3> QED
      BY <2>2, <3>1, <3>2 DEF ReadRates, ReadDefault
  <2>3. CASE ReadFails
    BY <2>3 DEF ReadFails, Missing, PricersAgree
  <2>4. CASE Stopped
    BY <2>4 DEF Stopped, PricersAgree, Builtin, BuiltinKey
  <2>5. CASE \E q \in Asks : Cost(q)
    BY <2>5 DEF Cost, PricersAgree
  <2> QED
    BY <2>1, <2>2, <2>3, <2>4, <2>5 DEF Next, Main, Answers, vars
<1> QED
  BY <1>1, <1>3, TypeCorrect, PTL DEF Spec

----------------------------------------------------------------------------
(* Identity: its life is one of these as well.                             *)

IdentityInv == LifeInv(VirtualKeys, DemoKeys, FALSE)

LEMMA IdentityLife ==
  /\ I!BootTypeOK <=> Life(VirtualKeys, DemoKeys, FALSE)!BootTypeOK
  /\ I!BootTypeOK' <=> Life(VirtualKeys, DemoKeys, FALSE)!BootTypeOK'
  /\ I!Boot <=> Life(VirtualKeys, DemoKeys, FALSE)!Boot
  /\ I!Stop <=> Life(VirtualKeys, DemoKeys, FALSE)!Stop
  /\ I!Outside <=> Life(VirtualKeys, DemoKeys, FALSE)!Outside
<1>1. I!BootTypeOK <=> Life(VirtualKeys, DemoKeys, FALSE)!BootTypeOK
  BY DEF I!BootTypeOK, Life!BootTypeOK, I!Rows, Life!Rows, I!Range, Life!Range
<1>2. I!BootTypeOK' <=> Life(VirtualKeys, DemoKeys, FALSE)!BootTypeOK'
  BY DEF I!BootTypeOK, Life!BootTypeOK, I!Rows, Life!Rows, I!Range, Life!Range
<1> USE DEF I!procVars, I!rowVars, Life!procVars, Life!rowVars,
            I!Rows, Life!Rows, I!Range, Life!Range
<1>3. I!Boot <=> Life(VirtualKeys, DemoKeys, FALSE)!Boot
  BY DEF I!Boot, I!Start, I!Connect, I!ConnectFails, I!Migrate,
         I!MigrateFails, I!SeedRow, I!SeedFails, I!Listen,
         I!Seeding, I!Insert,
         Life!Boot, Life!Start, Life!Connect, Life!ConnectFails, Life!Migrate,
         Life!MigrateFails, Life!SeedRow, Life!SeedFails, Life!Listen,
         Life!Seeding, Life!Insert
<1>4. I!Stop <=> Life(VirtualKeys, DemoKeys, FALSE)!Stop
  BY DEF I!Stop, Life!Stop
<1>5. I!Outside <=> Life(VirtualKeys, DemoKeys, FALSE)!Outside
  BY DEF I!Outside, I!Outage, I!Recover, I!Operate, I!Delete,
         Life!Outside, Life!Outage, Life!Recover, Life!Operate, Life!Delete
<1> QED
  BY <1>1, <1>2, <1>3, <1>4, <1>5

LEMMA IdentitySteps == [I!Next]_(I!vars) => LifeStep(VirtualKeys, DemoKeys, FALSE)
<1>1. [I!Next]_(I!vars) => I!Boot \/ I!Stop \/ I!Outside \/ UNCHANGED bootVars
  BY DEF I!Next, I!Main, I!Answers, I!Found, I!NotFound, I!ResolveFails, I!Finish,
         I!ResolveCaller, I!WarmUp, I!Stopped, I!vars, I!bootVars, I!procVars, I!rowVars,
         bootVars, procVars, rowVars
<1> QED
  BY <1>1, IdentityLife DEF LifeStep

LEMMA IdentityInvHolds == I!Spec => []IdentityInv
<1>1. I!Init => IdentityInv
  <2>1. I!Init => BootInit
    BY DEF I!Init, I!BootInit, BootInit
  <2> QED
    BY <2>1, IdentityAssumption, LifeBegins DEF IdentityInv
<1>2. IdentityInv /\ [I!Next]_(I!vars) => IdentityInv'
  BY IdentityAssumption, IdentitySteps, LifeGoesOn DEF IdentityInv
<1> QED
  BY <1>1, <1>2, PTL DEF I!Spec

(***************************************************************************)
(* A lookup is under way only while identity serves, and warmUp has rounds *)
(* left while it goes on.                                                  *)
(***************************************************************************)
LookupInv ==
  /\ request = "resolve" => proc = "serve"
  /\ warm = "going" => round < Rounds

\* Where a lookup or a warm-up finds identity at work, the demo keys are
\* there, but for those missed.
LEMMA IdentityServes ==
  IdentityInv /\ proc = "serve" => Range(DemoKeys) \subseteq I!Rows \cup missed
<1>1. IdentityInv /\ proc = "serve" => Range(DemoKeys) \subseteq Rows \cup lacking
  BY IdentityAssumption, ServingMeansSeeded DEF IdentityInv
<1>2. IdentityInv => lacking \subseteq missed
  BY LifeType DEF IdentityInv, LifeInv
<1> QED
  BY <1>1, <1>2 DEF I!Rows, Rows

\* What was missed stays so, and a demo key that was there is there or missed.
LEMMA IdentityKeeps ==
  IdentityInv /\ [I!Next]_(I!vars)
    => missed \subseteq missed' /\ I!Rows \cap Range(DemoKeys) \subseteq I!Rows' \cup missed'
BY IdentityAssumption, IdentitySteps, RowsStay DEF IdentityInv, LifeInv, I!Rows, Rows

LEMMA LookupInvHolds == I!Spec => [](I!TypeOK /\ LookupInv)
<1>1. I!Init /\ IdentityInv => I!TypeOK /\ LookupInv
  <2>1. 0 \in 0 .. MaxRevision /\ 0 \in 0 .. Rounds /\ 0 < Rounds
    BY BoundAssumption, IdentityAssumption, SMT
  <2> QED
    BY <2>1, IdentityLife DEF I!Init, I!TypeOK, LookupInv, IdentityInv, LifeInv
<1>0. 0 \in 0 .. MaxRevision
  BY BoundAssumption, SMT
<1>2. I!TypeOK /\ LookupInv /\ IdentityInv /\ IdentityInv' /\ [I!Next]_(I!vars)
        => I!TypeOK' /\ LookupInv'
  <2> SUFFICES ASSUME I!TypeOK, LookupInv, IdentityInv, IdentityInv', [I!Next]_(I!vars)
               PROVE  I!TypeOK' /\ LookupInv'
    OBVIOUS
  <2>9. warm = "going" => round + 1 \in 0 .. Rounds /\ (round + 1 # Rounds => round + 1 < Rounds)
    <3>1. Rounds \in Nat /\ round \in 0 .. Rounds /\ (warm = "going" => round < Rounds)
      BY IdentityAssumption DEF LookupInv, I!TypeOK
    <3> QED
      BY <3>1, SMT
  <2> USE DEF LookupInv, I!TypeOK
  <2>0. I!BootTypeOK'
    BY IdentityLife DEF IdentityInv, LifeInv
  <2>1. CASE I!Main
    <3>1. request # "resolve"
      <4>1. proc # "serve"
        BY <2>1 DEF I!Main, I!Boot, I!Start, I!Connect, I!ConnectFails, I!Migrate,
                    I!MigrateFails, I!SeedRow, I!SeedFails, I!Seeding, I!Listen
      <4> QED
        BY <4>1
    <3> QED
      BY <2>0, <2>1, <3>1 DEF I!Main, I!callVars, I!warmVars
  <2>2. CASE I!Found
    <3>1. table[key] \in 0 .. MaxRevision
      BY <2>2 DEF I!Found, I!BootTypeOK
    <3> QED
      BY <2>0, <2>2, <3>1 DEF I!Found, I!warmVars, I!bootVars, I!procVars
  <2>3. CASE I!NotFound \/ I!ResolveFails
    BY <2>0, <2>3 DEF I!NotFound, I!ResolveFails, I!Finish, I!warmVars
  <2>4. CASE I!WarmUp
    <3>1. round + 1 \in 0 .. Rounds /\ (round + 1 # Rounds => round + 1 < Rounds)
      BY <2>4, <2>9 DEF I!WarmUp
    <3>2. /\ warm' \in {"complete", "gave up", "going"}
          /\ warm' = "going" => round' # Rounds
          /\ round' = round + 1 /\ UNCHANGED <<I!bootVars, I!callVars>>
      BY <2>4 DEF I!WarmUp
    <3> QED
      BY <2>0, <3>1, <3>2 DEF I!bootVars, I!procVars, I!callVars
  <2>5. CASE I!Stopped
    BY <2>0, <2>5 DEF I!Stopped, I!warmVars
  <2>6. CASE I!Outside /\ UNCHANGED <<I!callVars, I!warmVars>>
    BY <2>0, <2>6 DEF I!Outside, I!Outage, I!Recover, I!Operate, I!Delete, I!procVars,
                    I!callVars, I!warmVars
  <2>7. CASE \E k \in VirtualKeys \cup {NoKey} : I!ResolveCaller(k)
    BY <1>0, <2>0, <2>7 DEF I!ResolveCaller, I!warmVars, I!bootVars, I!procVars
  <2>8. CASE UNCHANGED I!vars
    BY <2>0, <2>8 DEF I!vars, I!bootVars, I!procVars, I!callVars, I!warmVars
  <2> QED
    BY <2>1, <2>2, <2>3, <2>4, <2>5, <2>6, <2>7, <2>8 DEF I!Next, I!Answers
<1> QED
  BY <1>1, <1>2, IdentityInvHolds, PTL DEF I!Spec

\* A demo key is refused as unknown only when it was missed.
LEMMA UnknownWereMissed == I!Spec => []I!KnownUnlessMissed
<1>1. I!Init => I!KnownUnlessMissed
  BY DEF I!Init, I!KnownUnlessMissed
<1>2. IdentityInv /\ LookupInv /\ I!KnownUnlessMissed /\ [I!Next]_(I!vars)
        => I!KnownUnlessMissed'
  <2> SUFFICES ASSUME IdentityInv, LookupInv, I!KnownUnlessMissed, [I!Next]_(I!vars)
               PROVE  I!KnownUnlessMissed'
    OBVIOUS
  <2> USE DEF I!KnownUnlessMissed
  <2>0. missed \subseteq missed'
    BY IdentityKeeps
  <2>1. CASE UNCHANGED I!callVars
    BY <2>0, <2>1 DEF I!callVars
  <2>2. CASE I!NotFound
    <3>1. key \in I!Range(DemoKeys) => key \in missed
      BY <2>2, IdentityServes DEF I!NotFound, LookupInv, I!Range, Range
    <3> QED
      BY <2>0, <2>2, <3>1 DEF I!NotFound, I!Finish
  <2>3. CASE I!Found \/ I!ResolveFails
    BY <2>3 DEF I!Found, I!ResolveFails, I!Finish
  <2>4. CASE I!Stopped
    BY <2>0, <2>4 DEF I!Stopped
  <2>5. CASE \E k \in VirtualKeys \cup {NoKey} : I!ResolveCaller(k)
    <3>1. NoKey \notin I!Range(DemoKeys)
      BY IdentityAssumption, SeedRowsInRange DEF I!Range, Range
    <3> QED
      BY <2>5, <3>1 DEF I!ResolveCaller
  <2> QED
    BY <2>1, <2>2, <2>3, <2>4, <2>5 DEF I!Next, I!Main, I!Answers, I!WarmUp, I!vars
<1> QED
  BY <1>1, <1>2, IdentityInvHolds, LookupInvHolds, PTL DEF I!Spec

\* A warm-up that reports success has found the demo keys there.
LEMMA SuccessMeansUsable == I!Spec => []I!WarmMeansUsable
<1>1. I!Init => I!WarmMeansUsable
  BY DEF I!Init, I!WarmMeansUsable
<1>2. IdentityInv /\ I!WarmMeansUsable /\ [I!Next]_(I!vars) => I!WarmMeansUsable'
  <2> SUFFICES ASSUME IdentityInv, I!WarmMeansUsable, [I!Next]_(I!vars), warm' = "complete"
               PROVE  I!Range(DemoKeys) \subseteq I!Rows' \cup missed'
    BY DEF I!WarmMeansUsable
  <2>1. /\ missed \subseteq missed'
        /\ I!Rows \cap I!Range(DemoKeys) \subseteq I!Rows' \cup missed'
    BY IdentityKeeps DEF I!Range, Range
  <2>2. CASE warm = "complete"
    BY <2>1, <2>2 DEF I!WarmMeansUsable
  <2>3. CASE warm # "complete"
    <3>1. proc = "serve"
      BY <2>3 DEF I!Next, I!Main, I!Answers, I!Found, I!NotFound, I!ResolveFails, I!Finish,
                  I!ResolveCaller, I!WarmUp, I!IdentityAnswers, I!Stopped, I!vars, I!warmVars
    <3>2. I!Range(DemoKeys) \subseteq I!Rows \cup missed
      BY <3>1, IdentityServes DEF I!Range, Range
    <3> QED
      BY <2>1, <3>2
  <2> QED
    BY <2>2, <2>3
<1> QED
  BY <1>1, <1>2, IdentityInvHolds, PTL DEF I!Spec

----------------------------------------------------------------------------
(* Billing: its life, too.                                                 *)

BillingInv == LifeInv(Subscriptions, DemoSubscriptions, StopAtError)

LEMMA BillingLife ==
  /\ B!BootTypeOK <=> Life(Subscriptions, DemoSubscriptions, StopAtError)!BootTypeOK
  /\ B!BootTypeOK' <=> Life(Subscriptions, DemoSubscriptions, StopAtError)!BootTypeOK'
  /\ B!Boot <=> Life(Subscriptions, DemoSubscriptions, StopAtError)!Boot
  /\ B!Stop <=> Life(Subscriptions, DemoSubscriptions, StopAtError)!Stop
  /\ B!Outside <=> Life(Subscriptions, DemoSubscriptions, StopAtError)!Outside
<1>1. B!BootTypeOK <=> Life(Subscriptions, DemoSubscriptions, StopAtError)!BootTypeOK
  BY DEF B!BootTypeOK, Life!BootTypeOK, B!Rows, Life!Rows, B!Range, Life!Range
<1>2. B!BootTypeOK' <=> Life(Subscriptions, DemoSubscriptions, StopAtError)!BootTypeOK'
  BY DEF B!BootTypeOK, Life!BootTypeOK, B!Rows, Life!Rows, B!Range, Life!Range
<1> USE DEF B!procVars, B!rowVars, Life!procVars, Life!rowVars,
            B!Rows, Life!Rows, B!Range, Life!Range
<1>3. B!Boot <=> Life(Subscriptions, DemoSubscriptions, StopAtError)!Boot
  BY DEF B!Boot, B!Start, B!Connect, B!ConnectFails, B!Migrate,
         B!MigrateFails, B!SeedRow, B!SeedFails, B!Listen,
         B!Seeding, B!Insert,
         Life!Boot, Life!Start, Life!Connect, Life!ConnectFails, Life!Migrate,
         Life!MigrateFails, Life!SeedRow, Life!SeedFails, Life!Listen,
         Life!Seeding, Life!Insert
<1>4. B!Stop <=> Life(Subscriptions, DemoSubscriptions, StopAtError)!Stop
  BY DEF B!Stop, Life!Stop
<1>5. B!Outside <=> Life(Subscriptions, DemoSubscriptions, StopAtError)!Outside
  BY DEF B!Outside, B!Outage, B!Recover, B!Operate, B!Delete,
         Life!Outside, Life!Outage, Life!Recover, Life!Operate, Life!Delete
<1> QED
  BY <1>1, <1>2, <1>3, <1>4, <1>5

LEMMA BillingSteps ==
  [B!Next]_(B!vars) => LifeStep(Subscriptions, DemoSubscriptions, StopAtError)
<1>1. [B!Next]_(B!vars) => B!Boot \/ B!Stop \/ B!Outside \/ UNCHANGED bootVars
  BY DEF B!Next, B!Main, B!Answers, B!ReadSubs, B!ReadCogs, B!ReadFails, B!Stopped, B!Forecast,
         B!Invoice, B!Margin, B!Overview, B!Get, B!Ask, B!Metered,
         B!vars, B!bootVars, B!procVars, B!rowVars, bootVars, procVars, rowVars
<1> QED
  BY <1>1, BillingLife DEF LifeStep

LEMMA BillingInvHolds == B!Spec => []BillingInv
<1>1. B!Init => BillingInv
  <2>1. B!Init => BootInit
    BY DEF B!Init, B!BootInit, BootInit
  <2> QED
    BY <2>1, BillingAssumption, LifeBegins DEF BillingInv
<1>2. BillingInv /\ [B!Next]_(B!vars) => BillingInv'
  BY BillingAssumption, BillingSteps, LifeGoesOn DEF BillingInv
<1> QED
  BY <1>1, <1>2, PTL DEF B!Spec

\* What was missed stays so, and a subscription that was there is there, or
\* deleted and, as one of the seed, missed.
LEMMA BillingKeeps ==
  BillingInv /\ [B!Next]_(B!vars)
    => /\ missed \subseteq missed' /\ B!Range(deleted) \subseteq B!Range(deleted)'
       /\ B!Rows \subseteq B!Rows' \cup B!Range(deleted)'
       /\ B!Rows \cap Range(DemoSubscriptions) \subseteq B!Rows' \cup missed'
<1> SUFFICES ASSUME BillingInv, [B!Next]_(B!vars)
             PROVE  /\ missed \subseteq missed' /\ Range(deleted) \subseteq Range(deleted)'
                    /\ Rows \subseteq Rows' \cup Range(deleted)'
                    /\ Rows \cap Range(DemoSubscriptions) \subseteq Rows' \cup missed'
  BY DEF B!Rows, Rows, B!Range, Range
<1> QED
  BY BillingAssumption, BillingSteps, RowsStay DEF BillingInv, LifeInv

\* What billing reads while it serves has the seed but for what was missed.
LEMMA BillingServes ==
  BillingInv /\ proc = "serve" => Range(DemoSubscriptions) \subseteq B!Rows \cup missed
<1>1. BillingInv /\ proc = "serve" => Range(DemoSubscriptions) \subseteq Rows \cup lacking
  BY BillingAssumption, ServingMeansSeeded DEF BillingInv
<1>2. BillingInv => lacking \subseteq missed
  BY LifeType DEF BillingInv, LifeInv
<1> QED
  BY <1>1, <1>2 DEF B!Rows, Rows

\* What a question for a page does.
LEMMA AskEffect ==
  ASSUME B!TypeOK, NEW who \in {"billing", "analytics"}, NEW p \in B!Pages, B!Ask(who, p)
  PROVE  /\ by' = who /\ of' = p /\ subs' = {} /\ DOMAIN lines' = {}
         /\ page' \in {"subs", "no answer"}
         /\ who = "billing" /\ page' = "subs" => proc = "serve"
         /\ DOMAIN asOf' = {a \in Accounts : a[1] = p[1]}
         /\ asOf' \in [DOMAIN asOf' -> 0 .. MaxUsage]
         /\ \A a \in DOMAIN asOf' : asOf'[a] = usage[a]
         /\ UNCHANGED <<B!bootVars, usage>>
<1>1. asOf' = [a \in {b \in Accounts : b[1] = p[1]} |-> usage[a]]
  BY DEF B!Ask, B!UsageOf
<1>2. usage \in [Accounts -> 0 .. MaxUsage]
  BY DEF B!TypeOK
<1>3. /\ DOMAIN asOf' = {a \in Accounts : a[1] = p[1]}
      /\ asOf' \in [{a \in Accounts : a[1] = p[1]} -> 0 .. MaxUsage]
      /\ \A a \in {b \in Accounts : b[1] = p[1]} : asOf'[a] = usage[a]
  BY <1>1, <1>2
<1>4. /\ by' = who /\ of' = p /\ subs' = {} /\ lines' = << >>
      /\ page' \in {"subs", "no answer"}
      /\ who = "billing" /\ page' = "subs" => proc = "serve"
      /\ UNCHANGED <<B!bootVars, usage>>
  BY DEF B!Ask
<1>5. DOMAIN << >> = {}
  BY SMT
<1> QED
  BY <1>3, <1>4, <1>5

\* The questions a step may ask.
LEMMA Questions ==
  ASSUME B!TypeOK, B!Forecast \/ \E p \in B!Pages : B!Invoice(p) \/ B!Margin(p) \/ B!Overview(p)
  PROVE  \E who \in {"billing", "analytics"}, p \in B!Pages :
           /\ B!Ask(who, p)
           /\ view' \in {"none", "invoice", "forecast"}
           /\ view' = "forecast" => who = "analytics" /\ B!Forecast /\ p = of
           /\ view' = "invoice" => p[2] = All
<1>1. CASE B!Forecast
  BY <1>1 DEF B!Forecast, B!TypeOK
<1>2. CASE \E p \in B!Pages : B!Invoice(p) \/ B!Margin(p) \/ B!Overview(p)
  BY <1>2 DEF B!Invoice, B!Margin, B!Overview, B!Get
<1> QED
  BY <1>1, <1>2

\* What is left of the steps of billing.
LEMMA BillingCases ==
  [B!Next]_(B!vars) =>
    \/ UNCHANGED <<B!pageVars, B!viewVars, usage>>
    \/ B!ReadSubs \/ B!ReadCogs \/ B!ReadFails \/ B!Stopped
    \/ B!Forecast \/ \E p \in B!Pages : B!Invoice(p) \/ B!Margin(p) \/ B!Overview(p)
    \/ \E a \in Accounts : B!Metered(a)
BY DEF B!Next, B!Main, B!Answers, B!vars

\* The accounts' costs only grow.
LEMMA UsageGrows ==
  ASSUME B!TypeOK, [B!Next]_(B!vars)
  PROVE  /\ usage' \in [Accounts -> 0 .. MaxUsage]
         /\ \A a \in Accounts : usage[a] \in Nat /\ usage'[a] \in Nat /\ usage[a] <= usage'[a]
<1>1. usage \in [Accounts -> 0 .. MaxUsage] /\ \A a \in Accounts : usage[a] \in Nat
  <2>1. usage \in [Accounts -> 0 .. MaxUsage]
    BY DEF B!TypeOK
  <2> QED
    BY <2>1, SMT
<1>0. MaxUsage \in Nat
  BY BillingAssumption
<1>2. CASE UNCHANGED usage
  BY <1>1, <1>2, SMT
<1>3. ASSUME NEW a \in Accounts, B!Metered(a) PROVE usage' \in [Accounts -> 0 .. MaxUsage]
           /\ \A b \in Accounts : usage'[b] \in Nat /\ usage[b] <= usage'[b]
  <2>1. usage[a] < MaxUsage /\ usage' = [usage EXCEPT ![a] = @ + 1]
    BY <1>3 DEF B!Metered
  <2>2. usage[a] + 1 \in 0 .. MaxUsage /\ usage[a] + 1 \in Nat /\ usage[a] <= usage[a] + 1
    BY <1>0, <1>1, <2>1, SMT
  <2>3. \A b \in Accounts : usage'[b] = IF b = a THEN usage[a] + 1 ELSE usage[b]
    BY <1>1, <2>1
  <2>4. \A b \in Accounts : usage[b] <= usage[b]
    BY <1>1, SMT
  <2> QED
    BY <1>1, <2>1, <2>2, <2>3, <2>4
<1>4. UNCHANGED usage \/ \E a \in Accounts : B!Metered(a)
  BY DEF B!Next, B!Main, B!Answers, B!ReadSubs, B!ReadCogs, B!ReadFails, B!Stopped, B!Forecast,
         B!Invoice, B!Margin, B!Overview, B!Get, B!Ask, B!vars
<1> QED
  BY <1>1, <1>2, <1>3, <1>4

\* A page that has been asked for, and a read of it, keep the types.
LEMMA BillingTypes == B!Spec => []B!TypeOK
<1>1. B!Init /\ BillingInv => B!TypeOK
  <2> SUFFICES ASSUME B!Init, BillingInv PROVE B!TypeOK
    OBVIOUS
  <2>1. of \in B!Pages
    <3>1. PICK k \in Subscriptions \cup Accounts : TRUE
      BY BillingAssumption
    <3>2. <<k[1], k[2]>> \in B!Pages
      BY DEF B!Pages, B!Everyone
    <3> QED
      BY <3>2 DEF B!Init
  <2>2. usage \in [Accounts -> 0 .. MaxUsage]
    <3>1. 0 \in 0 .. MaxUsage
      BY BillingAssumption, SMT
    <3> QED
      BY <3>1 DEF B!Init
  <2>3. DOMAIN << >> = {} /\ << >> \in [{} -> 0 .. MaxUsage]
    BY SMT
  <2>4. B!BootTypeOK
    BY BillingLife DEF BillingInv, LifeInv
  <2> QED
    BY <2>1, <2>2, <2>3, <2>4 DEF B!Init, B!TypeOK
<1>2. B!TypeOK /\ BillingInv' /\ [B!Next]_(B!vars) => B!TypeOK'
  <2> SUFFICES ASSUME B!TypeOK, BillingInv', [B!Next]_(B!vars) PROVE B!TypeOK'
    OBVIOUS
  <2>0. B!BootTypeOK' /\ usage' \in [Accounts -> 0 .. MaxUsage]
    BY BillingLife, UsageGrows DEF BillingInv, LifeInv
  <2>1. CASE UNCHANGED <<B!pageVars, B!viewVars, usage>>
    BY <2>0, <2>1 DEF B!TypeOK, B!pageVars, B!viewVars, B!Pages, B!Everyone
  <2>2. CASE B!ReadSubs
    <3>1. B!Subscribers \subseteq {k[2] : k \in Subscriptions}
      BY DEF B!Subscribers, B!TypeOK, B!BootTypeOK
    <3> QED
      BY <2>0, <2>2, <3>1 DEF B!ReadSubs, B!viewVars, B!TypeOK, B!Pages, B!Everyone
  <2>3. CASE B!ReadCogs
    BY <2>0, <2>3 DEF B!ReadCogs, B!viewVars, B!TypeOK, B!Pages, B!Everyone
  <2>4. CASE B!ReadFails
    BY <2>0, <2>4 DEF B!ReadFails, B!Failure, B!viewVars, B!TypeOK, B!Pages, B!Everyone
  <2>5. CASE B!Stopped
    BY <2>0, <2>5 DEF B!Stopped, B!viewVars, B!TypeOK, B!Pages, B!Everyone
  <2>6. CASE B!Forecast \/ \E p \in B!Pages : B!Invoice(p) \/ B!Margin(p) \/ B!Overview(p)
    <3>1. PICK who \in {"billing", "analytics"}, p \in B!Pages :
            B!Ask(who, p) /\ view' \in {"none", "invoice", "forecast"}
      BY <2>6, Questions
    <3>2. /\ by' = who /\ of' = p /\ subs' = {} /\ DOMAIN lines' = {}
          /\ page' \in {"subs", "no answer"} /\ asOf' \in [DOMAIN asOf' -> 0 .. MaxUsage]
      BY <3>1, AskEffect
    <3> QED
      BY <2>0, <3>1, <3>2 DEF B!TypeOK, B!Pages, B!Everyone
  <2>7. CASE \E a \in Accounts : B!Metered(a)
    BY <2>0, <2>7 DEF B!Metered, B!pageVars, B!viewVars, B!TypeOK, B!Pages, B!Everyone
  <2> QED
    BY <2>1, <2>2, <2>3, <2>4, <2>5, <2>6, <2>7, BillingCases
<1> QED
  BY <1>1, <1>2, BillingInvHolds, PTL DEF B!Spec

----------------------------------------------------------------------------
(***************************************************************************)
(* What a page rests on.  Its instant of reference is the tenant's rows as *)
(* they were when it was asked for; the customers it is about have a       *)
(* subscription, and keep it until an operator deletes it; and the costs   *)
(* on it are no more than the costs are by now.                            *)
(***************************************************************************)
Had == B!Rows \cup Range(deleted)

PageInv ==
  /\ page # "idle" => DOMAIN asOf = {a \in Accounts : a[1] = of[1]}
  /\ DOMAIN asOf \subseteq Accounts /\ \A a \in DOMAIN asOf : asOf[a] <= usage[a]
  /\ page = "cogs" => \A c \in subs : <<of[1], c>> \in Had
  /\ page = "200" => \A c \in DOMAIN lines :
       /\ <<of[1], c>> \in Had /\ lines[c] \in Nat /\ lines[c] <= B!Cogs(c)
       /\ <<of[1], c>> \in Accounts => asOf[<<of[1], c>>] <= lines[c]

(***************************************************************************)
(* What an overview rests on: the customers of its invoice, but for those  *)
(* who are deleted, will be on its forecast, with no less than the invoice *)
(* has shown.                                                              *)
(***************************************************************************)
ShownInv ==
  /\ view # "none" => of[2] = All
  /\ view = "forecast" => \A c \in DOMAIN shown :
       /\ <<of[1], c>> \in Had /\ shown[c] \in Nat /\ shown[c] <= B!Cogs(c)
       /\ page = "cogs" /\ <<of[1], c>> \notin Range(deleted) => c \in subs
       /\ page = "200" /\ <<of[1], c>> \notin Range(deleted)
            => c \in DOMAIN lines /\ shown[c] <= lines[c]

\* Whoever had a subscription has had it.
LEMMA HadStays ==
  BillingInv /\ [B!Next]_(B!vars)
    => Had \subseteq Had' /\ Range(deleted) \subseteq Range(deleted)'
BY BillingKeeps DEF Had, B!Range, Range

\* The costs of a customer of the page's tenant only grow.
LEMMA CogsGrow ==
  ASSUME B!TypeOK, [B!Next]_(B!vars), of'[1] = of[1], NEW c
  PROVE  B!Cogs(c) \in Nat /\ B!Cogs(c)' \in Nat /\ B!Cogs(c) <= B!Cogs(c)'
<1>1. CASE <<of[1], c>> \in Accounts
  BY <1>1, UsageGrows DEF B!Cogs, B!Tenant
<1>2. CASE <<of[1], c>> \notin Accounts
  BY <1>2, SMT DEF B!Cogs, B!Tenant
<1> QED
  BY <1>1, <1>2

LEMMA CogsType == ASSUME B!TypeOK, NEW c PROVE B!Cogs(c) \in Nat
<1>1. usage \in [Accounts -> 0 .. MaxUsage]
  BY DEF B!TypeOK
<1>2. \A a \in Accounts : usage[a] \in Nat
  BY <1>1, SMT
<1> QED
  BY <1>2, SMT DEF B!Cogs, B!Tenant

\* What was true of the reference stays so while nobody asks.
LEMMA ReferenceStays ==
  ASSUME B!TypeOK, [B!Next]_(B!vars), DOMAIN asOf \subseteq Accounts, UNCHANGED asOf,
         \A a \in DOMAIN asOf : asOf[a] <= usage[a]
  PROVE  \A a \in DOMAIN asOf' : asOf'[a] <= usage'[a]
<1>1. ASSUME NEW a \in DOMAIN asOf PROVE asOf[a] <= usage'[a]
  <2>1. asOf[a] \in 0 .. MaxUsage /\ asOf[a] <= usage[a]
    BY DEF B!TypeOK
  <2>2. usage[a] \in Nat /\ usage'[a] \in Nat /\ usage[a] <= usage'[a]
    BY UsageGrows
  <2> QED
    BY <2>1, <2>2, SMT
<1> QED
  BY <1>1

LEMMA PageInvKept ==
  ASSUME B!TypeOK, BillingInv, PageInv, [B!Next]_(B!vars)
  PROVE  PageInv'
<1>0. Had \subseteq Had' /\ Range(deleted) \subseteq Range(deleted)'
  BY HadStays
<1>1. CASE UNCHANGED <<asOf, of, lines>> /\ page # "idle" /\ page' # "200"
           /\ (page' = "cogs" => page = "cogs" /\ UNCHANGED subs)
  <2>1. \A a \in DOMAIN asOf' : asOf'[a] <= usage'[a]
    BY <1>1, ReferenceStays DEF PageInv
  <2> QED
    BY <1>0, <1>1, <2>1 DEF PageInv
<1>2. CASE UNCHANGED <<asOf, of, lines, subs, page>>
  <2>1. \A a \in DOMAIN asOf' : asOf'[a] <= usage'[a]
    BY <1>2, ReferenceStays DEF PageInv
  <2>2. ASSUME page = "200", NEW c \in DOMAIN lines
        PROVE  lines[c] <= B!Cogs(c)'
    <3>1. lines[c] \in Nat /\ lines[c] <= B!Cogs(c)
      BY <2>2 DEF PageInv
    <3>2. B!Cogs(c) \in Nat /\ B!Cogs(c)' \in Nat /\ B!Cogs(c) <= B!Cogs(c)'
      BY <1>2, CogsGrow
    <3> QED
      BY <3>1, <3>2, SMT
  <2> QED
    BY <1>0, <1>2, <2>1, <2>2 DEF PageInv
<1>3. CASE B!ReadSubs
  <2>1. \A a \in DOMAIN asOf' : asOf'[a] <= usage'[a]
    BY <1>3, ReferenceStays DEF PageInv, B!ReadSubs
  <2>2. \A c \in B!Subscribers : <<of[1], c>> \in Had
    BY DEF B!Subscribers, B!Tenant, Had
  <2>3. page' \in {"404", "cogs"} /\ subs' = B!Subscribers /\ UNCHANGED <<of, asOf, lines>>
        /\ page # "idle"
    BY <1>3 DEF B!ReadSubs
  <2> QED
    BY <1>0, <2>1, <2>2, <2>3 DEF PageInv
<1>4. CASE B!ReadCogs
  <2>1. \A a \in DOMAIN asOf' : asOf'[a] <= usage'[a]
    BY <1>4, ReferenceStays DEF PageInv, B!ReadCogs
  <2>2. /\ page = "cogs" /\ lines' = [c \in subs |-> B!Cogs(c)] /\ page' = "200"
        /\ UNCHANGED <<of, asOf, usage>>
    BY <1>4 DEF B!ReadCogs
  <2>3. ASSUME NEW c \in subs
        PROVE  /\ <<of[1], c>> \in Had' /\ lines'[c] \in Nat /\ lines'[c] <= B!Cogs(c)'
               /\ <<of[1], c>> \in Accounts => asOf[<<of[1], c>>] <= lines'[c]
    <3>1. lines'[c] = B!Cogs(c) /\ B!Cogs(c)' = B!Cogs(c) /\ B!Cogs(c) \in Nat
      BY <2>2, <2>3, CogsType DEF B!Cogs, B!Tenant
    <3>2. B!Cogs(c) <= B!Cogs(c)
      BY <3>1, SMT
    <3>3. <<of[1], c>> \in Accounts => asOf[<<of[1], c>>] <= B!Cogs(c)
      <4> SUFFICES ASSUME <<of[1], c>> \in Accounts PROVE asOf[<<of[1], c>>] <= B!Cogs(c)
        OBVIOUS
      <4>1. <<of[1], c>> \in DOMAIN asOf
        BY <2>2 DEF PageInv
      <4> QED
        BY <4>1 DEF PageInv, B!Cogs, B!Tenant
    <3> QED
      BY <1>0, <2>2, <3>1, <3>2, <3>3 DEF PageInv
  <2>4. DOMAIN lines' = subs
    BY <2>2
  <2> QED
    BY <2>1, <2>2, <2>3, <2>4 DEF PageInv
<1>5. CASE B!Forecast \/ \E p \in B!Pages : B!Invoice(p) \/ B!Margin(p) \/ B!Overview(p)
  <2>1. PICK who \in {"billing", "analytics"}, p \in B!Pages : B!Ask(who, p)
    BY <1>5, Questions
  <2>2. /\ of' = p /\ page' \in {"subs", "no answer"} /\ UNCHANGED usage
        /\ DOMAIN asOf' = {a \in Accounts : a[1] = p[1]}
        /\ \A a \in DOMAIN asOf' : asOf'[a] = usage[a]
    BY <2>1, AskEffect
  <2>3. \A a \in Accounts : usage[a] <= usage[a]
    <3>1. \A a \in Accounts : usage[a] \in Nat
      BY UsageGrows
    <3> QED
      BY <3>1, SMT
  <2> QED
    BY <2>2, <2>3 DEF PageInv
<1>6. CASE B!ReadFails
  BY <1>1, <1>6 DEF B!ReadFails, B!Failure
<1>7. CASE B!Stopped
  BY <1>1, <1>2, <1>7 DEF B!Stopped, B!Reading
<1> QED
  BY <1>2, <1>3, <1>4, <1>5, <1>6, <1>7, BillingCases DEF B!pageVars, B!Metered

LEMMA ShownInvKept ==
  ASSUME B!TypeOK, BillingInv, PageInv, ShownInv, [B!Next]_(B!vars)
  PROVE  ShownInv'
<1>0. Had \subseteq Had' /\ Range(deleted) \subseteq Range(deleted)'
  BY HadStays
<1>1. ASSUME UNCHANGED <<of, shown>>, view = "forecast", NEW c \in DOMAIN shown
      PROVE  /\ <<of[1], c>> \in Had' /\ shown[c] \in Nat /\ shown[c] <= B!Cogs(c)'
  <2>1. <<of[1], c>> \in Had /\ shown[c] \in Nat /\ shown[c] <= B!Cogs(c)
    BY <1>1 DEF ShownInv
  <2>2. B!Cogs(c) \in Nat /\ B!Cogs(c)' \in Nat /\ B!Cogs(c) <= B!Cogs(c)'
    BY <1>1, CogsGrow
  <2> QED
    BY <1>0, <2>1, <2>2, SMT
<1>2. CASE /\ UNCHANGED <<of, B!viewVars, lines>>
           /\ page' \in {"cogs", "200"} => page' = page /\ UNCHANGED subs
  BY <1>0, <1>1, <1>2 DEF ShownInv, B!viewVars
<1>3. CASE B!ReadSubs
  <2>1. /\ page' \in {"404", "cogs"} /\ subs' = B!Subscribers /\ UNCHANGED <<of, view, shown>>
    BY <1>3 DEF B!ReadSubs, B!viewVars
  <2>2. ASSUME view = "forecast", NEW c \in DOMAIN shown, <<of[1], c>> \notin Range(deleted)
        PROVE  c \in B!Subscribers
    <3>1. <<of[1], c>> \in B!Rows /\ of[2] = All
      BY <2>2 DEF ShownInv, Had
    <3>2. c \in {k[2] : k \in B!Rows}
      <4>1. <<of[1], c>>[2] = c
        OBVIOUS
      <4> QED
        BY <3>1, <4>1
    <3> QED
      BY <3>1, <3>2 DEF B!Subscribers, B!Tenant
  <2> QED
    BY <1>0, <1>1, <2>1, <2>2 DEF ShownInv
<1>4. CASE B!ReadCogs
  <2>1. /\ page = "cogs" /\ lines' = [c \in subs |-> B!Cogs(c)] /\ page' = "200"
        /\ UNCHANGED <<of, view, shown>>
    BY <1>4 DEF B!ReadCogs, B!viewVars
  <2>2. ASSUME view = "forecast", NEW c \in DOMAIN shown, <<of[1], c>> \notin Range(deleted)
        PROVE  c \in DOMAIN lines' /\ shown[c] <= lines'[c]
    BY <2>1, <2>2 DEF ShownInv
  <2> QED
    BY <1>0, <1>1, <2>1, <2>2 DEF ShownInv
<1>5. CASE B!Forecast \/ \E p \in B!Pages : B!Invoice(p) \/ B!Margin(p) \/ B!Overview(p)
  <2>1. PICK who \in {"billing", "analytics"}, p \in B!Pages :
          /\ B!Ask(who, p)
          /\ view' \in {"none", "invoice", "forecast"}
          /\ view' = "forecast" => who = "analytics" /\ B!Forecast /\ p = of
          /\ view' = "invoice" => p[2] = All
    BY <1>5, Questions
  <2>2. of' = p /\ page' \in {"subs", "no answer"}
    BY <2>1, AskEffect
  <2>3. CASE view' # "forecast"
    BY <2>1, <2>2, <2>3 DEF ShownInv
  <2>4. CASE view' = "forecast"
    <3>1. /\ view = "invoice" /\ UNCHANGED of
          /\ shown' = IF page = "200" THEN lines ELSE << >>
      BY <2>1, <2>2, <2>4 DEF B!Forecast
    <3>2. of[2] = All
      BY <3>1 DEF ShownInv
    <3>3. ASSUME NEW c \in DOMAIN shown'
          PROVE  <<of[1], c>> \in Had' /\ shown'[c] \in Nat /\ shown'[c] <= B!Cogs(c)'
      <4>1. page = "200" /\ shown' = lines
        <5>1. DOMAIN << >> = {}
          BY SMT
        <5> QED
          BY <3>1, <3>3, <5>1
      <4>2. <<of[1], c>> \in Had /\ lines[c] \in Nat /\ lines[c] <= B!Cogs(c)
        BY <3>3, <4>1 DEF PageInv
      <4>3. B!Cogs(c) \in Nat /\ B!Cogs(c)' \in Nat /\ B!Cogs(c) <= B!Cogs(c)'
        BY <3>1, CogsGrow
      <4> QED
        BY <1>0, <4>1, <4>2, <4>3, SMT
    <3> QED
      BY <2>2, <3>1, <3>2, <3>3 DEF ShownInv
  <2> QED
    BY <2>3, <2>4
<1>6. CASE B!ReadFails
  BY <1>2, <1>6 DEF B!ReadFails, B!Failure
<1>7. CASE B!Stopped
  BY <1>2, <1>7 DEF B!Stopped
<1> QED
  BY <1>2, <1>3, <1>4, <1>5, <1>6, <1>7, BillingCases DEF B!pageVars, B!Metered

LEMMA PagesHold == B!Spec => [](PageInv /\ ShownInv)
<1>1. B!Init => PageInv /\ ShownInv
  <2>1. DOMAIN << >> = {}
    BY SMT
  <2> QED
    BY <2>1 DEF B!Init, PageInv, ShownInv
<1>2. /\ B!TypeOK /\ BillingInv /\ PageInv /\ ShownInv /\ [B!Next]_(B!vars)
      => PageInv' /\ ShownInv'
  BY PageInvKept, ShownInvKept
<1> QED
  BY <1>1, <1>2, BillingTypes, BillingInvHolds, PTL DEF B!Spec

\* The costs on a page are those of an instant between question and answer.
LEMMA PagesBracketed == B!Spec => []B!LinesBracketed
<1>1. PageInv /\ ShownInv => B!LinesBracketed
  BY DEF PageInv, ShownInv, B!LinesBracketed, B!Cogs, B!Tenant, B!Range, Range
<1> QED
  BY <1>1, PagesHold, PTL

----------------------------------------------------------------------------
(***************************************************************************)
(* A page of billing's is read while it serves, and so finds the seeded    *)
(* subscriptions.                                                          *)
(***************************************************************************)
SeenInv ==
  by = "billing" =>
    /\ page \in B!Reading => proc = "serve"
    /\ page = "cogs" => \A k \in Range(DemoSubscriptions) \ missed :
         k[1] = of[1] /\ of[2] \in {k[2], All} => k[2] \in subs

LEMMA SubscribersRead ==
  ASSUME BillingInv, proc = "serve", NEW k \in Range(DemoSubscriptions) \ missed,
         k[1] = of[1], of[2] \in {k[2], All}
  PROVE  k[2] \in B!Subscribers
<1>1. k \in B!Rows
  BY BillingServes
<1>2. k = <<of[1], k[2]>>
  BY BillingAssumption, SeedRowsInRange
<1> QED
  BY <1>1, <1>2 DEF B!Subscribers, B!Tenant

LEMMA SeenHolds == B!Spec => [](SeenInv /\ B!SubscribersSeen)
<1>1. B!Init => SeenInv /\ B!SubscribersSeen
  BY DEF B!Init, SeenInv, B!SubscribersSeen, B!Reading
<1>2. B!TypeOK /\ BillingInv /\ SeenInv /\ B!SubscribersSeen /\ [B!Next]_(B!vars)
        => SeenInv' /\ B!SubscribersSeen'
  <2> SUFFICES ASSUME B!TypeOK, BillingInv, SeenInv, B!SubscribersSeen, [B!Next]_(B!vars)
               PROVE  SeenInv' /\ B!SubscribersSeen'
    OBVIOUS
  <2> USE DEF SeenInv, B!SubscribersSeen, B!Reading, B!Range, Range, B!Tenant
  <2>0. missed \subseteq missed'
    BY BillingKeeps
  <2>1. CASE /\ UNCHANGED <<by, of, subs, lines>> /\ (page' \in B!Reading => proc' = "serve")
             /\ page' = page \/ page' \notin {"cogs", "200", "404"}
    BY <2>0, <2>1
  <2>2. CASE UNCHANGED <<B!pageVars, B!viewVars, usage>> \/ \E a \in Accounts : B!Metered(a)
    <3>1. UNCHANGED <<by, of, subs, lines, page>>
      BY <2>2 DEF B!pageVars, B!Metered
    <3>2. by = "billing" /\ page \in B!Reading => proc' = "serve"
      <4> SUFFICES ASSUME by = "billing", page \in B!Reading PROVE proc' = "serve"
        OBVIOUS
      <4>1. proc = "serve"
        OBVIOUS
      <4>2. ~B!Boot
        BY <4>1 DEF B!Boot, B!Start, B!Connect, B!ConnectFails, B!Migrate,
                    B!MigrateFails, B!SeedRow, B!SeedFails, B!Seeding, B!Listen
      <4>3. B!Stopped => page' # page
        BY DEF B!Stopped
      <4> QED
        BY <2>2, <3>1, <4>1, <4>2, <4>3
        DEF B!Next, B!Main, B!Answers, B!ReadSubs, B!ReadCogs, B!ReadFails, B!Forecast,
            B!Invoice, B!Margin, B!Overview, B!Get, B!Ask, B!Metered,
            B!Outside, B!Outage, B!Recover, B!Operate, B!Delete,
            B!vars, B!bootVars, B!procVars
    <3> QED
      BY <2>0, <3>1, <3>2
  <2>3. CASE B!ReadSubs
    <3>1. /\ page = "subs" /\ subs' = B!Subscribers /\ UNCHANGED <<by, of, proc, missed>>
          /\ page' = IF B!Subscribers = {} /\ of[2] # All THEN "404" ELSE "cogs"
      BY <2>3 DEF B!ReadSubs, B!bootVars, B!procVars
    <3>2. by = "billing" => proc = "serve"
      BY <3>1
    <3>3. ASSUME by = "billing", NEW k \in Range(DemoSubscriptions) \ missed,
                 k[1] = of[1], of[2] \in {k[2], All}
          PROVE  k[2] \in B!Subscribers
      BY <3>2, <3>3, SubscribersRead
    <3> QED
      BY <3>1, <3>2, <3>3
  <2>4. CASE B!ReadCogs
    <3>1. /\ page = "cogs" /\ page' = "200" /\ DOMAIN lines' = subs
          /\ UNCHANGED <<by, of, missed>>
      BY <2>4 DEF B!ReadCogs, B!bootVars, B!procVars
    <3> QED
      BY <3>1
  <2>5. CASE B!Forecast \/ \E p \in B!Pages : B!Invoice(p) \/ B!Margin(p) \/ B!Overview(p)
    <3>1. PICK who \in {"billing", "analytics"}, p \in B!Pages : B!Ask(who, p)
      BY <2>5, Questions
    <3>2. /\ by' = who /\ page' \in {"subs", "no answer"} /\ UNCHANGED proc
          /\ who = "billing" /\ page' = "subs" => proc = "serve"
      BY <3>1, AskEffect DEF B!bootVars, B!procVars
    <3> QED
      BY <3>2
  <2>6. CASE B!ReadFails
    BY <2>1, <2>6 DEF B!ReadFails, B!Failure
  <2>7. CASE B!Stopped
    BY <2>1, <2>7 DEF B!Stopped
  <2> QED
    BY <2>2, <2>3, <2>4, <2>5, <2>6, <2>7, BillingCases
<1> QED
  BY <1>1, <1>2, BillingTypes, BillingInvHolds, PTL DEF B!Spec

----------------------------------------------------------------------------
(***************************************************************************)
(* The anomaly rule.  P[v] days have the spend v, of the spends in D.      *)
(*                                                                         *)
(* A tenth: let n days have the total t and the spread e, and let the      *)
(* first spend that stands out be a above the mean, both times n.  The     *)
(* squares of a * (n * v - t) + e sum up to n * e * (a * a + e).  Each of  *)
(* the m days that stand out has a square of at least (a * a + e)^2, so    *)
(* m * (a * a + e) <= n * e; and a * a >= 9 * e.                           *)
(***************************************************************************)
DayCount(P, D)  == SumFunctionOnSet(P, D)
SpendSum(P, D)  == SumFunctionOnSet([v \in D |-> v * P[v]], D)
SquareSum(P, D) == SumFunctionOnSet([v \in D |-> v * v * P[v]], D)
QuadSum(P, D, a, b) ==
  SumFunctionOnSet([v \in D |-> (a * v + b) * (a * v + b) * P[v]], D)

SpreadOf(P, D) == DayCount(P, D) * SquareSum(P, D) - SpendSum(P, D) * SpendSum(P, D)

\* The two quadratic identities below rest on.
LEMMA AboutTheMean ==
  \A n, t, q \in Int :
    n * n * q + 2 * n * (0 - t) * t + (0 - t) * (0 - t) * n = n * (n * q - t * t)
  BY SMT

LEMMA AboutTheEdge ==
  \A n, t, q, a : n \in Int /\ t \in Int /\ q \in Int /\ a \in Int =>
    LET e == n * q - t * t
    IN  (a * n) * (a * n) * q + 2 * (a * n) * (e - a * t) * t + (e - a * t) * (e - a * t) * n
          = n * (e * (a * a + e))
<1> SUFFICES ASSUME NEW n \in Int, NEW t \in Int, NEW q \in Int, NEW a \in Int
             PROVE  LET e == n * q - t * t
                    IN  (a * n) * (a * n) * q + 2 * (a * n) * (e - a * t) * t
                          + (e - a * t) * (e - a * t) * n = n * (e * (a * a + e))
  OBVIOUS
<1>1. PICK e \in Int : e = n * q - t * t
  BY ProductInt, SMT
<1>2. (a * n) * (a * n) * q + 2 * (a * n) * (e - a * t) * t + (e - a * t) * (e - a * t) * n
        = n * (a * a * (n * q - t * t) + e * e)
  BY SMT
<1>3. a * a * e + e * e = e * (a * a + e)
  BY SMT
<1> QED
  BY <1>1, <1>2, <1>3

LEMMA DaySums ==
  ASSUME NEW D \in SUBSET Nat, IsFiniteSet(D), NEW P \in [D -> Nat]
  PROVE  DayCount(P, D) \in Nat /\ SpendSum(P, D) \in Nat /\ SquareSum(P, D) \in Nat
<1>1. \A v \in D : v \in Nat /\ P[v] \in Nat
  OBVIOUS
<1>2. \A v \in D : v * P[v] \in Nat /\ v * v * P[v] \in Nat
  BY <1>1, ProductNat
<1> QED
  BY <1>1, <1>2, SumNat DEF DayCount, SpendSum, SquareSum

\* Sums of three functions, with the coefficients of a square.
IsSquare(D, k, a, b, f, g, h) ==
  SumFunctionOnSet(k, D) = (a * a) * SumFunctionOnSet(f, D)
    + (2 * a * b) * SumFunctionOnSet(g, D) + (b * b) * SumFunctionOnSet(h, D)

LEMMA SumOfSquares ==
  ASSUME NEW D, IsFiniteSet(D), NEW f \in [D -> Int], NEW g \in [D -> Int],
         NEW h \in [D -> Int], NEW k \in [D -> Int], NEW a \in Int, NEW b \in Int,
         \A v \in D : k[v] = (a * a) * f[v] + (2 * a * b) * g[v] + (b * b) * h[v]
  PROVE  IsSquare(D, k, a, b, f, g, h)
<1>1. PICK aa \in Int, ab \in Int, bb \in Int : aa = a * a /\ ab = 2 * a * b /\ bb = b * b
  BY SMT
<1>2. \A v \in D : k[v] = aa * f[v] + ab * g[v] + bb * h[v]
  BY <1>1
<1>3. SumFunctionOnSet(k, D) = aa * SumFunctionOnSet(f, D) + ab * SumFunctionOnSet(g, D)
                                 + bb * SumFunctionOnSet(h, D)
  BY <1>2, SumLinear
<1> QED
  BY <1>1, <1>3 DEF IsSquare

\* Sums of the square of a linear function of the spend.
LEMMA QuadraticSum ==
  ASSUME NEW D \in SUBSET Nat, IsFiniteSet(D), NEW P \in [D -> Nat], NEW a \in Int, NEW b \in Int
  PROVE  /\ QuadSum(P, D, a, b) \in Nat
         /\ QuadSum(P, D, a, b) = a * a * SquareSum(P, D) + 2 * a * b * SpendSum(P, D)
                                    + b * b * DayCount(P, D)
<1>1. \A v \in D : v \in Nat /\ P[v] \in Nat
  OBVIOUS
<1>2. \A n \in Nat : n \in Int
  BY SMT
<1>3. \A x \in Int : a * x + b \in Int
  BY ProductInt, SMT
<1>4. \A v \in D : v * P[v] \in Nat /\ v * v * P[v] \in Nat
                          /\ (a * v + b) * (a * v + b) * P[v] \in Nat
  BY <1>1, <1>2, <1>3, ProductNat, SquareNat
<1>5. D \in SUBSET D
  OBVIOUS
<1>6. PICK f \in [D -> Int] : f = [v \in D |-> v * v * P[v]]
  BY <1>2, <1>4, <1>5
<1>7. PICK g \in [D -> Int] : g = [v \in D |-> v * P[v]]
  BY <1>2, <1>4, <1>5
<1>8. PICK h \in [D -> Int] : h = P
  BY <1>1, <1>2, <1>5
<1>9. PICK k \in [D -> Int] : k = [v \in D |-> (a * v + b) * (a * v + b) * P[v]]
  BY <1>2, <1>4, <1>5
<1>11. \A v \in D : k[v] = (a * a) * f[v] + (2 * a * b) * g[v] + (b * b) * h[v]
  <2>1. \A v, p \in Int : (a * v + b) * (a * v + b) * p
                           = (a * a) * (v * v * p) + (2 * a * b) * (v * p) + (b * b) * p
    BY SMT
  <2> QED
    BY <1>1, <1>2, <1>6, <1>7, <1>8, <1>9, <2>1
<1>12. IsSquare(D, k, a, b, f, g, h)
  BY <1>11, SumOfSquares
<1>13. QuadSum(P, D, a, b) \in Nat
  BY <1>1, <1>4, SumNat DEF QuadSum
<1> QED
  BY <1>6, <1>7, <1>8, <1>9, <1>12, <1>13
     DEF QuadSum, SquareSum, SpendSum, DayCount, IsSquare

\* The deviation is never the root of a negative number.
LEMMA SpreadSign ==
  ASSUME NEW D \in SUBSET Nat, IsFiniteSet(D), NEW P \in [D -> Nat], DayCount(P, D) > 0
  PROVE  SpreadOf(P, D) \in Nat
<1> DEFINE n == DayCount(P, D)
           t == SpendSum(P, D)
           q == SquareSum(P, D)
<1>1. n \in Nat \ {0} /\ t \in Nat /\ q \in Nat
  BY DaySums, SMT
<1>2. QuadSum(P, D, n, 0 - t) \in Nat
      /\ QuadSum(P, D, n, 0 - t) = n * n * q + 2 * n * (0 - t) * t + (0 - t) * (0 - t) * n
  <2>1. n \in Int /\ 0 - t \in Int
    BY <1>1, SMT
  <2> QED
    BY <2>1, QuadraticSum
<1>3. SpreadOf(P, D) = n * q - t * t
  BY DEF SpreadOf
<1> HIDE DEF n, t, q
<1>4. n * (n * q - t * t) \in Nat
  <2>1. n \in Int /\ t \in Int /\ q \in Int
    BY <1>1
  <2> QED
    BY <1>2, <2>1, AboutTheMean
<1>5. n * q - t * t \in Int /\ 0 \in Int
  BY <1>1, SMT
<1>6. n * 0 <= n * (n * q - t * t)
  BY <1>1, <1>4, SMT
<1>7. 0 <= n * q - t * t
  BY <1>1, <1>5, <1>6, FactorCancels
<1> QED
  BY <1>3, <1>5, <1>7, SMT

\* Where the linear function is at least c, its square counts for c * c.
LEMMA TailBound ==
  ASSUME NEW D \in SUBSET Nat, IsFiniteSet(D), NEW P \in [D -> Nat], NEW F \in SUBSET D,
         NEW a \in Int, NEW b \in Int, NEW c \in Nat, \A v \in F : a * v + b >= c
  PROVE  (c * c) * SumFunctionOnSet(P, F) <= QuadSum(P, D, a, b)
<1>1. \A v \in D : v \in Nat /\ v \in Int /\ P[v] \in Nat /\ P[v] \in Int
  BY SMT
<1>2. \A v \in D : a * v + b \in Int
  BY <1>1, ProductInt, SMT
<1>3. \A v \in D : (a * v + b) * (a * v + b) * P[v] \in Nat
  BY <1>1, <1>2, ProductNat, SquareNat
<1>4. PICK k \in Nat : k = c * c
  BY ProductNat
<1>5. PICK f \in [D -> Nat] : f = [v \in D |-> (a * v + b) * (a * v + b) * P[v]]
  BY <1>3
<1>6. PICK g \in [D -> Int] : g = [v \in D |-> k * P[v]]
  <2>1. \A v \in D : k * P[v] \in Int
    BY <1>1, ProductInt, SMT
  <2> QED
    BY <2>1
<1>7. IsFiniteSet(F)
  BY FS_Subset
<1>8. \A v \in F : g[v] <= f[v]
  <2>1. \A x \in Int : x >= c => x * x >= c * c
    BY SMT
  <2>2. ASSUME NEW v \in F PROVE g[v] <= f[v]
    <3>1. PICK y \in Int : y = (a * v + b) * (a * v + b)
      BY <1>2, ProductInt
    <3>2. y >= c * c
      BY <1>2, <2>1, <3>1
    <3>3. P[v] * y >= P[v] * (c * c) /\ P[v] \in Int
      BY <1>1, <1>4, <3>2, ProductGrows, SMT
    <3>4. y * P[v] >= (c * c) * P[v]
      BY <1>4, <3>3, SMT
    <3>5. g[v] = (c * c) * P[v] /\ f[v] = (a * v + b) * (a * v + b) * P[v]
      BY <1>4, <1>5, <1>6
    <3> QED
      BY <3>1, <3>4, <3>5
  <2> QED
    BY <2>2
<1>9. SumFunctionOnSet(g, F) <= SumFunctionOnSet(f, F)
  <2>1. F \in SUBSET (D \cap D) /\ f \in [D -> Int]
    BY SMT
  <2> QED
    BY <1>7, <1>8, <2>1, SumMonotone
<1>10. SumFunctionOnSet(f, F) <= SumFunctionOnSet(f, D)
  BY SumSubset
<1>11. SumFunctionOnSet(g, F) = k * SumFunctionOnSet(P, F)
  <2>1. P \in [D -> Int] /\ k \in Int
    BY SMT
  <2>2. \A v \in F : g[v] = k * P[v]
    BY <1>6
  <2>3. IsMultiple(F, g, k, P)
    BY <1>7, <2>1, <2>2, SumIsMultiple
  <2> QED
    BY <2>3 DEF IsMultiple
<1>12. SumFunctionOnSet(f, F) \in Nat /\ SumFunctionOnSet(f, D) \in Nat
       /\ SumFunctionOnSet(g, F) \in Int
  BY <1>7, SumNat, SumType
<1>13. QuadSum(P, D, a, b) = SumFunctionOnSet(f, D)
  BY <1>5 DEF QuadSum
<1> QED
  BY <1>4, <1>9, <1>10, <1>11, <1>12, <1>13, SMT

\* From the bound on the tail to the tenth: n days, m of them in the tail, the
\* first of which is a above the mean and e the spread.
LEMMA TenthOfAll ==
  ASSUME NEW n \in Nat, NEW m \in Nat, NEW a \in Nat, NEW e \in Nat \ {0},
         a * a >= 9 * e,
         ((a * a + e) * (a * a + e)) * m <= n * (e * (a * a + e))
  PROVE  10 * m <= n
<1>1. PICK b \in Nat \ {0} : b = a * a + e
  BY ProductNat, SMT
<1>2. b >= 10 * e
  <2>1. a * a \in Nat
    BY ProductNat
  <2> QED
    BY <1>1, <2>1, SMT
<1>3. b * (b * m) <= b * (n * e)
  <2>1. (b * b) * m <= n * (e * b)
    BY <1>1
  <2>2. (b * b) * m = b * (b * m) /\ n * (e * b) = b * (n * e)
    BY SMT
  <2> QED
    BY <2>1, <2>2
<1>4. b * m <= n * e
  <2>1. b * m \in Int /\ n * e \in Int
    BY SMT
  <2> QED
    BY <1>3, <2>1, FactorCancels
<1>5. m * b >= m * (10 * e)
  <2>1. b \in Int /\ 10 * e \in Int
    BY SMT
  <2> QED
    BY <1>2, <2>1, ProductGrows
<1>6. e * (10 * m) <= e * n
  <2>1. e * (10 * m) = m * (10 * e) /\ e * n = n * e /\ m * b = b * m
    BY SMT
  <2>2. e * (10 * m) \in Int /\ e * n \in Int /\ m * b \in Int
    BY SMT
  <2> QED
    BY <1>4, <1>5, <2>1, <2>2, SMT
<1> QED
  <2>1. 10 * m \in Int /\ n \in Int
    BY SMT
  <2> QED
    BY <1>6, <2>1, FactorCancels

ExcessOf(P, D, v) == DayCount(P, D) * v - SpendSum(P, D)

\* What stands out is at most a tenth of the days.
LEMMA OneTenth ==
  ASSUME NEW D \in SUBSET Nat, IsFiniteSet(D), NEW P \in [D -> Nat], NEW F \in SUBSET D,
         SpreadOf(P, D) \in Nat \ {0},
         \A v \in F : /\ ExcessOf(P, D, v) > 0
                      /\ ExcessOf(P, D, v) * ExcessOf(P, D, v) >= 9 * SpreadOf(P, D)
  PROVE  10 * SumFunctionOnSet(P, F) <= DayCount(P, D)
<1> DEFINE n == DayCount(P, D)
           t == SpendSum(P, D)
           q == SquareSum(P, D)
           e == SpreadOf(P, D)
           m == SumFunctionOnSet(P, F)
<1>1. n \in Nat /\ t \in Nat /\ q \in Nat /\ e \in Nat \ {0} /\ e = n * q - t * t
  BY DaySums DEF SpreadOf
<1>2. m \in Nat
  BY FS_Subset, SumNat
<1>3. CASE F = {}
  <2>1. m = 0
    BY <1>3, SumEmpty
  <2> QED
    BY <1>1, <2>1, SMT
<1>4. CASE F # {}
  <2>1. PICK w \in F : \A v \in F : w <= v
    <3>1. F \in SUBSET Nat
      OBVIOUS
    <3> QED
      BY <1>4, <3>1, LeastNumber
  <2>2. PICK a \in Nat : a = n * w - t /\ a * a >= 9 * e
    <3>1. w \in Nat
      OBVIOUS
    <3>2. n * w - t \in Int
      BY <1>1, <3>1, SMT
    <3>3. n * w - t > 0 /\ (n * w - t) * (n * w - t) >= 9 * e
      BY <2>1 DEF ExcessOf
    <3> QED
      BY <3>2, <3>3
  <2> HIDE DEF n, t, q, e, m
  <2>3. PICK b \in Nat : b = a * a + e
    BY <1>1, ProductNat, SMT
  <2>4. ASSUME NEW v \in F PROVE (a * n) * v + (e - a * t) >= b
    <3>1. v \in Nat /\ w \in Nat /\ v >= w
      BY <2>1, SMT
    <3>2. n * v >= n * w /\ n * v \in Int /\ n * w \in Int
      BY <1>1, <3>1, ProductGrows, SMT
    <3>3. n * v - t >= a /\ n * v - t \in Int
      BY <1>1, <2>2, <3>2, SMT
    <3>4. a * (n * v - t) >= a * a
      BY <3>3, ProductGrows, SMT
    <3>5. a * (n * v - t) = (a * n) * v - a * t
      BY <1>1, <3>1, SMT
    <3>6. (a * n) * v \in Int /\ a * t \in Int /\ a * a \in Int
      BY <1>1, <3>1, SMT
    <3> QED
      BY <1>1, <2>3, <3>4, <3>5, <3>6, SMT
  <2>5. PICK c \in Int, d \in Int : c = a * n /\ d = e - a * t
    BY <1>1, ProductInt, SMT
  <2>6. (b * b) * m <= QuadSum(P, D, c, d)
    <3>1. \A v \in F : c * v + d >= b
      BY <2>4, <2>5
    <3> QED
      BY <3>1, TailBound DEF m
  <2>7. QuadSum(P, D, c, d) = c * c * q + 2 * c * d * t + d * d * n
    BY QuadraticSum DEF n, t, q
  <2>8. c * c * q + 2 * c * d * t + d * d * n = n * (e * (a * a + e))
    <3>1. n \in Int /\ t \in Int /\ q \in Int /\ a \in Int
      BY <1>1
    <3> QED
      BY <1>1, <2>5, <3>1, AboutTheEdge
  <2>9. ((a * a + e) * (a * a + e)) * m <= n * (e * (a * a + e))
    BY <2>3, <2>6, <2>7, <2>8
  <2>10. 10 * m <= n
    BY <1>1, <1>2, <2>2, <2>9, TenthOfAll
  <2> QED
    BY <2>10 DEF m, n
<1> QED
  BY <1>3, <1>4

----------------------------------------------------------------------------
(***************************************************************************)
(* One day above all the others, which are equal.                          *)
(***************************************************************************)
LEMMA PeakArithmetic ==
  \A k, v, w \in Int :
    /\ (k + 1) * (v * v * k + w * w) - (v * k + w) * (v * k + w) = k * ((w - v) * (w - v))
    /\ (k + 1) * w - (v * k + w) = k * (w - v)
  BY SMT

LEMMA PeakIsHigh ==
  ASSUME NEW k \in Nat, NEW d \in Nat, k > 9, d > 0
  PROVE  /\ k * d > 0 /\ k * (d * d) > 0 /\ k * (d * d) \in Nat
         /\ (k * d) * (k * d) > 9 * (k * (d * d))
<1>1. PICK p \in Nat : p = k * (d * d)
  BY ProductNat
<1>2. p > 0 /\ k * d > 0
  <2>1. d * d > 0
    BY SMT
  <2> QED
    BY <1>1, <2>1, SMT
<1>3. (k * d) * (k * d) = k * p
  BY <1>1, SMT
<1>4. p * k >= p * 10
  <2>1. k \in Int /\ 10 \in Int /\ k >= 10
    BY SMT
  <2> QED
    BY <2>1, ProductGrows
<1>5. k * p > 9 * p
  <2>1. k * p = p * k /\ p * k \in Int
    BY SMT
  <2> QED
    BY <1>2, <1>4, <2>1, SMT
<1> QED
  BY <1>1, <1>2, <1>3, <1>5

LEMMA OnePeak ==
  ASSUME NEW D \in SUBSET Nat, IsFiniteSet(D), NEW P \in [D -> Nat],
         NEW v \in D, NEW w \in D, v < w, DayCount(P, D) > 10,
         P[w] = 1, P[v] = DayCount(P, D) - 1
  PROVE  /\ SpreadOf(P, D) \in Nat \ {0}
         /\ ExcessOf(P, D, w) > 0
         /\ ExcessOf(P, D, w) * ExcessOf(P, D, w) > 9 * SpreadOf(P, D)
<1>1. \A x \in D : x \in Nat /\ P[x] \in Nat
  OBVIOUS
<1>2. v \in Nat /\ w \in Nat /\ v # w /\ v \in Int /\ w \in Int
  BY SMT
<1>3. PICK k \in Nat : k = P[v] /\ k > 9 /\ DayCount(P, D) = k + 1
  <2>1. DayCount(P, D) \in Nat
    BY DaySums
  <2> QED
    BY <1>1, <2>1, SMT
<1>4. \A x \in D \ {v, w} : P[x] = 0
  <2>1. P \in [D -> Int]
    BY SMT
  <2>2. SplitsAt(D, P, v, w)
    BY <1>2, <2>1, SumSplits
  <2>3. PICK U \in SUBSET D : U = D \ {v, w}
    OBVIOUS
  <2>4. IsFiniteSet(U) /\ SumFunctionOnSet(P, U) \in Nat
    BY FS_Subset, SumNat
  <2>5. SumFunctionOnSet(P, U) = 0
    BY <1>3, <2>2, <2>3, <2>4, SMT DEF SplitsAt, DayCount
  <2>6. \A x \in U : P[x] <= 0
    BY <2>4, <2>5, SumCovers
  <2> QED
    BY <1>1, <2>3, <2>6, SMT
<1>5. SpendSum(P, D) = v * k + w
  <2>1. \A x \in D : x * P[x] \in Int
    BY <1>1, SMT
  <2>2. PICK f \in [D -> Int] : f = [x \in D |-> x * P[x]]
    BY <2>1
  <2>3. f[v] = v * k /\ f[w] = w
    BY <1>2, <1>3, <2>2, SMT
  <2>4. \A x \in D \ {v, w} : f[x] = 0
    BY <1>1, <1>4, <2>2, SMT
  <2>5. IsOfTwo(D, f, v, w)
    BY <1>2, <2>4, TwoValues
  <2> QED
    BY <2>2, <2>3, <2>5 DEF SpendSum, IsOfTwo
<1>6. SquareSum(P, D) = v * v * k + w * w
  <2>1. \A x \in D : x * x * P[x] \in Int
    BY <1>1, SMT
  <2>2. PICK f \in [D -> Int] : f = [x \in D |-> x * x * P[x]]
    BY <2>1
  <2>3. f[v] = v * v * k /\ f[w] = w * w
    BY <1>2, <1>3, <2>2, SMT
  <2>4. \A x \in D \ {v, w} : f[x] = 0
    BY <1>1, <1>4, <2>2, SMT
  <2>5. IsOfTwo(D, f, v, w)
    BY <1>2, <2>4, TwoValues
  <2> QED
    BY <2>2, <2>3, <2>5 DEF SquareSum, IsOfTwo
<1>7. PICK d \in Nat : d = w - v /\ d > 0
  BY <1>2, SMT
<1>8. SpreadOf(P, D) = k * (d * d)
  <2>1. (k + 1) * (v * v * k + w * w) - (v * k + w) * (v * k + w) = k * ((w - v) * (w - v))
    <3>1. k \in Int
      BY SMT
    <3> QED
      BY <1>2, <3>1, PeakArithmetic
  <2> QED
    BY <1>3, <1>5, <1>6, <1>7, <2>1 DEF SpreadOf
<1>9. ExcessOf(P, D, w) = k * d
  <2>1. (k + 1) * w - (v * k + w) = k * (w - v)
    <3>1. k \in Int
      BY SMT
    <3> QED
      BY <1>2, <3>1, PeakArithmetic
  <2> QED
    BY <1>3, <1>5, <1>7, <2>1 DEF ExcessOf
<1>10. /\ k * d > 0 /\ k * (d * d) > 0 /\ k * (d * d) \in Nat
       /\ (k * d) * (k * d) > 9 * (k * (d * d))
  BY <1>3, <1>7, PeakIsHigh
<1>11. \A x \in Nat : x > 0 => x \in Nat \ {0}
  BY SMT
<1> QED
  BY <1>8, <1>9, <1>10, <1>11

----------------------------------------------------------------------------
(***************************************************************************)
(* The days of the module, as days of those sums.                          *)
(***************************************************************************)
PointsOf(d, t) == [v \in A!Spends |-> d[v] + (IF v = t THEN 1 ELSE 0)]

CountOf(d, t) == DayCount(d, A!Spends) + (IF t = A!NoRows THEN 0 ELSE 1)

\* Types and the bound on the days.
DaysOK(d, t) ==
  d \in [A!Spends -> Nat] /\ t \in A!Spends \cup {A!NoRows} /\ CountOf(d, t) <= MaxDays

LEMMA SameSums == ASSUME NEW f, NEW S PROVE A!SumFunctionOnSet(f, S) = SumFunctionOnSet(f, S)
  BY DEF A!SumFunctionOnSet, A!FoldFunctionOnSet, A!MapThenFoldSet,
         SumFunctionOnSet, FoldFunctionOnSet, MapThenFoldSet

LEMMA SpendsAre ==
  /\ A!Spends \in SUBSET Nat /\ IsFiniteSet(A!Spends) /\ A!NoRows \notin A!Spends
  /\ A!Spends = 0 .. MaxSpend /\ MaxSpend \in Nat /\ MaxDays \in Nat /\ Costs \subseteq Nat
<1>1. MaxSpend \in Nat /\ MaxDays \in Nat /\ Costs \subseteq Nat
  BY DaysAssumption
<1>2. 0 \in Int /\ MaxSpend \in Int
  BY <1>1, SMT
<1>3. IsFiniteSet(0 .. MaxSpend)
  BY <1>2, FS_Interval
<1>4. 0 .. MaxSpend \in SUBSET Nat /\ -1 \notin 0 .. MaxSpend
  BY <1>1, SMT
<1> QED
  BY <1>1, <1>3, <1>4 DEF A!Spends, A!NoRows

\* Today is one day more.
LEMMA TodayCounts ==
  \A d \in [A!Spends -> Nat] : \A t \in A!Spends \cup {A!NoRows} :
    PointsOf(d, t) \in [A!Spends -> Nat] /\ DayCount(PointsOf(d, t), A!Spends) = CountOf(d, t)
<1> SUFFICES ASSUME NEW d \in [A!Spends -> Nat], NEW t \in A!Spends \cup {A!NoRows}
             PROVE  /\ PointsOf(d, t) \in [A!Spends -> Nat]
                    /\ DayCount(PointsOf(d, t), A!Spends) = CountOf(d, t)
  OBVIOUS
<1>1. PICK D \in SUBSET Nat : D = A!Spends /\ IsFiniteSet(D) /\ A!NoRows \notin D
  BY SpendsAre
<1>2. \A v \in D : d[v] \in Nat /\ d[v] + (IF v = t THEN 1 ELSE 0) \in Nat
  BY <1>1, SMT
<1>3. PICK p \in [D -> Nat] : p = PointsOf(d, t)
  BY <1>1, <1>2 DEF PointsOf
<1>4. \A v \in D : p[v] = d[v] + (IF v = t THEN 1 ELSE 0)
  BY <1>1, <1>3 DEF PointsOf
<1>5. p \in [D -> Int] /\ d \in [D -> Int] /\ D \in SUBSET D
  BY <1>1, <1>2, SMT
<1>6. CASE t \in D
  <2>1. p[t] = d[t] + 1 /\ \A x \in D \ {t} : p[x] = d[x]
    BY <1>2, <1>4, <1>6, SMT
  <2>2. 1 \in Int
    OBVIOUS
  <2>3. GrowsBy(D, d, p, 1)
    BY <1>1, <1>5, <1>6, <2>1, <2>2, SumGrowsBy
  <2> QED
    BY <1>1, <1>3, <1>6, <2>3 DEF DayCount, CountOf, GrowsBy
<1>7. CASE t = A!NoRows
  <2>1. \A x \in D : p[x] = d[x]
    BY <1>1, <1>2, <1>4, <1>7, SMT
  <2>2. GrowsBy(D, d, p, 0)
    BY <1>1, <1>5, <2>1, SumUnchanged
  <2> QED
    BY <1>1, <1>3, <1>7, <2>2 DEF DayCount, CountOf, GrowsBy
<1> QED
  BY <1>1, <1>6, <1>7

\* A row that was stored late moves a day, or brings one.
Moves(d, l, u, w) ==
  l = [x \in A!Spends |-> d[x] - (IF x = u THEN 1 ELSE 0) + (IF x = w THEN 1 ELSE 0)]

LEMMA LateRowMoves ==
  ASSUME NEW d \in [A!Spends -> Nat], NEW l, NEW u \in A!Spends, NEW w \in A!Spends,
         d[u] > 0, Moves(d, l, u, w)
  PROVE  l \in [A!Spends -> Nat] /\ DayCount(l, A!Spends) = DayCount(d, A!Spends)
<1>0. l = [x \in A!Spends |-> d[x] - (IF x = u THEN 1 ELSE 0) + (IF x = w THEN 1 ELSE 0)]
  BY DEF Moves
<1>1. PICK D \in SUBSET Nat : D = A!Spends /\ IsFiniteSet(D)
  BY SpendsAre
<1>2. \A x \in D : d[x] \in Nat
  BY <1>1
<1>3. \A x \in D : /\ d[x] - (IF x = u THEN 1 ELSE 0) \in Nat
                   /\ d[x] - (IF x = u THEN 1 ELSE 0) + (IF x = w THEN 1 ELSE 0) \in Nat
  BY <1>2, SMT
<1>4. PICK e \in [D -> Nat] : e = [x \in D |-> d[x] - (IF x = u THEN 1 ELSE 0)]
  BY <1>3
<1>5. l \in [D -> Nat] /\ \A x \in D : l[x] = e[x] + (IF x = w THEN 1 ELSE 0)
  BY <1>0, <1>1, <1>3, <1>4
<1>6. d \in [D -> Int] /\ e \in [D -> Int] /\ l \in [D -> Int] /\ 1 \in Int /\ -1 \in Int
  BY <1>1, <1>5, SMT
<1>7. GrowsBy(D, d, e, -1)
  <2>1. e[u] = d[u] + (-1) /\ \A x \in D \ {u} : e[x] = d[x]
    BY <1>1, <1>2, <1>4, SMT
  <2> QED
    BY <1>1, <1>6, <2>1, SumGrowsBy
<1>8. GrowsBy(D, e, l, 1)
  <2>1. l[w] = e[w] + 1 /\ \A x \in D \ {w} : l[x] = e[x]
    BY <1>1, <1>4, <1>5, SMT
  <2> QED
    BY <1>1, <1>6, <2>1, SumGrowsBy
<1>9. SumFunctionOnSet(d, D) \in Int
  <2>1. D \in SUBSET D
    OBVIOUS
  <2> QED
    BY <1>1, <1>6, <2>1, SumType
<1> QED
  BY <1>1, <1>5, <1>7, <1>8, <1>9, SMT DEF GrowsBy, DayCount

LEMMA FirstRowCounts ==
  \A d \in [A!Spends -> Nat] : \A c \in A!Spends :
    LET l == [d EXCEPT ![c] = @ + 1]
    IN  l \in [A!Spends -> Nat] /\ DayCount(l, A!Spends) = DayCount(d, A!Spends) + 1
<1> SUFFICES ASSUME NEW d \in [A!Spends -> Nat], NEW c \in A!Spends, NEW l,
                    l = [d EXCEPT ![c] = @ + 1]
             PROVE  /\ l \in [A!Spends -> Nat]
                    /\ DayCount(l, A!Spends) = DayCount(d, A!Spends) + 1
  OBVIOUS
<1>1. PICK D \in SUBSET Nat : D = A!Spends /\ IsFiniteSet(D)
  BY SpendsAre
<1>2. d[c] + 1 \in Nat
  OBVIOUS
<1>3. l \in [D -> Nat] /\ l[c] = d[c] + 1 /\ \A x \in D \ {c} : l[x] = d[x]
  BY <1>1, <1>2
<1>4. d \in [D -> Int] /\ l \in [D -> Int] /\ 1 \in Int
  BY <1>1, <1>3, SMT
<1>5. GrowsBy(D, d, l, 1)
  BY <1>1, <1>3, <1>4, SumGrowsBy
<1> QED
  BY <1>1, <1>3, <1>5 DEF GrowsBy, DayCount

LEMMA DaysType ==
  ASSUME DaysOK(days, today)
  PROVE  /\ days \in [A!Spends -> Nat] /\ today \in A!Spends \cup {A!NoRows}
         /\ CountOf(days, today) <= MaxDays /\ CountOf(days, today) \in Nat
         /\ DayCount(days, A!Spends) \in Nat
<1>1. days \in [A!Spends -> Nat] /\ today \in A!Spends \cup {A!NoRows}
      /\ CountOf(days, today) <= MaxDays
  BY DEF DaysOK
<1>2. DayCount(days, A!Spends) \in Nat
  BY <1>1, SpendsAre, DaySums
<1>3. CountOf(days, today) \in Nat
  BY <1>2, SMT DEF CountOf
<1> QED
  BY <1>1, <1>2, <1>3

LEMMA NumbersAre ==
  ASSUME DaysOK(days, today)
  PROVE  /\ A!Points = PointsOf(days, today) /\ A!Points \in [A!Spends -> Nat]
         /\ A!Number = CountOf(days, today) /\ A!Number = DayCount(A!Points, A!Spends)
         /\ A!Total = SpendSum(A!Points, A!Spends)
         /\ A!Squares = SquareSum(A!Points, A!Spends)
<1>1. A!Points = PointsOf(days, today)
  BY DEF A!Points, PointsOf
<1>2. PointsOf(days, today) \in [A!Spends -> Nat]
      /\ DayCount(PointsOf(days, today), A!Spends) = CountOf(days, today)
  BY DaysType, TodayCounts
<1>3. A!Number = DayCount(A!Points, A!Spends)
  BY SameSums DEF A!Number, DayCount
<1>4. A!Total = SpendSum(A!Points, A!Spends)
  BY SameSums DEF A!Total, SpendSum
<1>5. A!Squares = SquareSum(A!Points, A!Spends)
  BY SameSums DEF A!Squares, SquareSum
<1> QED
  BY <1>1, <1>2, <1>3, <1>4, <1>5

LEMMA DaysBegin == A!Init => DaysOK(days, today)
<1> SUFFICES ASSUME A!Init PROVE DaysOK(days, today)
  OBVIOUS
<1>1. PICK D \in SUBSET Nat : D = A!Spends /\ IsFiniteSet(D) /\ D \in SUBSET D
  BY SpendsAre
<1>2. PICK z \in [D -> Int] : z = [v \in D |-> 0]
  <2>1. [v \in D |-> 0] \in [D -> Int]
    BY SMT
  <2> QED
    BY <2>1
<1>3. SumFunctionOnSet(z, D) = 0
  BY <1>1, <1>2, SumZero
<1>4. days = z /\ today = A!NoRows /\ z \in [D -> Nat]
  BY <1>1, <1>2 DEF A!Init
<1>5. CountOf(days, today) = 0
  BY <1>1, <1>3, <1>4, SMT DEF CountOf, DayCount
<1>6. 0 <= MaxDays
  BY SpendsAre, SMT
<1> QED
  BY <1>1, <1>4, <1>5, <1>6 DEF DaysOK

LEMMA DaysStep ==
  ASSUME DaysOK(days, today), [A!Next]_(A!vars)
  PROVE  DaysOK(days', today')
<1>1. /\ days \in [A!Spends -> Nat] /\ today \in A!Spends \cup {A!NoRows}
      /\ CountOf(days, today) <= MaxDays /\ CountOf(days, today) \in Nat
      /\ DayCount(days, A!Spends) \in Nat
  BY DaysType
<1>2. A!Number = CountOf(days, today) /\ A!Points = PointsOf(days, today)
  BY NumbersAre
<1>3. MaxSpend \in Nat /\ MaxDays \in Nat /\ A!NoRows \notin A!Spends /\ Costs \subseteq Nat
      /\ A!Spends = 0 .. MaxSpend
  BY SpendsAre
<1>4. CASE A!Midnight
  <2>1. days' = PointsOf(days, today) /\ today' = A!NoRows
    BY <1>2, <1>4 DEF A!Midnight
  <2>2. PointsOf(days, today) \in [A!Spends -> Nat]
        /\ DayCount(PointsOf(days, today), A!Spends) = CountOf(days, today)
    BY <1>1, TodayCounts
  <2>3. CountOf(days', today') = CountOf(days, today)
    BY <1>1, <2>1, <2>2, SMT DEF CountOf
  <2> QED
    BY <1>1, <2>1, <2>2, <2>3 DEF DaysOK
<1>5. ASSUME NEW c \in Costs, A!Row(c)
      PROVE  DaysOK(days', today')
  <2>1. days' = days /\ today' = (IF today = A!NoRows THEN 0 ELSE today) + c
        /\ today' <= MaxSpend /\ CountOf(days, today) < MaxDays
    BY <1>2, <1>5 DEF A!Row
  <2>2. today' \in A!Spends
    <3>1. c \in Nat
      BY <1>3
    <3>2. (IF today = A!NoRows THEN 0 ELSE today) \in Nat
      BY <1>1, <1>3, SMT
    <3>3. today' \in Nat
      BY <2>1, <3>1, <3>2, SMT
    <3> QED
      BY <1>3, <2>1, <3>3, SMT
  <2>3. CountOf(days', today') <= CountOf(days, today) + 1
    BY <1>1, <1>3, <2>1, <2>2, SMT DEF CountOf
  <2>4. CountOf(days', today') <= MaxDays
    <3>1. CountOf(days', today') \in Int
      BY <1>1, <2>1, SMT DEF CountOf
    <3> QED
      BY <1>1, <1>3, <2>1, <2>3, <3>1, SMT
  <2> QED
    BY <1>1, <2>1, <2>2, <2>4 DEF DaysOK
<1>6. ASSUME NEW c \in Costs, A!FirstLateRow(c)
      PROVE  DaysOK(days', today')
  <2>1. days' = [days EXCEPT ![c] = @ + 1] /\ today' = today
        /\ c <= MaxSpend /\ CountOf(days, today) < MaxDays
    BY <1>2, <1>6 DEF A!FirstLateRow
  <2>2. c \in A!Spends
    <3>1. c \in Nat
      BY <1>3
    <3> QED
      BY <1>3, <2>1, <3>1, SMT
  <2>3. days' \in [A!Spends -> Nat]
        /\ DayCount(days', A!Spends) = DayCount(days, A!Spends) + 1
    BY <1>1, <2>1, <2>2, FirstRowCounts
  <2>4. CountOf(days', today') <= MaxDays
    BY <1>1, <1>3, <2>1, <2>3, SMT DEF CountOf
  <2> QED
    BY <1>1, <2>1, <2>3, <2>4 DEF DaysOK
<1>7. ASSUME NEW c \in Costs, NEW v \in A!Spends, A!LateRow(v, c)
      PROVE  DaysOK(days', today')
  <2>1. /\ days' = [u \in A!Spends |->
                      days[u] - (IF u = v THEN 1 ELSE 0) + (IF u = v + c THEN 1 ELSE 0)]
        /\ today' = today /\ days[v] > 0 /\ v + c <= MaxSpend
    BY <1>7 DEF A!LateRow
  <2>2. PICK w \in A!Spends : w = v + c
    <3>1. c \in Nat /\ v \in Nat
      BY <1>3, SMT
    <3>2. v + c \in A!Spends
      BY <1>3, <2>1, <3>1, SMT
    <3> QED
      BY <3>2
  <2>3. PICK d \in [A!Spends -> Nat] : d = days /\ d[v] > 0
    BY <1>1, <2>1
  <2>4. PICK l : l = [u \in A!Spends |->
                        d[u] - (IF u = v THEN 1 ELSE 0) + (IF u = w THEN 1 ELSE 0)]
    OBVIOUS
  <2>5. Moves(d, l, v, w)
    BY <2>4 DEF Moves
  <2>6. l \in [A!Spends -> Nat] /\ DayCount(l, A!Spends) = DayCount(d, A!Spends)
    BY <2>3, <2>5, LateRowMoves
  <2>7. days' = l
    BY <2>1, <2>2, <2>3, <2>4
  <2> QED
    BY <1>1, <2>1, <2>3, <2>6, <2>7 DEF DaysOK, CountOf
<1>8. CASE UNCHANGED A!vars
  BY <1>8 DEF A!vars, DaysOK
<1> QED
  BY <1>4, <1>5, <1>6, <1>7, <1>8 DEF A!Next

LEMMA DaysTyped == DaysOK(days, today) => A!TypeOK
<1> SUFFICES ASSUME DaysOK(days, today) PROVE A!TypeOK
  OBVIOUS
<1>1. /\ days \in [A!Spends -> Nat] /\ today \in A!Spends \cup {A!NoRows}
      /\ CountOf(days, today) <= MaxDays /\ CountOf(days, today) \in Nat
      /\ DayCount(days, A!Spends) \in Nat
  BY DaysType
<1>2. DayCount(days, A!Spends) <= MaxDays
  BY <1>1, SpendsAre, SMT DEF CountOf
<1>3. \A v \in A!Spends : days[v] <= DayCount(days, A!Spends) /\ days[v] \in Nat
  <2>1. PICK D : D = A!Spends /\ IsFiniteSet(D)
    BY SpendsAre
  <2>2. PICK d \in [D -> Nat] : d = days
    BY <1>1, <2>1
  <2>3. D \in SUBSET D
    OBVIOUS
  <2>4. \A v \in D : d[v] <= SumFunctionOnSet(d, D)
    BY <2>1, <2>3, SumCovers
  <2> QED
    BY <2>1, <2>2, <2>4 DEF DayCount
<1>4. \A v \in A!Spends : days[v] \in 0 .. MaxDays
  BY <1>1, <1>2, <1>3, SpendsAre, SMT
<1> QED
  BY <1>1, <1>4, NumbersAre DEF A!TypeOK

\* The rule needs eleven days, and takes them.
LEMMA DaysSpiked == DaysOK(days, today) => A!SpikesTakeElevenDays
<1> SUFFICES ASSUME DaysOK(days, today), NEW flagged \in A!Flagged
             PROVE  /\ 10 * SumFunctionOnSet(A!Points, flagged) <= A!Number
                    /\ \A v, w \in A!Spends :
                         v < w /\ A!Points[w] = 1 /\ A!Points[v] = A!Number - 1
                           /\ A!Number > 10 => w \in flagged
  BY SameSums DEF A!SpikesTakeElevenDays
<1>1. PICK D \in SUBSET Nat : D = A!Spends /\ IsFiniteSet(D)
  BY SpendsAre
<1>2. PICK P \in [D -> Nat] : P = A!Points
  BY <1>1, NumbersAre
<1>3. /\ A!Number = DayCount(P, D) /\ A!Total = SpendSum(P, D) /\ A!Squares = SquareSum(P, D)
      /\ DayCount(P, D) \in Nat /\ SpendSum(P, D) \in Nat /\ SquareSum(P, D) \in Nat
  BY <1>1, <1>2, NumbersAre, DaySums
<1>4. /\ A!Spread = SpreadOf(P, D) /\ \A v \in D : A!Excess(v) = ExcessOf(P, D, v)
      /\ A!Limit = 9 * SpreadOf(P, D)
  <2>1. A!Spread = SpreadOf(P, D)
    BY <1>3 DEF A!Spread, SpreadOf
  <2>2. \A v \in D : A!Excess(v) = ExcessOf(P, D, v)
    BY <1>3 DEF A!Excess, ExcessOf
  <2>3. SpreadOf(P, D) \in Int
    BY <1>3, SMT DEF SpreadOf
  <2>4. A!Limit = 9 * SpreadOf(P, D)
    BY <2>1, <2>3, SMT DEF A!Limit, A!Deviations
  <2> QED
    BY <2>1, <2>2, <2>4
<1>5. CASE A!Number < 3 \/ A!Spread = 0
  <2>1. flagged = {}
    BY <1>5 DEF A!Flagged
  <2>2. 10 * SumFunctionOnSet(A!Points, flagged) <= A!Number
    BY <1>3, <2>1, SumEmpty, SMT
  <2>3. ASSUME NEW v \in A!Spends, NEW w \in A!Spends, v < w, A!Points[w] = 1,
               A!Points[v] = A!Number - 1, A!Number > 10
        PROVE  FALSE
    <3>1. SpreadOf(P, D) \in Nat \ {0}
      BY <1>1, <1>2, <1>3, <2>3, OnePeak
    <3> QED
      BY <1>3, <1>4, <1>5, <2>3, <3>1, SMT
  <2> QED
    BY <2>2, <2>3
<1>6. CASE ~(A!Number < 3) /\ A!Spread # 0
  <2>1. SpreadOf(P, D) \in Nat \ {0}
    <3>1. DayCount(P, D) > 0
      BY <1>3, <1>6, SMT
    <3> QED
      BY <1>1, <1>4, <1>6, <3>1, SpreadSign
  <2>2. PICK edge \in SUBSET {v \in A!Spends : A!OnEdge(v)} :
          flagged = {v \in A!Spends : A!Above(v)} \cup edge
    BY <1>6 DEF A!Flagged
  <2>3. PICK F \in SUBSET D : F = flagged
    BY <1>1, <2>2
  <2>4. \A v \in F : /\ ExcessOf(P, D, v) > 0
                     /\ ExcessOf(P, D, v) * ExcessOf(P, D, v) >= 9 * SpreadOf(P, D)
    <3>1. \A v \in D : ExcessOf(P, D, v) \in Int
      BY <1>3, SMT DEF ExcessOf
    <3>2. \A v \in D : ExcessOf(P, D, v) * ExcessOf(P, D, v) \in Int
      BY <3>1, ProductInt
    <3>3. 9 * SpreadOf(P, D) \in Int
      BY <2>1, SMT
    <3>4. \A v \in F : A!Above(v) \/ A!OnEdge(v)
      BY <1>1, <2>2, <2>3
    <3>5. \A v \in F : /\ ExcessOf(P, D, v) > 0
                       /\ \/ ExcessOf(P, D, v) * ExcessOf(P, D, v) > 9 * SpreadOf(P, D)
                          \/ ExcessOf(P, D, v) * ExcessOf(P, D, v) = 9 * SpreadOf(P, D)
      BY <1>4, <3>4 DEF A!Above, A!OnEdge
    <3> QED
      BY <3>2, <3>3, <3>5, SMT
  <2>5. 10 * SumFunctionOnSet(P, F) <= DayCount(P, D)
    BY <1>1, <2>1, <2>4, OneTenth
  <2>6. ASSUME NEW v \in D, NEW w \in D, v < w, P[w] = 1, P[v] = DayCount(P, D) - 1,
               DayCount(P, D) > 10
        PROVE  w \in flagged
    <3>1. /\ ExcessOf(P, D, w) > 0
          /\ ExcessOf(P, D, w) * ExcessOf(P, D, w) > 9 * SpreadOf(P, D)
      BY <1>1, <2>6, OnePeak
    <3>2. A!Points[w] > 0
      BY <1>2, <2>6, SMT
    <3>3. A!Above(w)
      BY <1>4, <3>1, <3>2 DEF A!Above
    <3> QED
      BY <1>1, <2>2, <3>3
  <2> QED
    BY <1>1, <1>2, <1>3, <2>3, <2>5, <2>6
<1> QED
  BY <1>5, <1>6

LEMMA DaysHold == A!Spec => [](A!TypeOK /\ A!SpikesTakeElevenDays)
<1>1. A!Init => DaysOK(days, today)
  BY DaysBegin
<1>2. DaysOK(days, today) /\ [A!Next]_(A!vars) => DaysOK(days, today)'
  BY DaysStep
<1>3. DaysOK(days, today) => A!TypeOK /\ A!SpikesTakeElevenDays
  BY DaysTyped, DaysSpiked
<1> QED
  BY <1>1, <1>2, <1>3, PTL DEF A!Spec

----------------------------------------------------------------------------
(***************************************************************************)
(* The services together.  The one that is picked at the start is the one  *)
(* that is observed all along, and its behaviour is one of its own.        *)
(***************************************************************************)
LEMMA OneOfThem ==
  ServicesInit => service \in {"identity", "rating", "billing", "analytics"}
                  /\ Init /\ I!Init /\ B!Init /\ A!Init
  BY DEF ServicesInit

LEMMA RatingAlone == ServicesSpec /\ service = "rating" => Spec /\ [](service = "rating")
<1>1. service = "rating" /\ [ServicesNext]_allVars => [Next]_vars /\ (service = "rating")'
  <2> SUFFICES ASSUME service = "rating", [ServicesNext]_allVars
               PROVE  [Next]_vars /\ service' = "rating"
    OBVIOUS
  <2>1. (Next /\ ButRating) \/ UNCHANGED allVars
    BY DEF ServicesNext
  <2> QED
    BY <2>1 DEF ButRating, allVars
<1> QED
  BY <1>1, OneOfThem, PTL DEF ServicesSpec, Spec

LEMMA IdentityAlone == ServicesSpec /\ service = "identity" => I!Spec /\ [](service = "identity")
<1>1. service = "identity" /\ [ServicesNext]_allVars
        => [I!Next]_(I!vars) /\ (service = "identity")'
  <2> SUFFICES ASSUME service = "identity", [ServicesNext]_allVars
               PROVE  [I!Next]_(I!vars) /\ service' = "identity"
    OBVIOUS
  <2>1. (I!Next /\ ButIdentity) \/ UNCHANGED allVars
    BY DEF ServicesNext
  <2> QED
    BY <2>1 DEF ButIdentity, allVars, vars, bootVars, procVars, rowVars, identityVars,
                I!vars, I!bootVars, I!procVars, I!rowVars, I!callVars, I!warmVars
<1> QED
  BY <1>1, OneOfThem, PTL DEF ServicesSpec, I!Spec

LEMMA BillingAlone == ServicesSpec /\ service = "billing" => B!Spec /\ [](service = "billing")
<1>1. service = "billing" /\ [ServicesNext]_allVars
        => [B!Next]_(B!vars) /\ (service = "billing")'
  <2> SUFFICES ASSUME service = "billing", [ServicesNext]_allVars
               PROVE  [B!Next]_(B!vars) /\ service' = "billing"
    OBVIOUS
  <2>1. (B!Next /\ ButBilling) \/ UNCHANGED allVars
    BY DEF ServicesNext
  <2> QED
    BY <2>1 DEF ButBilling, allVars, vars, bootVars, procVars, rowVars, billingVars,
                B!vars, B!bootVars, B!procVars, B!rowVars, B!pageVars, B!viewVars
<1> QED
  BY <1>1, OneOfThem, PTL DEF ServicesSpec, B!Spec

LEMMA DaysAlone == ServicesSpec /\ service = "analytics" => A!Spec /\ [](service = "analytics")
<1>1. service = "analytics" /\ [ServicesNext]_allVars
        => [A!Next]_(A!vars) /\ (service = "analytics")'
  <2> SUFFICES ASSUME service = "analytics", [ServicesNext]_allVars
               PROVE  [A!Next]_(A!vars) /\ service' = "analytics"
    OBVIOUS
  <2>1. (A!Next /\ ButDays) \/ UNCHANGED allVars
    BY DEF ServicesNext
  <2> QED
    BY <2>1 DEF ButDays, allVars, daysVars, A!vars
<1> QED
  BY <1>1, OneOfThem, PTL DEF ServicesSpec, A!Spec

\* The part of a service that is not observed rests.
Resting ==
  /\ service # "identity" => request = "idle"
  /\ service # "rating" => call = "idle"
  /\ service # "billing" => page = "idle"

LEMMA OthersRest == ServicesSpec => []Resting
<1>1. ServicesInit => Resting
  BY DEF ServicesInit, Resting, Init, I!Init, B!Init
<1>2. Resting /\ [ServicesNext]_allVars => Resting'
  BY DEF Resting, ServicesNext, ButIdentity, ButRating, ButBilling, ButDays,
         allVars, vars, callVars, identityVars, billingVars
<1> QED
  BY <1>1, <1>2, PTL DEF ServicesSpec

----------------------------------------------------------------------------
(***************************************************************************)
(* Every variable stays in its range, whichever service is observed.       *)
(***************************************************************************)
THEOREM AllTypesHold == ServicesSpec => []AllTypesOK
<1>1. service = "identity" /\ I!TypeOK => AllTypesOK
  BY DEF AllTypesOK
<1>2. service = "rating" /\ TypeOK => AllTypesOK
  BY DEF AllTypesOK
<1>3. service = "billing" /\ B!TypeOK => AllTypesOK
  BY DEF AllTypesOK
<1>4. service = "analytics" /\ A!TypeOK => AllTypesOK
  BY DEF AllTypesOK
<1>5. ServicesInit => \/ service = "identity" \/ service = "rating"
                      \/ service = "billing" \/ service = "analytics"
  BY DEF ServicesInit
<1> QED
  BY <1>1, <1>2, <1>3, <1>4, <1>5, RatingAlone, IdentityAlone, BillingAlone, DaysAlone,
     TypeCorrect, LookupInvHolds, BillingTypes, DaysHold, PTL DEF ServicesSpec

(***************************************************************************)
(* Whichever life of whichever service serves, it has its table and every  *)
(* row of its seed but those whose insert failed in this life and those an *)
(* operator has deleted since it began: main listens after seeding,        *)
(* whatever failed on the way, and a row deleted before is there again.    *)
(***************************************************************************)
THEOREM SeededBeforeServing == ServicesSpec => []AllServeTheirSeed
<1>1. service = "identity" /\ IdentityInv => AllServeTheirSeed
  <2>1. IdentityInv => I!ServesItsSeed
    BY IdentityAssumption, ServingMeansSeeded
       DEF IdentityInv, I!ServesItsSeed, I!Rows, Rows, I!Range, Range
  <2> QED
    BY <2>1 DEF AllServeTheirSeed
<1>2. service = "rating" /\ RatingInv => AllServeTheirSeed
  <2>1. RatingInv => ServesItsSeed
    BY SeedAssumption, ServingMeansSeeded DEF RatingInv, ServesItsSeed
  <2> QED
    BY <2>1 DEF AllServeTheirSeed
<1>3. service = "billing" /\ BillingInv => AllServeTheirSeed
  <2>1. BillingInv => B!ServesItsSeed
    BY BillingAssumption, ServingMeansSeeded
       DEF BillingInv, B!ServesItsSeed, B!Rows, Rows, B!Range, Range
  <2> QED
    BY <2>1 DEF AllServeTheirSeed
<1>4. service = "analytics" => AllServeTheirSeed
  BY DEF AllServeTheirSeed
<1>5. ServicesInit => \/ service = "identity" \/ service = "rating"
                      \/ service = "billing" \/ service = "analytics"
  BY DEF ServicesInit
<1> QED
  BY <1>1, <1>2, <1>3, <1>4, <1>5, RatingAlone, IdentityAlone, BillingAlone, DaysAlone,
     RatingInvHolds, IdentityInvHolds, BillingInvHolds, PTL DEF ServicesSpec

(***************************************************************************)
(* In none of the three tables does starting again lose a row or set a     *)
(* changed one back to the seed: only a DELETE takes a row away.           *)
(***************************************************************************)
THEOREM ChangesSurviveRestarts == ServicesSpec => RevisionsKept
<1> DEFINE Kept == \A k \in Rows : \/ deleted' = Append(deleted, k)
                                   \/ k \in DOMAIN table' /\ table'[k] >= table[k]
<1>1. IdentityInv /\ [I!Next]_(I!vars) => Kept
  BY IdentityAssumption, IdentitySteps, RowsStay DEF IdentityInv, LifeInv, Rows
<1>2. RatingInv /\ [Next]_vars => Kept
  BY SeedAssumption, RatingSteps, RowsStay DEF RatingInv, LifeInv, Rows
<1>3. BillingInv /\ [B!Next]_(B!vars) => Kept
  BY BillingAssumption, BillingSteps, RowsStay DEF BillingInv, LifeInv, Rows
<1>4. service = "analytics" /\ [ServicesNext]_allVars => UNCHANGED table
  BY DEF ServicesNext, ButDays, allVars, vars, bootVars, rowVars
<1> HIDE DEF Kept
<1>5. (IdentityInv /\ [I!Next]_(I!vars)) => [Kept]_table
  BY <1>1
<1>6. (RatingInv /\ [Next]_vars) => [Kept]_table
  BY <1>2
<1>7. (BillingInv /\ [B!Next]_(B!vars)) => [Kept]_table
  BY <1>3
<1>8. (service = "analytics" /\ [ServicesNext]_allVars) => [Kept]_table
  BY <1>4
<1>9. ServicesInit => \/ service = "identity" \/ service = "rating"
                      \/ service = "billing" \/ service = "analytics"
  BY DEF ServicesInit
<1>10. ServicesSpec => [][Kept]_table
  BY <1>5, <1>6, <1>7, <1>8, <1>9, RatingAlone, IdentityAlone, BillingAlone, DaysAlone,
     RatingInvHolds, IdentityInvHolds, BillingInvHolds, PTL
     DEF ServicesSpec, Spec, I!Spec, B!Spec
<1> QED
  BY <1>10 DEF RevisionsKept, Kept

(***************************************************************************)
(* Identity answers 401 to a demo key only if its insert had failed in     *)
(* some life or an operator had deleted it; an outage or a stop never      *)
(* passes for an unknown key.                                              *)
(***************************************************************************)
THEOREM DemoKeysKnown == ServicesSpec => []KnownUnlessMissed
<1>1. I!KnownUnlessMissed => KnownUnlessMissed
  BY DEF KnownUnlessMissed
<1>2. ~(service = "identity") /\ Resting => KnownUnlessMissed
  BY DEF KnownUnlessMissed, I!KnownUnlessMissed, Resting
<1>3. ~(service = "identity") /\ [ServicesNext]_allVars => ~(service = "identity")'
  BY DEF ServicesNext, ButRating, ButBilling, ButDays, allVars
<1> QED
  BY <1>1, <1>2, <1>3, IdentityAlone, UnknownWereMissed, OthersRest, PTL DEF ServicesSpec

(***************************************************************************)
(* A warm-up that reports success has found a stack with the demo keys,    *)
(* but for those whose insert failed and those an operator deletes.        *)
(***************************************************************************)
THEOREM WarmUpMeansIt == ServicesSpec => []WarmMeansUsable
<1>1. I!WarmMeansUsable => WarmMeansUsable
  BY DEF WarmMeansUsable
<1>2. ~(service = "identity") => WarmMeansUsable
  BY DEF WarmMeansUsable
<1>3. ~(service = "identity") /\ [ServicesNext]_allVars => ~(service = "identity")'
  BY DEF ServicesNext, ButRating, ButBilling, ButDays, allVars
<1> QED
  BY <1>1, <1>2, <1>3, IdentityAlone, SuccessMeansUsable, PTL DEF ServicesSpec

(***************************************************************************)
(* Rating never charges a model of the seed, whose row no operator has     *)
(* deleted, at the seed's row "default": not while the seed is being       *)
(* inserted, not while Postgres fails, and not after restarts.             *)
(***************************************************************************)
THEOREM DefaultForStrangersOnly == ServicesSpec => []NoSilentDefault
<1>1. ~(service = "rating") /\ Resting => NoSilentDefault
  BY DEF NoSilentDefault, Resting
<1>2. ~(service = "rating") /\ [ServicesNext]_allVars => ~(service = "rating")'
  BY DEF ServicesNext, ButIdentity, ButBilling, ButDays, allVars
<1> QED
  BY <1>1, <1>2, RatingAlone, DefaultIsForStrangers, OthersRest, PTL DEF ServicesSpec

(***************************************************************************)
(* A call that is priced by the row the seed has written for it is charged *)
(* at most what the built-in table would, and at most one micro less.      *)
(***************************************************************************)
THEOREM EitherPricerDoes == ServicesSpec => []PricersAgree
<1>1. ~(service = "rating") /\ Resting => PricersAgree
  BY DEF PricersAgree, Resting
<1>2. ~(service = "rating") /\ [ServicesNext]_allVars => ~(service = "rating")'
  BY DEF ServicesNext, ButIdentity, ButBilling, ButDays, allVars
<1> QED
  BY <1>1, <1>2, RatingAlone, PricersNeverFarApart, OthersRest, PTL DEF ServicesSpec

(***************************************************************************)
(* A line of an invoice or a margin page lies between the usage when the   *)
(* page was asked for and the usage now, and an overview's forecast never  *)
(* shows less than the invoice beside it, but for customers whose          *)
(* subscription an operator deletes.                                       *)
(***************************************************************************)
THEOREM PagesNeverStray == ServicesSpec => []LinesBracketed
<1>1. B!LinesBracketed => LinesBracketed
  BY DEF LinesBracketed
<1>2. ~(service = "billing") /\ Resting => LinesBracketed
  BY DEF LinesBracketed, B!LinesBracketed, Resting
<1>3. ~(service = "billing") /\ [ServicesNext]_allVars => ~(service = "billing")'
  BY DEF ServicesNext, ButIdentity, ButRating, ButDays, allVars
<1> QED
  BY <1>1, <1>2, <1>3, BillingAlone, PagesBracketed, OthersRest, PTL DEF ServicesSpec

(***************************************************************************)
(* A seeded subscription is on its tenant's invoice and has a page of its  *)
(* own, unless its insert had failed in some life of billing or an         *)
(* operator had deleted it.                                                *)
(***************************************************************************)
THEOREM SubscribersBilled == ServicesSpec => []SubscribersSeen
<1>1. SeenInv /\ B!SubscribersSeen => SubscribersSeen
  BY DEF SubscribersSeen
<1>2. ~(service = "billing") => SubscribersSeen
  BY DEF SubscribersSeen
<1>3. ~(service = "billing") /\ [ServicesNext]_allVars => ~(service = "billing")'
  BY DEF ServicesNext, ButIdentity, ButRating, ButDays, allVars
<1> QED
  BY <1>1, <1>2, <1>3, BillingAlone, SeenHolds, PTL DEF ServicesSpec

(***************************************************************************)
(* The anomaly rule never flags more than a tenth of a customer's days, so *)
(* none of fewer than ten; and of more than ten it always flags the one    *)
(* above others of equal spend.  For every bag of days whatever.           *)
(***************************************************************************)
THEOREM SpikesNeedElevenDays == ServicesSpec => []SpikesTakeElevenDays
<1>1. A!TypeOK /\ A!SpikesTakeElevenDays => SpikesTakeElevenDays
  BY DEF SpikesTakeElevenDays
<1>2. ~(service = "analytics") => SpikesTakeElevenDays
  BY DEF SpikesTakeElevenDays
<1>3. ~(service = "analytics") /\ [ServicesNext]_allVars => ~(service = "analytics")'
  BY DEF ServicesNext, ButIdentity, ButRating, ButBilling, allVars
<1> QED
  BY <1>1, <1>2, <1>3, DaysAlone, DaysHold, PTL DEF ServicesSpec
=============================================================================
