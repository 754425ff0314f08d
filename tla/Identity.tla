------------------------------ MODULE Identity ------------------------------
(***************************************************************************)
(* The identity service and its client, the gateway's resolveCaller, which *)
(* turns the key of a request into a caller or into a status.  A request   *)
(* makes one lookup, and lookups only read, so one request at a time shows *)
(* what any number of them may see.                                        *)
(*                                                                         *)
(* Once after its own start the gateway warms up: a few rounds of one call *)
(* to budget and one to identity, until both have answered in one round.   *)
(***************************************************************************)
EXTENDS Bootstrap

CONSTANTS NoKey,   \* a request without a key
          Rounds   \* rounds of warmUp

VARIABLES request, \* where the request stands, at last its status or "known"
          key,     \* its key
          caller,  \* the revision of the row it is attributed to
          warm,    \* where warmUp stands
          round    \* its rounds so far

callVars == <<request, key, caller>>
warmVars == <<warm, round>>
vars     == <<bootVars, callVars, warmVars>>

----------------------------------------------------------------------------
Init ==
  /\ BootInit
  /\ request = "idle" /\ key = NoKey /\ caller = 0
  /\ warm = "going" /\ round = 0

Finish(status) == request' = status /\ UNCHANGED <<bootVars, key, caller, warmVars>>

(***************************************************************************)
(* A request comes.  Without a key it is refused on the spot; the call to  *)
(* identity fails at once when no one listens.                             *)
(***************************************************************************)
ResolveCaller(k) ==
  /\ request # "resolve"
  /\ key' = k /\ caller' = 0
  /\ request' = CASE k = NoKey        -> "401"
                  [] k # NoKey /\ proc = "serve" -> "resolve"
                  [] OTHER            -> "502"
  /\ UNCHANGED <<bootVars, warmVars>>

Found ==
  /\ request = "resolve" /\ pg /\ key \in Rows
  /\ request' = "known" /\ caller' = table[key]
  /\ UNCHANGED <<bootVars, key, warmVars>>

NotFound == request = "resolve" /\ pg /\ key \notin Rows /\ Finish("401")

\* Mutant: a failed query counts as one that found nothing.
ResolveFailsAsUnknown == request = "resolve" /\ ~pg /\ Finish("401")

ResolveFails == request = "resolve" /\ ~pg /\ Finish("502")

\* Mutant: an error of identity counts as an answer.
IdentityUp == TRUE

\* The warm-up key is unknown, and hearing so is as good as any answer.
IdentityAnswers == proc = "serve" /\ pg

\* Mutant: a round too many.
WarmUpOneMore ==
  /\ warm = "going"
  /\ round' = round + 1
  /\ \E budgetAnswers \in BOOLEAN :
       warm' = CASE budgetAnswers /\ IdentityAnswers                         -> "complete"
                 [] ~(budgetAnswers /\ IdentityAnswers) /\ round = Rounds -> "gave up"
                 [] OTHER                                                   -> "going"
  /\ UNCHANGED <<bootVars, callVars>>

\* A round of warmUp; budget may or may not answer.
WarmUp ==
  /\ warm = "going"
  /\ round' = round + 1
  /\ \E budgetAnswers \in BOOLEAN :
       warm' = CASE budgetAnswers /\ IdentityAnswers                         -> "complete"
                 [] ~(budgetAnswers /\ IdentityAnswers) /\ round' = Rounds -> "gave up"
                 [] OTHER                                                   -> "going"
  /\ UNCHANGED <<bootVars, callVars>>

\* A stop takes the lookup under way along.
Stopped ==
  /\ Stop
  /\ request' = IF request = "resolve" THEN "502" ELSE request
  /\ UNCHANGED <<key, caller, warmVars>>

Main    == Boot /\ UNCHANGED <<callVars, warmVars>>
Answers == Found \/ NotFound \/ ResolveFails

Next ==
  \/ Main \/ Answers \/ WarmUp \/ Stopped
  \/ Outside /\ UNCHANGED <<callVars, warmVars>>
  \/ \E k \in Keys \cup {NoKey} : ResolveCaller(k)

Spec == Init /\ [][Next]_vars

----------------------------------------------------------------------------
(***************************************************************************)
(* Every variable stays in its range.                                      *)
(***************************************************************************)
TypeOK ==
  /\ BootTypeOK
  /\ request \in {"idle", "resolve", "401", "502", "known"}
  /\ key \in Keys \cup {NoKey} /\ caller \in 0 .. MaxRevision
  /\ warm \in {"going", "complete", "gave up"} /\ round \in 0 .. Rounds

(***************************************************************************)
(* Status 401 is the caller's fault: a demo key is refused as unknown only *)
(* when its own insert had failed in some life of the service or an        *)
(* operator had deleted it, and never because Postgres or identity is      *)
(* down, still starting or being stopped.                                  *)
(***************************************************************************)
KnownUnlessMissed == request = "401" /\ key \in Range(SeedRows) => key \in missed

(***************************************************************************)
(* A warm-up that reports success has found a stack that can be used: the  *)
(* demo keys are there from then on, but for those whose insert failed and *)
(* those an operator deletes.                                              *)
(***************************************************************************)
WarmMeansUsable == warm = "complete" => Range(SeedRows) \subseteq Rows \cup missed
=============================================================================
