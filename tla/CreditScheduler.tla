-------------------------- MODULE CreditScheduler --------------------------
(***************************************************************************)
(* The credit scheduler of the semantic kernel                             *)
(* (kxml-sk/semantic_kernel_cpp/include/scheduler.h): a table of stages,   *)
(* each with a number of credits that workers take before an expensive     *)
(* step and give back after it.  Every method holds mutex_ from its first  *)
(* line to its last, so each is one atomic action.                         *)
(*                                                                         *)
(* stages is the member stages_; a stage that init_stage has not seen is   *)
(* not in its domain.  outstanding is not in the code: it counts, per      *)
(* stage, the successful try_acquire calls whose release has not come yet. *)
(***************************************************************************)
EXTENDS Naturals

CONSTANTS Stages,      \* the stage ids in use ("verify", "kv", ...)
          CreditCap,   \* the largest max_credits passed to init_stage
          Workers      \* callers; each holds at most one credit of a stage

VARIABLES stages,      \* the table stages_
          outstanding  \* credits held by callers, per stage

schedVars == <<stages, outstanding>>

StageState == [credits : Nat, max_credits : Nat]

-----------------------------------------------------------------------------
(* The methods, on the table alone: a module that has its own picture of   *)
(* who holds a credit uses these three.                                    *)

\* init_stage overwrites the entry: it also "refills" a stage in use.
InitStage(s, n) ==
  stages' = [t \in DOMAIN stages \cup {s} |->
               IF t = s THEN [credits |-> n, max_credits |-> n] ELSE stages[t]]

\* try_acquire returned true.  On false nothing changes and the caller polls.
TryAcquire(s) ==
  /\ s \in DOMAIN stages
  /\ stages[s].credits > 0
  /\ stages' = [stages EXCEPT ![s].credits = @ - 1]

Release(s) ==
  IF s \in DOMAIN stages
    THEN stages' = [stages EXCEPT
                      ![s].credits = IF @ + 1 <= stages[s].max_credits
                                       THEN @ + 1 ELSE stages[s].max_credits]
    ELSE UNCHANGED stages

-----------------------------------------------------------------------------
Init ==
  /\ stages = [s \in {} |-> 0]
  /\ outstanding = [s \in Stages |-> 0]

Configure(s) ==
  /\ \E n \in 1..CreditCap : InitStage(s, n)
  /\ UNCHANGED outstanding

Acquire(s) ==
  /\ outstanding[s] < Workers
  /\ TryAcquire(s)
  /\ outstanding' = [outstanding EXCEPT ![s] = @ + 1]

GiveBack(s) ==
  /\ outstanding[s] > 0
  /\ Release(s)
  /\ outstanding' = [outstanding EXCEPT ![s] = @ - 1]

Next == \E s \in Stages : Configure(s) \/ Acquire(s) \/ GiveBack(s)

Spec == Init /\ [][Next]_schedVars

-----------------------------------------------------------------------------
TypeOK ==
  /\ DOMAIN stages \subseteq Stages
  /\ stages \in [DOMAIN stages -> StageState]
  /\ outstanding \in [Stages -> Nat]

\* No stage ever offers more credits than it was configured with, whatever
\* the order of releases and reconfigurations (the min in release).
CreditsWithinMax ==
  \A s \in DOMAIN stages : stages[s].credits <= stages[s].max_credits

\* No credit is ever lost: what a stage offers and what callers hold add up
\* to at least its configured maximum, so once every caller has released,
\* the stage is full again.  A release that arrives after init_stage has
\* refilled the stage is the hard case.
NoCreditLost ==
  \A s \in DOMAIN stages :
    stages[s].credits + outstanding[s] >= stages[s].max_credits
=============================================================================
