------------------------------ MODULE Drivers ------------------------------
(***************************************************************************)
(* The two libraries of drivers/ that order a task list: a host loads      *)
(* either the scheduler behind the dag_ functions or the engine behind the *)
(* kd_ functions.  The other one stays as it is made.                      *)
(***************************************************************************)
EXTENDS DagScheduler

CONSTANTS KdLists,      \* lists of [id, provider, dependsOn] for kd
          KdProviders   \* the tables of providers it may be given

VARIABLES library,
          kdPc, call, providers, loadedTasks, lastError, cursor, progressed,
          completed, failed, remaining, scheduled, results

KdTask == [id : STRING, provider : STRING, dependsOn : SUBSET STRING]

ASSUME KdAssumption == KdLists \subseteq Seq(KdTask)

Kd == INSTANCE TaskDriver WITH pc <- kdPc, TaskLists <- KdLists,
                               ProviderTables <- KdProviders

kdVars == <<kdPc, call, providers, loadedTasks, lastError, cursor, progressed,
            completed, failed, remaining, scheduled, results>>

DriversInit ==
  /\ library \in {"dag", "kd"}
  /\ Init /\ Kd!Init
  /\ library = "dag" => providers = Kd!Wasm

DriversNext ==
  \/ library = "dag" /\ Next /\ UNCHANGED <<library, kdVars>>
  \/ library = "kd" /\ Kd!Next /\ UNCHANGED <<library, vars>>

\* A call of the kd library that has been made is carried out.
DriversSpec ==
  /\ DriversInit /\ [][DriversNext]_<<library, vars, kdVars>>
  /\ WF_kdVars(library = "kd" /\ Kd!Work /\ UNCHANGED <<library, vars>>)

-----------------------------------------------------------------------------
\* kd admits the same tasks whatever the order of the list, and nothing beside
\* a failed, missing or cyclic dependency.
VerdictOrderFree == Kd!VerdictOrderFree

\* The tasks kd admits come in an order in which they can be executed.
ExecutableOrder == Kd!ExecutableOrder

\* run() plans exactly what plan() admitted, in the same order: its own test
\* of the dependencies never finds anything plan() has missed.
RunAgreesWithPlan == Kd!RunAgreesWithPlan

\* plan() and run() return, also on cyclic and invalid lists.
CallsReturn == kdPc \in {"planning", "running"} ~> kdPc = "idle"
=============================================================================
