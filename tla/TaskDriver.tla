----------------------------- MODULE TaskDriver -----------------------------
(***************************************************************************)
(* DriverEngine of drivers/khanary_driver.cpp behind its kd_ functions:    *)
(* load a task list, plan it against the registered providers, run it,     *)
(* dispatch single tasks.  plan() sweeps the list until a sweep decides    *)
(* nothing; a step here is one visit of a task.                            *)
(*                                                                         *)
(* A list that fails to load stays loaded, whole or up to the object that  *)
(* could not be parsed, and the later calls work on it.  loadJson clears   *)
(* what an earlier load left, so a handle loads once here.                 *)
(***************************************************************************)
EXTENDS Integers, Sequences, FiniteSets, SequencesExt

CONSTANTS TaskLists,     \* lists of [id, provider, dependsOn]
          ProviderTables \* functions from provider names to availability

VARIABLES
  pc,          \* "created", "idle", "planning" or "running"
  call,        \* "plan" or "run": who called plan()
  providers,   \* the ProviderManager's table
  loadedTasks,
  lastError,
  cursor,      \* index of the task the sweep visits next
  progressed,  \* the sweep has decided a task
  completed, failed, remaining,  \* plan()'s sets of ids
  scheduled,   \* the results of plan()
  results      \* the results of run()

planVars == <<cursor, progressed, completed, failed, remaining, scheduled>>
vars == <<pc, call, providers, loadedTasks, lastError, planVars, results>>

Ids(list) == {list[i].id : i \in DOMAIN list}
UniqueIds(list) == Cardinality(Ids(list)) = Len(list)
Wasm == [p \in {"wasm"} |-> TRUE]

Init ==
  /\ pc = "created" /\ call = "plan"
  /\ \E table \in ProviderTables :
       providers = IF DOMAIN table = {} THEN Wasm ELSE table
  /\ loadedTasks = <<>> /\ lastError = "none"
  /\ cursor = 1 /\ progressed = FALSE
  /\ completed = {} /\ failed = {} /\ remaining = {}
  /\ scheduled = <<>> /\ results = <<>>

\* validateInline
ErrorOf(list) ==
  IF ~UniqueIds(list) THEN "task_ids_must_be_unique"
  ELSE IF \E i \in DOMAIN list : ~(list[i].dependsOn \subseteq Ids(list))
  THEN "missing_task_dependency"
  ELSE IF list = <<>> THEN "task_list_is_empty" ELSE "none"

Load ==
  /\ pc = "created" /\ pc' = "idle"
  /\ \E list \in TaskLists :
       \/ loadedTasks' = list /\ lastError' = ErrorOf(list)
       \/ \E n \in 0..(Len(list) - 1) :
            /\ loadedTasks' = SubSeq(list, 1, n)
            /\ lastError' = "json_task_object_invalid"
  /\ UNCHANGED <<call, providers, planVars, results>>

\* kd_plan and the first line of run().
Plan(caller) ==
  /\ pc = "idle" /\ pc' = "planning" /\ call' = caller
  /\ cursor' = 1 /\ progressed' = FALSE
  /\ completed' = {} /\ failed' = {} /\ remaining' = Ids(loadedTasks)
  /\ scheduled' = <<>> /\ results' = <<>>
  /\ UNCHANGED <<providers, loadedTasks, lastError>>

-----------------------------------------------------------------------------
(* The sweeps of plan().                                                   *)

Visiting(t) ==
  /\ pc = "planning" /\ remaining # {} /\ cursor <= Len(loadedTasks)
  /\ t = loadedTasks[cursor]
  /\ cursor' = cursor + 1
  /\ UNCHANGED <<pc, call, providers, loadedTasks, lastError, results>>

Decide(t, status, detail) ==
  /\ scheduled' = Append(scheduled, [id |-> t.id, status |-> status,
                                     detail |-> detail])
  /\ completed' = completed \cup {t.id}
  /\ failed' = IF status = "blocked" THEN failed \cup {t.id} ELSE failed
  /\ remaining' = remaining \ {t.id}
  /\ progressed' = TRUE

Undecided(t) == t.id \in remaining
FailedDependency(t) == t.dependsOn \cap failed # {}
Ready(t) == t.dependsOn \subseteq completed
Usable(t) == t.provider \in DOMAIN providers /\ providers[t.provider]

Skip(t) ==
  /\ Visiting(t)
  /\ \/ ~Undecided(t)
     \/ ~FailedDependency(t) /\ ~Ready(t)
  /\ UNCHANGED <<progressed, completed, failed, remaining, scheduled>>

\* Variants with one slip each; see PROJECT.json, mutants.
AdmitUnchecked(t) ==
  /\ Visiting(t)
  /\ Undecided(t) /\ Usable(t)
  /\ Decide(t, "admitted", "driver_provider_ready")

BlockDependent(t) ==
  /\ Visiting(t)
  /\ Undecided(t) /\ FailedDependency(t)
  /\ Decide(t, "blocked", "dependency_failed")

BlockUnregistered(t) ==
  /\ Visiting(t)
  /\ Undecided(t) /\ ~FailedDependency(t) /\ Ready(t)
  /\ t.provider \notin DOMAIN providers
  /\ Decide(t, "blocked", "provider_not_registered")

BlockUnavailable(t) ==
  /\ Visiting(t)
  /\ Undecided(t) /\ ~FailedDependency(t) /\ Ready(t)
  /\ t.provider \in DOMAIN providers /\ ~providers[t.provider]
  /\ Decide(t, "blocked", "provider_not_available")

Admit(t) ==
  /\ Visiting(t)
  /\ Undecided(t) /\ ~FailedDependency(t) /\ Ready(t)
  /\ Usable(t)
  /\ Decide(t, "admitted", "driver_provider_ready")

\* The sweep is over, or nothing is left of the list it would visit.
SweepOver == pc = "planning" /\ (remaining = {} \/ cursor > Len(loadedTasks))

\* Variant: after a sweep without progress, sweep again.
SweepForEver ==
  /\ SweepOver /\ remaining # {}
  /\ cursor' = 1 /\ progressed' = FALSE
  /\ UNCHANGED <<pc, call, providers, loadedTasks, lastError, completed, failed,
                 remaining, scheduled, results>>

NextSweep ==
  /\ SweepOver /\ remaining # {} /\ progressed
  /\ cursor' = 1 /\ progressed' = FALSE
  /\ UNCHANGED <<pc, call, providers, loadedTasks, lastError, completed, failed,
                 remaining, scheduled, results>>

Cycle(id) == [id |-> id, status |-> "blocked", detail |-> "dependency_cycle"]

\* plan() returns; what is still undecided is reported in the order of ids.
EndPlan ==
  /\ SweepOver /\ (remaining # {} => ~progressed)
  /\ scheduled' = scheduled \o [i \in 1..Cardinality(remaining) |->
                                  Cycle(SetToSeq(remaining)[i])]
  /\ pc' = IF call = "run" THEN "running" ELSE "idle"
  /\ UNCHANGED <<call, providers, loadedTasks, lastError, cursor, progressed,
                 completed, failed, remaining, results>>

-----------------------------------------------------------------------------
(* run() and dispatchOne.                                                  *)

Blocked(rs) == {rs[i].id : i \in {j \in DOMAIN rs : rs[j].status = "blocked"}}
SpecOf(id) ==
  loadedTasks[CHOOSE i \in DOMAIN loadedTasks :
                /\ loadedTasks[i].id = id
                /\ \A j \in 1..(i - 1) : loadedTasks[j].id # id]

\* Variant: run() gives every admitted task a second look at its provider.
RunBlocksAll ==
  /\ pc = "running" /\ Len(results) < Len(scheduled)
  /\ results' = Append(results, [scheduled[Len(results) + 1] EXCEPT
                                   !.status = "blocked"])
  /\ UNCHANGED <<pc, call, providers, loadedTasks, lastError, planVars>>

\* One result of run(): it looks at the dependencies once more.
RunOne ==
  /\ pc = "running" /\ Len(results) < Len(scheduled)
  /\ LET r == scheduled[Len(results) + 1]
         bad == Blocked(scheduled) \cup Blocked(results)
     IN results' = Append(results,
          IF r.status # "admitted" THEN r
          ELSE IF SpecOf(r.id).dependsOn \cap bad # {}
          THEN [r EXCEPT !.status = "blocked", !.detail = "dependency_failed"]
          ELSE [r EXCEPT !.status = "planned",
                         !.detail = "ready_for_mcp_dispatch"])
  /\ UNCHANGED <<pc, call, providers, loadedTasks, lastError, planVars>>

EndRun ==
  /\ pc = "running" /\ Len(results) = Len(scheduled)
  /\ pc' = "idle"
  /\ UNCHANGED <<call, providers, loadedTasks, lastError, planVars, results>>

Visit == \E i \in DOMAIN loadedTasks :
           LET t == loadedTasks[i]
           IN i = cursor /\ (\/ Skip(t) \/ BlockDependent(t)
                             \/ BlockUnregistered(t) \/ BlockUnavailable(t)
                             \/ Admit(t))

Work == Visit \/ NextSweep \/ EndPlan \/ RunOne \/ EndRun

Next == Load \/ Plan("plan") \/ Plan("run") \/ Work

Spec == Init /\ [][Next]_vars

\* A call that has been made is carried out.
FairSpec == Spec /\ WF_vars(Work)

-----------------------------------------------------------------------------
\* Ids that a list admits, whatever its order: a task is admitted when its
\* provider is available and everything it depends on is admitted.
Rounds(list) ==
  LET admitted[n \in 0..Len(list)] ==
        IF n = 0 THEN {}
        ELSE {list[i].id : i \in {j \in DOMAIN list :
                                    /\ Usable(list[j])
                                    /\ list[j].dependsOn \subseteq admitted[n - 1]}}
  IN admitted

Reference(list) == Rounds(list)[Len(list)]

WithStatus(rs, status) ==
  {rs[i].id : i \in {j \in DOMAIN rs : rs[j].status = status}}

Planned == pc = "running" \/ (pc = "idle" /\ call = "run")

\* What is admitted does not depend on the order of the list, and nothing is
\* admitted beside a failed, missing or cyclic dependency.
VerdictOrderFree ==
  UniqueIds(loadedTasks) /\ Planned =>
    WithStatus(scheduled, "admitted") = Reference(loadedTasks)

\* The admitted tasks come in an order in which they can be executed.
ExecutableOrder ==
  UniqueIds(loadedTasks) =>
    \A i \in DOMAIN scheduled :
      scheduled[i].status = "admitted" =>
        SpecOf(scheduled[i].id).dependsOn
          \subseteq WithStatus(SubSeq(scheduled, 1, i - 1), "admitted")

\* run() plans exactly what plan() admitted, in the same order: its own test
\* of the dependencies never finds anything plan() has missed.
RunAgreesWithPlan ==
  UniqueIds(loadedTasks) =>
    \A i \in DOMAIN results :
      /\ results[i].id = scheduled[i].id
      /\ results[i].status = "planned" <=> scheduled[i].status = "admitted"

\* plan() and run() return, also on cyclic and invalid lists.
CallsReturn == pc \in {"planning", "running"} ~> pc = "idle"
=============================================================================
