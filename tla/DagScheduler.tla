---------------------------- MODULE DagScheduler ----------------------------
(***************************************************************************)
(* The scheduler of drivers/DAG.cpp behind a context of drivers/dag_abi.   *)
(* A list that fails to parse leaves the tasks before the failure in the   *)
(* context, and dag_schedule orders those.  Loading clears what an earlier *)
(* load left, so a context loads once here.  One step is one round of the  *)
(* while loop of schedule().                                               *)
(***************************************************************************)
EXTENDS Integers, Sequences, FiniteSets

CONSTANTS Id,        \* task ids, as numbers in the order of the strings
          TaskLists  \* lists of [id, dependsOn], dependsOn a sequence

Task == [id : Id, dependsOn : Seq(Id)]

ASSUME IdAssumption == Id \subseteq Nat
ASSUME ListAssumption == TaskLists \subseteq Seq(Task)

VARIABLES
  pc,        \* "created", "idle" or "scheduling"
  tasks,     \* dc->tasks
  indegree, ready,  \* locals of schedule()
  ordered, error    \* its result

vars == <<pc, tasks, indegree, ready, ordered, error>>

Ids(list) == {list[i].id : i \in DOMAIN list}
UniqueIds(list) ==
  \A i, j \in DOMAIN list : list[i].id = list[j].id => i = j
Dependencies(t) == {t.dependsOn[k] : k \in DOMAIN t.dependsOn}
Closed(list) == \A i \in DOMAIN list : Dependencies(list[i]) \subseteq Ids(list)

\* byId
SpecOf(id) == tasks[CHOOSE i \in DOMAIN tasks : tasks[i].id = id]

\* How often id is in dependents[dependency].
Edges(id, dependency) ==
  {k \in DOMAIN SpecOf(id).dependsOn : SpecOf(id).dependsOn[k] = dependency}

Init ==
  /\ pc = "created"
  /\ tasks = <<>>
  /\ indegree = [id \in {} |-> 0] /\ ready = {} /\ ordered = <<>>
  /\ error = ""

\* dag_load_tasks
Load ==
  /\ pc = "created" /\ pc' = "idle"
  /\ \E list \in TaskLists : \E n \in 0..Len(list) :
       tasks' = SubSeq(list, 1, n)
  /\ UNCHANGED <<indegree, ready, ordered, error>>

Reject ==
  /\ pc = "idle"
  /\ ~(UniqueIds(tasks) /\ Closed(tasks))
  /\ error' = IF ~UniqueIds(tasks) THEN "dag_task_ids_must_be_unique"
              ELSE "dag_missing_dependency"
  /\ ordered' = <<>>
  /\ UNCHANGED <<pc, tasks, indegree, ready>>

Start ==
  /\ pc = "idle"
  /\ UniqueIds(tasks) /\ Closed(tasks)
  /\ pc' = "scheduling"
  /\ indegree' = [id \in Ids(tasks) |-> Len(SpecOf(id).dependsOn)]
  /\ ready' = {id \in Ids(tasks) : indegree'[id] = 0}
  /\ ordered' = <<>> /\ error' = ""
  /\ UNCHANGED tasks

\* Variants: a dependent is ready at its first finished dependency; the set is
\* emptied from its other end.
PopEager ==
  /\ pc = "scheduling"
  /\ \E id \in ready :
       /\ \A other \in ready : id <= other
       /\ ordered' = Append(ordered, id)
       /\ ready' = (ready \ {id}) \cup {d \in DOMAIN indegree : Edges(d, id) # {}}
  /\ UNCHANGED <<pc, tasks, indegree, error>>

PopLargest ==
  /\ pc = "scheduling"
  /\ \E id \in ready :
       /\ \A other \in ready : id >= other
       /\ ordered' = Append(ordered, id)
       /\ indegree' = [d \in DOMAIN indegree |->
                         indegree[d] - Cardinality(Edges(d, id))]
       /\ ready' = (ready \ {id}) \cup
                     {d \in DOMAIN indegree : Edges(d, id) # {} /\ indegree'[d] = 0}
  /\ UNCHANGED <<pc, tasks, error>>

Pop ==
  /\ pc = "scheduling"
  /\ \E id \in ready :
       /\ \A other \in ready : id <= other
       /\ ordered' = Append(ordered, id)
       /\ indegree' = [d \in DOMAIN indegree |->
                         indegree[d] - Cardinality(Edges(d, id))]
       /\ ready' = (ready \ {id}) \cup
                     {d \in DOMAIN indegree : Edges(d, id) # {} /\ indegree'[d] = 0}
  /\ UNCHANGED <<pc, tasks, error>>

\* Variant: the loop ends one task early.
FinishEarly ==
  /\ pc = "scheduling" /\ Cardinality(ready) <= 1
  /\ pc' = "idle"
  /\ IF Len(ordered) = Len(tasks) THEN UNCHANGED <<ordered, error>>
     ELSE ordered' = <<>> /\ error' = "dag_cycle_detected"
  /\ indegree' = [id \in {} |-> 0] /\ ready' = {}
  /\ UNCHANGED tasks

Finish ==
  /\ pc = "scheduling" /\ ready = {}
  /\ pc' = "idle"
  /\ IF Len(ordered) = Len(tasks) THEN UNCHANGED <<ordered, error>>
     ELSE ordered' = <<>> /\ error' = "dag_cycle_detected"
  /\ indegree' = [id \in {} |-> 0] /\ ready' = {}
  /\ UNCHANGED tasks

Schedule == Reject \/ Start \/ Pop \/ Finish

Next == Load \/ Schedule

Spec == Init /\ [][Next]_vars

-----------------------------------------------------------------------------
Ordered == {ordered[i] : i \in DOMAIN ordered}
Pending(id) ==
  {k \in DOMAIN SpecOf(id).dependsOn : SpecOf(id).dependsOn[k] \notin Ordered}

TypeOK ==
  /\ pc \in {"created", "idle", "scheduling"}
  /\ tasks \in Seq(Task)
  /\ ordered \in Seq(Ids(tasks))
  /\ pc = "scheduling" =>
       /\ indegree \in [Ids(tasks) -> Nat]
       /\ ready \subseteq Ids(tasks)

\* While the loop runs, indegree counts the dependencies that are not ordered
\* yet, repeated ones as often as they are listed, and exactly the unordered
\* tasks with none are ready.
IndegreeExact ==
  pc = "scheduling" =>
    /\ \A id \in Ids(tasks) : indegree[id] = Cardinality(Pending(id))
    /\ ready = {id \in Ids(tasks) \ Ordered : indegree[id] = 0}

\* At every moment every task that is ordered comes once and after everything
\* it depends on: whatever is handed out can be executed in that order.
Topological ==
  /\ \A i, j \in DOMAIN ordered : ordered[i] = ordered[j] => i = j
  /\ \A i \in DOMAIN ordered :
       \A d \in Dependencies(SpecOf(ordered[i])) :
         \E j \in 1..(i - 1) : ordered[j] = d

\* A set of tasks that wait for one another.
Deadlocked(S) ==
  /\ S # {} /\ S \subseteq Ids(tasks)
  /\ \A id \in S : Dependencies(SpecOf(id)) \cap S # {}

\* A cycle is reported only when there is one, and an order without an error
\* holds every task.
VerdictRight ==
  /\ error = "dag_cycle_detected" => \E S \in SUBSET Ids(tasks) : Deadlocked(S)
  /\ (pc = "idle" /\ ordered # <<>>) => Ordered = Ids(tasks)

Before(s, t) ==
  \E i \in DOMAIN s : s[i] < t[i] /\ \A j \in 1..(i - 1) : s[j] = t[j]

\* Of all orders that respect the dependencies schedule() gives the least one,
\* so the order does not depend on the order of the list.
LeastOrder ==
  (pc = "idle" /\ ordered # <<>>) =>
    \A s \in [DOMAIN ordered -> Ids(tasks)] :
      (/\ \A i, j \in DOMAIN s : s[i] = s[j] => i = j
       /\ \A i \in DOMAIN s : \A d \in Dependencies(SpecOf(s[i])) :
            \E j \in 1..(i - 1) : s[j] = d)
      => s = ordered \/ Before(ordered, s)
=============================================================================
