----------------------------- MODULE ThreadPool -----------------------------
(***************************************************************************)
(* class ThreadPool (kxml-sk/semantic_kernel_cpp/include/executor.h) under *)
(* the use both its clients make of it, run_execution (executor.cpp) and   *)
(* executePlan (planner.cpp): the main thread enqueues one batch of tasks  *)
(* per phase, calls wait() between phases, and destroys the pool at the    *)
(* end.                                                                    *)
(*                                                                         *)
(* A region under queueMutex is one action.  wait() is not: only the main  *)
(* thread ever locks doneMutex, so the lock excludes nobody, and the two   *)
(* readings of its predicate and the blocking are steps that the workers'  *)
(* taskFinished may fall between.                                          *)
(***************************************************************************)
EXTENDS Integers, Sequences, FiniteSets

CONSTANTS Workers,   \* the pool's threads
          Task,      \* the closures enqueued
          NoTask,    \* the empty std::function
          BatchLists \* what a client may enqueue: tasks by phase, in order

PoolAssumption ==
  /\ IsFiniteSet(Workers)
  /\ Workers # {}
  /\ NoTask \notin Task
  /\ BatchLists \subseteq Seq(Seq(Task))
  /\ \A b \in BatchLists : Len(b) > 0

ASSUME PoolAssumption

VARIABLES
  batches,     \* what this client enqueues
  main,        \* where the main thread is
  phase,       \* index of the batch it is at
  next,        \* index of the task of the batch it dispatches next
  tasks,       \* the queue
  activeTasks, \* the counter of taskStarted and taskFinished
  stop,        \* set by the destructor
  worker,      \* where each worker is
  task         \* the closure each worker moved out of the queue last

vars == <<batches, main, phase, next, tasks, activeTasks, stop, worker, task>>

mainVars == <<batches, main, phase, next, stop>>
workerVars == <<worker, task>>

Init ==
  /\ batches \in BatchLists
  /\ main = "dispatch"
  /\ phase = 1
  /\ next = 1
  /\ tasks = <<>>
  /\ activeTasks = 0
  /\ stop = FALSE
  /\ worker = [w \in Workers |-> "check"]
  /\ task = [w \in Workers |-> NoTask]

MainAt(from, to) == main = from /\ main' = to
WorkerAt(w, from, to) ==
  /\ worker[w] = from
  /\ worker' = [worker EXCEPT ![w] = to]

\* Variants with one slip each; see PROJECT.json, mutants.
NotifyNobody ==
  /\ MainAt("notify", "dispatch")
  /\ UNCHANGED <<batches, phase, next, tasks, activeTasks, stop, workerVars>>

CheckActiveSkipped ==
  /\ MainAt("wait", "check_tasks")
  /\ UNCHANGED <<batches, phase, next, tasks, activeTasks, stop, workerVars>>

ExitWhenIdle(w) ==
  /\ WorkerAt(w, "check", "exited")
  /\ tasks = <<>>
  /\ UNCHANGED <<tasks, activeTasks, task, mainVars>>

-----------------------------------------------------------------------------
(* The main thread.                                                        *)

TaskStarted ==
  /\ MainAt("dispatch", "push")
  /\ next <= Len(batches[phase])
  /\ activeTasks' = activeTasks + 1
  /\ UNCHANGED <<batches, phase, next, tasks, stop, workerVars>>

Push ==
  /\ MainAt("push", "notify")
  /\ tasks' = Append(tasks, batches[phase][next])
  /\ next' = next + 1
  /\ UNCHANGED <<batches, phase, activeTasks, stop, workerVars>>

\* condition.notify_one(): wakes one sleeping worker, if there is one.
NotifyOne ==
  /\ MainAt("notify", "dispatch")
  /\ IF \E w \in Workers : worker[w] = "asleep"
     THEN \E w \in Workers : WorkerAt(w, "asleep", "check")
     ELSE UNCHANGED worker
  /\ UNCHANGED <<batches, phase, next, tasks, activeTasks, stop, task>>

EnterWait ==
  /\ MainAt("dispatch", "wait")
  /\ next > Len(batches[phase])
  /\ UNCHANGED <<batches, phase, next, tasks, activeTasks, stop, workerVars>>

CheckActive ==
  /\ main = "wait"
  /\ main' = IF activeTasks = 0 THEN "check_tasks" ELSE "block"
  /\ UNCHANGED <<batches, phase, next, tasks, activeTasks, stop, workerVars>>

CheckTasks ==
  /\ main = "check_tasks"
  /\ main' = IF tasks = <<>> THEN "merge" ELSE "block"
  /\ UNCHANGED <<batches, phase, next, tasks, activeTasks, stop, workerVars>>

Block ==
  /\ MainAt("block", "blocked")
  /\ UNCHANGED <<batches, phase, next, tasks, activeTasks, stop, workerVars>>

\* wait() has returned; the client does what it does between phases.
NextPhase ==
  /\ main = "merge"
  /\ IF phase < Len(batches)
     THEN main' = "dispatch" /\ phase' = phase + 1 /\ next' = 1
     ELSE main' = "stop" /\ UNCHANGED <<phase, next>>
  /\ UNCHANGED <<batches, tasks, activeTasks, stop, workerVars>>

\* ~ThreadPool
SetStop ==
  /\ MainAt("stop", "notify_all")
  /\ stop' = TRUE
  /\ UNCHANGED <<batches, phase, next, tasks, activeTasks, workerVars>>

NotifyAll ==
  /\ MainAt("notify_all", "join")
  /\ worker' = [w \in Workers |->
                  IF worker[w] = "asleep" THEN "check" ELSE worker[w]]
  /\ UNCHANGED <<batches, phase, next, tasks, activeTasks, stop, task>>

Join ==
  /\ MainAt("join", "done")
  /\ \A w \in Workers : worker[w] = "exited"
  /\ UNCHANGED <<batches, phase, next, tasks, activeTasks, stop, workerVars>>

-----------------------------------------------------------------------------
(* The worker loop; "task" to "wake" is the closure with its taskFinished. *)

Take(w) ==
  /\ WorkerAt(w, "check", "task")
  /\ tasks # <<>>
  /\ task' = [task EXCEPT ![w] = Head(tasks)]
  /\ tasks' = Tail(tasks)
  /\ UNCHANGED <<activeTasks, mainVars>>

Sleep(w) ==
  /\ WorkerAt(w, "check", "asleep")
  /\ tasks = <<>> /\ ~stop
  /\ UNCHANGED <<tasks, activeTasks, task, mainVars>>

Exit(w) ==
  /\ WorkerAt(w, "check", "exited")
  /\ tasks = <<>> /\ stop
  /\ UNCHANGED <<tasks, activeTasks, task, mainVars>>

RunTask(w) ==
  /\ WorkerAt(w, "task", "count")
  /\ UNCHANGED <<tasks, activeTasks, task, mainVars>>

CountDown(w) ==
  /\ activeTasks' = activeTasks - 1
  /\ WorkerAt(w, "count", IF activeTasks' = 0 THEN "empty" ELSE "check")
  /\ UNCHANGED <<tasks, task, mainVars>>

CheckEmpty(w) ==
  /\ WorkerAt(w, "empty", IF tasks = <<>> THEN "wake" ELSE "check")
  /\ UNCHANGED <<tasks, activeTasks, task, mainVars>>

\* doneCondition.notify_all(), with no lock held.
NotifyDone(w) ==
  /\ WorkerAt(w, "wake", "check")
  /\ main' = IF main = "blocked" THEN "wait" ELSE main
  /\ UNCHANGED <<batches, phase, next, stop, tasks, activeTasks, task>>

\* Condition variables may return from wait unasked.
SpuriousWorkerWake(w) ==
  /\ WorkerAt(w, "asleep", "check")
  /\ UNCHANGED <<tasks, activeTasks, task, mainVars>>

SpuriousMainWake ==
  /\ MainAt("blocked", "wait")
  /\ UNCHANGED <<batches, phase, next, tasks, activeTasks, stop, workerVars>>

-----------------------------------------------------------------------------
MainStep == \/ TaskStarted \/ Push \/ NotifyOne \/ EnterWait
            \/ CheckActive \/ CheckTasks \/ Block \/ NextPhase
            \/ SetStop \/ NotifyAll \/ Join

\* What a worker does outside the body of a task.
PoolStep(w) == \/ Take(w) \/ Sleep(w) \/ Exit(w)
               \/ CountDown(w) \/ CheckEmpty(w) \/ NotifyDone(w)

SpuriousWake == SpuriousMainWake \/ \E w \in Workers : SpuriousWorkerWake(w)

Next == \/ MainStep
        \/ SpuriousWake
        \/ \E w \in Workers : PoolStep(w) \/ RunTask(w)

Spec == Init /\ [][Next]_vars

\* The operating system runs every thread that can run; nothing owes a
\* thread a spurious wakeup.
Fairness == /\ WF_vars(MainStep)
            /\ \A w \in Workers : WF_vars(PoolStep(w)) /\ WF_vars(RunTask(w))

FairSpec == Spec /\ Fairness

-----------------------------------------------------------------------------
Busy == {w \in Workers : worker[w] \in {"task", "count"}}

\* The main thread and the workers stay inside their control points.
TypeOK ==
  /\ batches \in BatchLists
  /\ main \in {"dispatch", "push", "notify", "wait", "check_tasks", "block",
               "blocked", "merge", "stop", "notify_all", "join", "done"}
  /\ phase \in 1..Len(batches)
  /\ next \in 1..(Len(batches[phase]) + 1)
  /\ tasks \in Seq(Task)
  /\ activeTasks \in Nat
  /\ stop \in BOOLEAN
  /\ worker \in [Workers -> {"check", "asleep", "exited", "task", "count",
                             "empty", "wake"}]
  /\ task \in [Workers -> Task \cup {NoTask}]

\* The barrier of run_execution and executePlan: when wait() returns no task
\* of the phase is queued or running, although taskFinished reads the queue
\* without its lock and notifies late, possibly in a later phase.
Barrier == main = "merge" => tasks = <<>> /\ Busy = {}

\* The destructor runs on an empty queue, and a worker leaves its loop only
\* then: no task is dropped when the pool goes away.
NoTaskDropped ==
  /\ stop => tasks = <<>> /\ Busy = {}
  /\ \A w \in Workers : worker[w] = "exited" => stop

\* Every task dispatched is run and counted down: no wakeup of a worker is
\* lost between enqueue and the worker's predicate.
PoolDrains == activeTasks > 0 ~> activeTasks = 0

\* wait() returns once the phase it waits for has completed (planner.cpp
\* line 97, "wait for phase completion").
CompletionReleasesMain ==
  (main \in {"wait", "block", "blocked"} /\ activeTasks = 0) ~> main = "merge"
=============================================================================
