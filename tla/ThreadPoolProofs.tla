-------------------------- MODULE ThreadPoolProofs --------------------------
(***************************************************************************)
(* The barrier of the thread pool, for every number of workers, tasks and  *)
(* phases.  activeTasks alone does not say where the tasks are; that it    *)
(* counts exactly the tasks started, queued and running (CounterExact)     *)
(* does, and a counter of zero then means an empty queue and idle workers. *)
(***************************************************************************)
EXTENDS ThreadPool, FiniteSetTheorems, TLAPS

\* Tasks counted by taskStarted and not yet pushed.
Pending == IF main = "push" THEN 1 ELSE 0

CounterExact == activeTasks = Len(tasks) + Cardinality(Busy) + Pending

AfterBarrier == {"check_tasks", "merge", "stop", "notify_all", "join", "done"}

Quiet == main \in AfterBarrier => activeTasks = 0

InRange == main = "push" => next <= Len(batches[phase])

StopsLast == /\ stop => main \in {"notify_all", "join", "done"}
             /\ \A w \in Workers : worker[w] = "exited" => stop

IInv == TypeOK /\ CounterExact /\ Quiet /\ InRange /\ StopsLast

-----------------------------------------------------------------------------
LEMMA BatchType == TypeOK => batches[phase] \in Seq(Task)
BY PoolAssumption DEF PoolAssumption, TypeOK

LEMMA BusyFinite ==
  ASSUME TypeOK
  PROVE  IsFiniteSet(Busy) /\ Cardinality(Busy) \in Nat
<1>1. Busy \subseteq Workers
  BY DEF Busy
<1>2. IsFiniteSet(Busy)
  BY <1>1, PoolAssumption, FS_Subset DEF PoolAssumption
<1> QED
  BY <1>2, FS_CardinalityType

\* A worker that moves outside its task leaves the set of busy ones alone.
LEMMA BusySame ==
  ASSUME TypeOK, NEW w \in Workers, NEW to,
         to \notin {"task", "count"}, worker[w] \notin {"task", "count"},
         worker' = [worker EXCEPT ![w] = to]
  PROVE  Busy' = Busy
BY DEF TypeOK, Busy

\* The worker that takes a task joins it, the one that counts down leaves.
LEMMA BusyGrows ==
  ASSUME TypeOK, NEW w \in Workers, worker[w] = "check",
         worker' = [worker EXCEPT ![w] = "task"]
  PROVE  Cardinality(Busy)' = Cardinality(Busy) + 1
<1>1. Busy' = Busy \cup {w} /\ w \notin Busy
  BY DEF TypeOK, Busy
<1>2. IsFiniteSet(Busy)
  BY BusyFinite
<1> QED
  BY <1>1, <1>2, FS_AddElement

LEMMA BusyShrinks ==
  ASSUME TypeOK, NEW w \in Workers, NEW to,
         to \notin {"task", "count"}, worker[w] = "count",
         worker' = [worker EXCEPT ![w] = to]
  PROVE  /\ Cardinality(Busy)' = Cardinality(Busy) - 1
         /\ Cardinality(Busy)' \in Nat
<1>1. Busy' = Busy \ {w} /\ w \in Busy
  BY DEF TypeOK, Busy
<1>2. IsFiniteSet(Busy)
  BY BusyFinite
<1>3. Cardinality(Busy \ {w}) = Cardinality(Busy) - 1
  BY <1>1, <1>2, FS_RemoveElement
<1>4. IsFiniteSet(Busy \ {w})
  BY <1>2, FS_RemoveElement
<1>5. Cardinality(Busy \ {w}) \in Nat
  BY <1>4, FS_CardinalityType
<1> QED
  BY <1>1, <1>3, <1>5

-----------------------------------------------------------------------------
LEMMA InitIInv == Init => IInv
<1> SUFFICES ASSUME Init PROVE IInv
  OBVIOUS
<1>a. /\ batches \in Seq(Seq(Task)) /\ Len(batches) \in Nat
      /\ Len(batches) > 0
  BY PoolAssumption DEF PoolAssumption, Init
<1>b. phase \in 1..Len(batches) /\ batches[phase] \in Seq(Task)
  BY <1>a DEF Init
<1>c. next \in 1..(Len(batches[phase]) + 1)
  BY <1>b DEF Init
<1>d. /\ worker \in [Workers -> {"check", "asleep", "exited", "task", "count",
                                "empty", "wake"}]
      /\ task \in [Workers -> Task \cup {NoTask}]
  BY DEF Init
<1>g. tasks = <<>> /\ activeTasks = 0 /\ stop = FALSE
  BY DEF Init
<1>h. <<>> \in Seq(Task)
  OBVIOUS
<1>i. activeTasks \in Nat
  BY <1>g
<1>j. stop \in BOOLEAN
  BY <1>g
<1>e. tasks \in Seq(Task) /\ activeTasks \in Nat /\ stop \in BOOLEAN
  BY <1>g, <1>h, <1>i, <1>j
<1>f. batches \in BatchLists /\ main = "dispatch"
  BY DEF Init
<1>1. TypeOK
  BY <1>b, <1>c, <1>d, <1>e, <1>f DEF TypeOK
<1>2. Busy = {}
  BY DEF Init, Busy
<1>3. CounterExact
  BY <1>2, FS_EmptySet DEF Init, CounterExact, Pending
<1> QED
  BY <1>1, <1>3 DEF Init, IInv, Quiet, InRange, StopsLast, AfterBarrier

\* The steps of the main thread.
LEMMA MainKeepsIInv == IInv /\ MainStep => IInv'
<1> SUFFICES ASSUME IInv, MainStep PROVE IInv'
  OBVIOUS
<1> USE DEF IInv, MainAt, workerVars
<1>b. batches[phase] \in Seq(Task)
  BY BatchType
<1>c. Cardinality(Busy) \in Nat
  BY BusyFinite
<1>s. ASSUME UNCHANGED worker PROVE Busy' = Busy
  BY <1>s DEF Busy
<1>1. CASE TaskStarted
  <2>1. TypeOK'
    BY <1>1 DEF TaskStarted, TypeOK
  <2>2. Busy' = Busy
    BY <1>1, <1>s DEF TaskStarted
  <2>3. CounterExact'
    BY <1>1, <1>c, <2>2 DEF TaskStarted, CounterExact, Pending, TypeOK
  <2> QED
    BY <1>1, <2>1, <2>3 DEF TaskStarted, Quiet, InRange, StopsLast, AfterBarrier
<1>2. CASE Push
  <2>1. batches[phase][next] \in Task
    BY <1>2, <1>b DEF Push, TypeOK, InRange
  <2>2. TypeOK'
    BY <1>2, <1>b, <2>1 DEF Push, TypeOK, InRange
  <2>3. Busy' = Busy
    BY <1>2, <1>s DEF Push
  <2>4. Len(tasks') = Len(tasks) + 1
    BY <1>2, <2>1 DEF Push, TypeOK
  <2>5. CounterExact'
    BY <1>2, <1>c, <2>3, <2>4 DEF Push, CounterExact, Pending, TypeOK
  <2> QED
    BY <1>2, <2>2, <2>5 DEF Push, Quiet, InRange, StopsLast, AfterBarrier
<1>3. CASE NotifyOne
  <2>1. /\ worker' \in [Workers -> {"check", "asleep", "exited", "task",
                                    "count", "empty", "wake"}]
        /\ \A w \in Workers : worker'[w] = "exited" => worker[w] = "exited"
        /\ Busy' = Busy
    <3>1. CASE UNCHANGED worker
      BY <3>1, <1>s DEF TypeOK
    <3>2. CASE \E w \in Workers : WorkerAt(w, "asleep", "check")
      <4>1. PICK w \in Workers : WorkerAt(w, "asleep", "check")
        BY <3>2
      <4>2. Busy' = Busy
        BY <4>1, BusySame DEF WorkerAt
      <4> QED
        BY <4>1, <4>2 DEF WorkerAt, TypeOK
    <3> QED
      BY <1>3, <3>1, <3>2 DEF NotifyOne
  <2>2. TypeOK'
    BY <1>3, <2>1 DEF NotifyOne, TypeOK
  <2>3. CounterExact'
    BY <1>3, <2>1 DEF NotifyOne, CounterExact, Pending
  <2> QED
    BY <1>3, <2>1, <2>2, <2>3
    DEF NotifyOne, Quiet, InRange, StopsLast, AfterBarrier
<1>4. CASE EnterWait
  <2>1. Busy' = Busy
    BY <1>4, <1>s DEF EnterWait
  <2> QED
    BY <1>4, <2>1 DEF EnterWait, TypeOK, CounterExact, Pending, Quiet, InRange,
                      StopsLast, AfterBarrier
<1>5. CASE CheckActive
  <2>1. Busy' = Busy
    BY <1>5, <1>s DEF CheckActive
  <2> QED
    BY <1>5, <2>1 DEF CheckActive, TypeOK, CounterExact, Pending, Quiet,
                      InRange, StopsLast, AfterBarrier
<1>6. CASE CheckTasks
  <2>1. Busy' = Busy
    BY <1>6, <1>s DEF CheckTasks
  <2> QED
    BY <1>6, <2>1 DEF CheckTasks, TypeOK, CounterExact, Pending, Quiet,
                      InRange, StopsLast, AfterBarrier
<1>7. CASE Block
  <2>1. Busy' = Busy
    BY <1>7, <1>s DEF Block
  <2> QED
    BY <1>7, <2>1 DEF Block, TypeOK, CounterExact, Pending, Quiet, InRange,
                      StopsLast, AfterBarrier
<1>8. CASE NextPhase
  <2>1. Busy' = Busy
    BY <1>8, <1>s DEF NextPhase
  <2>2. /\ phase' \in 1..Len(batches)
        /\ next' \in 1..(Len(batches[phase']) + 1)
    <3>1. CASE phase < Len(batches)
      <4>1. batches \in Seq(Seq(Task)) /\ phase' = phase + 1 /\ next' = 1 /\ batches' = batches
        BY <1>8, <3>1, PoolAssumption
        DEF PoolAssumption, NextPhase, TypeOK
      <4>2. phase' \in 1..Len(batches)
        BY <3>1, <4>1 DEF TypeOK
      <4>3. Len(batches[phase']) \in Nat
        BY <4>1, <4>2
      <4> QED
        BY <4>1, <4>2, <4>3
    <3>2. CASE ~(phase < Len(batches))
      BY <1>8, <3>2 DEF NextPhase, TypeOK
    <3> QED
      BY <3>1, <3>2
  <2>3. main' \in {"dispatch", "stop"}
    BY <1>8 DEF NextPhase
  <2>4. TypeOK'
    BY <1>8, <2>2, <2>3 DEF NextPhase, TypeOK
  <2>5. CounterExact'
    BY <1>8, <2>1, <2>3 DEF NextPhase, CounterExact, Pending
  <2> QED
    BY <1>8, <2>3, <2>4, <2>5
    DEF NextPhase, Quiet, InRange, StopsLast, AfterBarrier
<1>9. CASE SetStop
  <2>1. Busy' = Busy
    BY <1>9, <1>s DEF SetStop
  <2> QED
    BY <1>9, <2>1 DEF SetStop, TypeOK, CounterExact, Pending, Quiet, InRange,
                      StopsLast, AfterBarrier
<1>10. CASE NotifyAll
  <2>1. Busy' = Busy
    BY <1>10 DEF NotifyAll, Busy, TypeOK
  <2>2. TypeOK'
    BY <1>10 DEF NotifyAll, TypeOK
  <2>3. CounterExact'
    BY <1>10, <2>1 DEF NotifyAll, CounterExact, Pending
  <2> QED
    BY <1>10, <2>2, <2>3 DEF NotifyAll, Quiet, InRange, StopsLast, AfterBarrier
<1>11. CASE Join
  <2>1. Busy' = Busy
    BY <1>11, <1>s DEF Join
  <2> QED
    BY <1>11, <2>1 DEF Join, TypeOK, CounterExact, Pending, Quiet, InRange,
                       StopsLast, AfterBarrier
<1> QED
  BY <1>1, <1>2, <1>3, <1>4, <1>5, <1>6, <1>7, <1>8, <1>9, <1>10, <1>11
  DEF MainStep

\* The steps of a worker.
LEMMA WorkerKeepsIInv ==
  ASSUME NEW w \in Workers, IInv, PoolStep(w) \/ RunTask(w)
  PROVE  IInv'
<1> USE DEF IInv, WorkerAt, mainVars
<1>c. Cardinality(Busy) \in Nat
  BY BusyFinite
<1>1. CASE Take(w)
  <2>1. /\ Head(tasks) \in Task /\ Tail(tasks) \in Seq(Task)
        /\ Len(Tail(tasks)) = Len(tasks) - 1
        /\ Len(tasks) \in Nat \ {0}
    BY <1>1 DEF Take, TypeOK
  <2>2. Cardinality(Busy)' = Cardinality(Busy) + 1
    BY <1>1, BusyGrows DEF Take
  <2>3. TypeOK'
    BY <1>1, <2>1 DEF Take, TypeOK
  <2>4. CounterExact'
    <3>1. activeTasks' = activeTasks /\ Pending' = Pending
      BY <1>1 DEF Take, Pending
    <3>2. Len(tasks') = Len(tasks) - 1
      BY <1>1, <2>1 DEF Take
    <3>3. Pending \in Nat
      BY DEF Pending
    <3> QED
      BY <1>c, <2>1, <2>2, <3>1, <3>2, <3>3 DEF CounterExact, TypeOK
  <2> QED
    BY <1>1, <2>3, <2>4 DEF Take, Quiet, InRange, StopsLast, TypeOK
<1>2. CASE Sleep(w)
  <2>1. Busy' = Busy
    BY <1>2, BusySame DEF Sleep
  <2> QED
    BY <1>2, <2>1 DEF Sleep, TypeOK, CounterExact, Pending, Quiet, InRange,
                      StopsLast
<1>3. CASE Exit(w)
  <2>1. Busy' = Busy
    BY <1>3, BusySame DEF Exit
  <2> QED
    BY <1>3, <2>1 DEF Exit, TypeOK, CounterExact, Pending, Quiet, InRange,
                      StopsLast
<1>4. CASE CountDown(w)
  <2> DEFINE to == IF activeTasks' = 0 THEN "empty" ELSE "check"
  <2>1. /\ to \in {"empty", "check"} /\ to \notin {"task", "count"}
        /\ worker[w] = "count" /\ worker' = [worker EXCEPT ![w] = to]
    BY <1>4 DEF CountDown
  <2> HIDE DEF to
  <2>2. /\ Cardinality(Busy)' = Cardinality(Busy) - 1
        /\ Cardinality(Busy)' \in Nat
    BY <2>1, BusyShrinks
  <2>3. /\ activeTasks' = activeTasks - 1 /\ tasks' = tasks
        /\ Pending' = Pending /\ Pending \in Nat /\ Len(tasks) \in Nat
    BY <1>4 DEF CountDown, Pending, TypeOK
  <2>4. CounterExact' /\ activeTasks' \in Nat
    <3>1. activeTasks = Len(tasks) + Cardinality(Busy) + Pending /\ Cardinality(Busy) \in Nat
      BY <1>c DEF CounterExact
    <3>2. activeTasks' = Len(tasks') + Cardinality(Busy)' + Pending' /\ activeTasks' \in Nat
      BY <2>2, <2>3, <3>1
    <3> QED
      BY <3>2 DEF CounterExact
  <2>5. TypeOK'
    BY <1>4, <2>1, <2>4 DEF CountDown, TypeOK
  <2>6. Quiet'
    <3>1. activeTasks = 0 => activeTasks' = -1
      BY <2>3
    <3> QED
      BY <1>4, <2>4, <3>1 DEF CountDown, Quiet, TypeOK
  <2> QED
    BY <1>4, <2>1, <2>4, <2>5, <2>6 DEF CountDown, InRange, StopsLast, TypeOK
<1>5. CASE CheckEmpty(w)
  <2> DEFINE to == IF tasks = <<>> THEN "wake" ELSE "check"
  <2>1. /\ to \in {"wake", "check"} /\ to \notin {"task", "count"}
        /\ worker[w] = "empty" /\ worker' = [worker EXCEPT ![w] = to]
    BY <1>5 DEF CheckEmpty
  <2> HIDE DEF to
  <2>2. Busy' = Busy
    BY <2>1, BusySame
  <2> QED
    BY <1>5, <2>1, <2>2 DEF CheckEmpty, TypeOK, CounterExact, Pending, Quiet,
                            InRange, StopsLast
<1>6. CASE NotifyDone(w)
  <2>1. Busy' = Busy
    BY <1>6, BusySame DEF NotifyDone
  <2>2. main' = main \/ (main = "blocked" /\ main' = "wait")
    BY <1>6 DEF NotifyDone
  <2>3. TypeOK'
    BY <1>6, <2>2 DEF NotifyDone, TypeOK
  <2>4. CounterExact'
    BY <1>6, <2>1, <2>2 DEF NotifyDone, CounterExact, Pending
  <2> QED
    BY <1>6, <2>2, <2>3, <2>4
    DEF NotifyDone, TypeOK, Quiet, InRange, StopsLast, AfterBarrier
<1>7. CASE RunTask(w)
  <2>1. Busy' = Busy
    BY <1>7 DEF RunTask, Busy, TypeOK
  <2> QED
    BY <1>7, <2>1 DEF RunTask, TypeOK, CounterExact, Pending, Quiet, InRange,
                      StopsLast
<1> QED
  BY <1>1, <1>2, <1>3, <1>4, <1>5, <1>6, <1>7 DEF PoolStep

LEMMA SpuriousKeepsIInv == IInv /\ SpuriousWake => IInv'
<1> SUFFICES ASSUME IInv, SpuriousWake PROVE IInv'
  OBVIOUS
<1> USE DEF IInv
<1>1. CASE SpuriousMainWake
  <2>1. Busy' = Busy
    BY <1>1 DEF SpuriousMainWake, Busy, workerVars
  <2> QED
    BY <1>1, <2>1 DEF SpuriousMainWake, MainAt, workerVars, TypeOK, CounterExact,
                      Pending, Quiet, InRange, StopsLast, AfterBarrier
<1>2. CASE \E w \in Workers : SpuriousWorkerWake(w)
  <2>1. PICK w \in Workers : SpuriousWorkerWake(w)
    BY <1>2
  <2>2. Busy' = Busy
    BY <2>1, BusySame DEF SpuriousWorkerWake, WorkerAt
  <2> QED
    BY <2>1, <2>2 DEF SpuriousWorkerWake, WorkerAt, mainVars, TypeOK,
                      CounterExact, Pending, Quiet, InRange, StopsLast
<1> QED
  BY <1>1, <1>2 DEF SpuriousWake

LEMMA StutterKeepsIInv == IInv /\ UNCHANGED vars => IInv'
BY DEF IInv, vars, TypeOK, CounterExact, Busy, Pending, Quiet, InRange,
       StopsLast

LEMMA Inductive == Spec => []IInv
<1>1. IInv /\ [Next]_vars => IInv'
  BY MainKeepsIInv, WorkerKeepsIInv, SpuriousKeepsIInv, StutterKeepsIInv
  DEF Next
<1> QED
  BY InitIInv, <1>1, PTL DEF Spec

\* A counter of zero leaves no task anywhere.
LEMMA NothingLeft ==
  ASSUME IInv, activeTasks = 0
  PROVE  tasks = <<>> /\ Busy = {}
<1>1. /\ IsFiniteSet(Busy) /\ Cardinality(Busy) \in Nat
      /\ Len(tasks) \in Nat /\ Pending \in Nat
  BY BusyFinite DEF IInv, TypeOK, Pending
<1>2. Cardinality(Busy) = 0 /\ Len(tasks) = 0
  BY <1>1 DEF IInv, CounterExact
<1>3. Busy = {}
  BY <1>1, <1>2, FS_EmptySet
<1>4. tasks = <<>>
  BY <1>2 DEF IInv, TypeOK
<1> QED
  BY <1>3, <1>4

-----------------------------------------------------------------------------
\* The pool's state keeps its type: activeTasks never falls below zero and
\* every queued closure is one the client enqueued.
THEOREM TypeCorrect == Spec => []TypeOK
<1>1. IInv => TypeOK
  BY DEF IInv
<1> QED
  BY Inductive, <1>1, PTL

\* wait() returns only when the phase's tasks are all done (executor.h,
\* ThreadPool::wait and taskFinished), whatever the number of workers.
THEOREM BarrierHolds == Spec => []Barrier
<1>1. IInv => Barrier
  BY NothingLeft DEF IInv, Quiet, AfterBarrier, Barrier
<1> QED
  BY Inductive, <1>1, PTL

\* The destructor finds an empty queue and no worker leaves before it.
THEOREM NothingDropped == Spec => []NoTaskDropped
<1>1. IInv => NoTaskDropped
  BY NothingLeft DEF IInv, Quiet, AfterBarrier, StopsLast, NoTaskDropped
<1> QED
  BY Inductive, <1>1, PTL
=============================================================================
