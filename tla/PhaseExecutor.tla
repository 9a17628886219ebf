--------------------------- MODULE PhaseExecutor ---------------------------
(***************************************************************************)
(* run_execution (kxml-sk/semantic_kernel_cpp/src/executor.cpp), the       *)
(* command execute_ir: each of the five phases hands its nodes to the      *)
(* thread pool, waits for them, and merges phaseBuffer into global.        *)
(*                                                                         *)
(* The workers share one ExecutionContext without a lock.  Two handlers    *)
(* that run at once race on phaseBuffer (an unordered_map) and on logs (a  *)
(* vector): either structure may keep what the other handler wrote or lose *)
(* it.  A handler therefore starts on the context it sees, and when it     *)
(* ends its writes land on that context or on the present one.             *)
(***************************************************************************)
EXTENDS BatchedExecutor, FiniteSets

CONSTANTS Workers,  \* threads of the pool (hardware_concurrency)
          Programs, \* the execution trees considered
          NoTask    \* the empty std::function

VARIABLES program, \* the tree parsed from the file
          ctx,     \* the shared ExecutionContext
          seen,    \* {}, or what each worker's handler saw when it started
          aborted, \* std::terminate after an exception in a worker
          main, phase, next, tasks, activeTasks, stop, worker, task

\* A node holds finitely many integers and strings; there is a worker.
ASSUME ExecutorAssumption ==
  /\ IsFiniteSet(Workers) /\ Workers # {}
  /\ \A p \in Programs :
       /\ p \in Seq(Range(p)) /\ NoTask \notin Range(p)
       /\ \A node \in Range(p) :
            /\ IsFiniteSet(DOMAIN node.state)
            /\ node.state \in [DOMAIN node.state -> Int \cup {Text}]

Batches(prog) == [p \in 1..Len(Phases) |-> PhaseNodes(prog, Phases[p])]

Pool == INSTANCE ThreadPool WITH
          Task <- UNION {Range(p) : p \in Programs},
          BatchLists <- {Batches(p) : p \in Programs},
          batches <- Batches(program)

poolVars == <<main, phase, next, tasks, activeTasks, stop, worker, task>>
vars == <<program, ctx, seen, aborted, poolVars>>

Shared == [phaseBuffer |-> ctx.phaseBuffer, logs |-> ctx.logs]

Init ==
  /\ program \in Programs
  /\ ctx = EmptyContext
  /\ seen = [w \in Workers |-> {}]
  /\ aborted = FALSE
  /\ Pool!Init

\* Variants with one slip each; see PROJECT.json, mutants.
MergeKeepsBuffer ==
  /\ Pool!NextPhase
  /\ ctx' = [MergePhase(ctx) EXCEPT !.phaseBuffer = ctx.phaseBuffer]
  /\ UNCHANGED <<seen, aborted>>

MergeEarly ==
  /\ Pool!EnterWait \/ Pool!NextPhase
  /\ ctx' = MergePhase(ctx)
  /\ UNCHANGED <<seen, aborted>>

Begin(w) ==
  /\ worker[w] = "task"
  /\ ~Throws(task[w])
  /\ seen[w] = {}
  /\ seen' = [seen EXCEPT ![w] = {Shared}]
  /\ UNCHANGED <<ctx, aborted, poolVars>>

\* The end of a handler, and of the part of the closure before taskFinished.
Finish(w) ==
  /\ seen[w] # {}
  /\ IF task[w].op = "none" THEN UNCHANGED ctx
     ELSE \E b, l \in seen[w] \cup {Shared} :
            ctx' = Execute(task[w], [ctx EXCEPT !.phaseBuffer = b.phaseBuffer,
                                                !.logs = l.logs])
  /\ seen' = [seen EXCEPT ![w] = {}]
  /\ Pool!RunTask(w)
  /\ UNCHANGED aborted

Abort(w) ==
  /\ worker[w] = "task"
  /\ Throws(task[w])
  /\ aborted' = TRUE
  /\ UNCHANGED <<ctx, seen, poolVars>>

\* wait() has returned: the phase-local state becomes global.
Merge ==
  /\ Pool!NextPhase
  /\ ctx' = MergePhase(ctx)
  /\ UNCHANGED <<seen, aborted>>

Schedule ==
  /\ \/ Pool!TaskStarted \/ Pool!Push \/ Pool!NotifyOne \/ Pool!EnterWait
     \/ Pool!CheckActive \/ Pool!CheckTasks \/ Pool!Block
     \/ Pool!SetStop \/ Pool!NotifyAll \/ Pool!Join
     \/ Pool!SpuriousWake
     \/ \E w \in Workers : Pool!PoolStep(w)
  /\ UNCHANGED <<ctx, seen, aborted>>

Next ==
  /\ ~aborted
  /\ UNCHANGED program
  /\ \/ Schedule \/ Merge
     \/ \E w \in Workers : Begin(w) \/ Finish(w) \/ Abort(w)

Spec == Init /\ [][Next]_vars

-----------------------------------------------------------------------------
RaceFree(prog) ==
  \A p \in DOMAIN Phases :
    Cardinality({i \in DOMAIN prog : /\ prog[i].phase = Phases[p]
                                     /\ prog[i].op # "none"}) <= 1

\* When no phase has two nodes that touch the context, the pool computes and
\* logs what executing the nodes one by one in preorder would.
RaceFreeResult ==
  main = "done" /\ RaceFree(program) => ctx = Sequential(program)

EmitPhases(prog) == {prog[i].phase : i \in {j \in DOMAIN prog :
                                              prog[j].op = "emit"}}

\* Whatever races inside a phase, its emits all report the same result: what
\* a phase writes is invisible until the phase is over.
EmitsAgree ==
  Cardinality(EmitPhases(program)) = 1 =>
    \A i, j \in DOMAIN ctx.logs :
      ctx.logs[i][1] = "result" /\ ctx.logs[j][1] = "result"
        => ctx.logs[i] = ctx.logs[j]

\* Batching is not observable: when no phase adds after it assigned "result",
\* execute_ir_batched ends with the state, and emits the results in the order,
\* that execute_ir does on a tree without races, and that the nodes run one by
\* one give on a tree with races.
CommandsAgree ==
  main = "done" /\ Comparable(program) /\ AddsComeFirst(program) =>
    LET batched == Batched(program)
        plain == IF RaceFree(program) THEN ctx ELSE Sequential(program)
    IN /\ batched.global = plain.global
       /\ Emitted(batched.logs) = Emitted(plain.logs)
=============================================================================
