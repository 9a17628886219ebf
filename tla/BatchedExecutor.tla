-------------------------- MODULE BatchedExecutor --------------------------
(***************************************************************************)
(* execute_phases_with_batches (kxml-sk/semantic_kernel_cpp/src/           *)
(* batch_executor.cpp), the command execute_ir_batched: per phase, the     *)
(* add and geometric nodes run as batches over buffers of their own and    *)
(* are scattered back first, the other nodes run through the registry      *)
(* after them, and phaseBuffer is merged.  One thread does it all, so the  *)
(* module is a function from trees to contexts.  Each lane has three       *)
(* buffer slots to itself: the order of the batches cannot be seen.  What  *)
(* a lane writes into its own node's state no other node reads.            *)
(***************************************************************************)
EXTENDS PhaseOps

Geometric == {"bimodal_attention", "geodesic_flow"}
Vectorised(node) == node.op = "add" \/ node.op \in Geometric

\* lower_phase_nodes_to_ir: an operand that is not an integer counts as 0.
LaneOperand(node, k) == IF Operand(node, k) = Text THEN 0 ELSE Operand(node, k)

\* The result of a lane.  The geometric lanes are GPU work: the CPU path only
\* reports them, and the slot keeps the 0 it was created with.
LaneResult(node) ==
  IF node.op = "add" THEN LaneOperand(node, "a") + LaneOperand(node, "b") ELSE 0

BufferKey(node) == IF node.op = "add" THEN "result" ELSE "manifold_coherence"

Scatter(nodes, c) ==
  LET lane[i \in 0..Len(nodes)] ==
        IF i = 0 THEN c
        ELSE IF ~Vectorised(nodes[i]) THEN lane[i - 1]
        ELSE [lane[i - 1] EXCEPT !.phaseBuffer =
                Merged(@, [k \in {BufferKey(nodes[i])} |-> LaneResult(nodes[i])])]
  IN lane[Len(nodes)]

RunScalars(nodes, c) ==
  Executed(Only(nodes, {node \in Range(nodes) : ~Vectorised(node)}), c)

\* Variant: the scalar operations run first.
BatchedPhaseScalarsFirst(nodes, c) == MergePhase(Scatter(nodes, RunScalars(nodes, c)))

BatchedPhase(nodes, c) == MergePhase(RunScalars(nodes, Scatter(nodes, c)))

BatchedAfter(prog, n) ==
  LET run[p \in 0..n] ==
        IF p = 0 THEN EmptyContext
        ELSE BatchedPhase(PhaseNodes(prog, Phases[p]), run[p - 1])
  IN run[n]

\* The context execute_ir_batched ends with.
Batched(prog) == BatchedAfter(prog, Len(Phases))

-----------------------------------------------------------------------------
\* No phase puts an add after an assignment of "result".
AddsComeFirst(prog) ==
  \A i, j \in DOMAIN prog :
    /\ i < j
    /\ prog[i].op = "assign" /\ "result" \in DOMAIN prog[i].state
    /\ prog[j].op = "add"
    => prog[i].phase # prog[j].phase

\* What both executors know how to run: no geometric node, no string operand.
Comparable(prog) ==
  \A i \in DOMAIN prog : prog[i].op \notin Geometric /\ ~Throws(prog[i])

Emitted(logs) == Only(logs, {entry \in Range(logs) : entry[1] = "result"})
=============================================================================
