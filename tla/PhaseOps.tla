------------------------------ MODULE PhaseOps ------------------------------
(***************************************************************************)
(* The operations of the semantic kernel's execution trees, as both        *)
(* executors of kxml-sk/semantic_kernel_cpp call them (executor.cpp).  A   *)
(* tree is the sequence of its nodes in preorder, which is all that        *)
(* collectPhaseNodes looks at.  A value is an integer or Text.             *)
(***************************************************************************)
EXTENDS Integers, Sequences, SequencesExt

CONSTANT Text  \* a string value, and so not an operand of add

Phases == <<"Pop", "Wo", "Sek", "Chen", "Xul">>

\* The elements of a sequence that are in S, in their order.
Only(s, S) ==
  LET taken[i \in 0..Len(s)] ==
        IF i = 0 THEN <<>>
        ELSE IF s[i] \in S THEN Append(taken[i - 1], s[i]) ELSE taken[i - 1]
  IN taken[Len(s)]

PhaseNodes(program, phase) ==
  Only(program, {node \in Range(program) : node.phase = phase})

Merged(old, new) == [k \in DOMAIN old \cup DOMAIN new |->
                       IF k \in DOMAIN new THEN new[k] ELSE old[k]]

EmptyState == [k \in {} |-> 0]
EmptyContext == [global |-> EmptyState, phaseBuffer |-> EmptyState,
                 logs |-> <<>>]

\* std::get throws bad_variant_access on a string, and nobody catches it.
Throws(node) ==
  node.op = "add" /\ \E k \in {"a", "b"} \cap DOMAIN node.state :
                        node.state[k] = Text

Operand(node, k) == IF k \in DOMAIN node.state THEN node.state[k] ELSE 0

Sum(node) == Operand(node, "a") + Operand(node, "b")

\* What the handler of the operation puts into phaseBuffer.
Writes(node) ==
  CASE node.op = "assign" -> node.state
    [] node.op = "add" -> [k \in {"result"} |-> Sum(node)]
    [] OTHER -> EmptyState

\* What it logs, one entry per call of ctx.log; emit looks at global only.
Logged(node, global) ==
  CASE node.op = "assign" -> SetToSeq({<<"set", k>> : k \in DOMAIN node.state})
    [] node.op = "emit" ->
         << <<"result", {global[k] : k \in {"result"} \cap DOMAIN global}>> >>
    [] node.op = "none" -> <<>>
    [] OTHER -> << <<"ran", node.op>> >>

\* OpRegistry::execute when nothing else runs.
Execute(node, ctx) ==
  [ctx EXCEPT !.phaseBuffer = Merged(@, Writes(node)),
              !.logs = @ \o Logged(node, ctx.global)]

MergePhase(ctx) ==
  [ctx EXCEPT !.global = Merged(@, ctx.phaseBuffer),
              !.phaseBuffer = EmptyState]

\* The nodes executed one at a time.
Executed(nodes, ctx) ==
  LET run[i \in 0..Len(nodes)] ==
        IF i = 0 THEN ctx ELSE Execute(nodes[i], run[i - 1])
  IN run[Len(nodes)]

\* The program executed one node at a time, in preorder within each phase:
\* the context after the first n phases.
After(program, n) ==
  LET run[p \in 0..n] ==
        IF p = 0 THEN EmptyContext
        ELSE MergePhase(Executed(PhaseNodes(program, Phases[p]), run[p - 1]))
  IN run[n]

Sequential(program) == After(program, Len(Phases))
=============================================================================
