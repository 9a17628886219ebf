-------------------------- MODULE MCSemanticKernel --------------------------
EXTENDS SemanticKernel

Node(ph, op, state) == [phase |-> ph, op |-> op, state |-> state]
Empty == [k \in {} |-> 0]
Operands(x, y) == [k \in {"a", "b"} |-> IF k = "a" THEN x ELSE y]
Set(k, v) == [key \in {k} |-> v]

\* One node in each phase, as in a program that computes and prints a sum.
Straight == << Node("Pop", "init", Empty),
               Node("Sek", "add", Operands(2, 3)),
               Node("Wo", "assign", Set("result", 7)),
               Node("Chen", "emit", Empty),
               Node("Xul", "cleanup", Empty) >>

\* Two writers of one key, and emits beside a writer of what they read.
Racing == << Node("Wo", "assign", Set("result", 7)),
             Node("Wo", "assign", Set("result", 8)),
             Node("Chen", "emit", Empty),
             Node("Chen", "add", Operands(1, 1)),
             Node("Chen", "emit", Empty) >>

\* A string where add expects a number, after a node without an op.
Throwing == << Node("Wo", "none", Empty),
               Node("Sek", "add", Operands(1, Text)),
               Node("Sek", "unknown", Empty) >>

\* Two nodes in one phase, in every order; and one of them before an emit.
SekNodes == { Node("Sek", "add", Operands(2, 2)),
              Node("Sek", "add", [k \in {"a"} |-> 3]),
              Node("Sek", "assign", Set("result", 7)),
              Node("Sek", "emit", Empty) }

MCTrees == {Straight, Racing, Throwing} \cup {<<x, y>> : x, y \in SekNodes}

-----------------------------------------------------------------------------
X == <<"name", "x">>
Y == <<"name", "y">>
NoOperand == <<"absent">>

\* Two names, two literals and absent operands, in adds and muls.
MCSums == [phase : {"Sek"}, op : {"add", "mul"},
         a : {<<"int", 2>>, X, NoOperand}, b : {<<"int", 3>>, Y},
         out : {X, Y, NoOperand}]

MCSources == UNION {[1..n -> MCSums] : n \in 0..3}
=============================================================================
