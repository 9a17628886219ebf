-------------------------- MODULE ProgramCompiler --------------------------
(***************************************************************************)
(* compileProgram and planProgram (kxml-sk/semantic_kernel_cpp/src/        *)
(* compiler.cpp, planner.cpp): an execution tree is lowered node by node   *)
(* to numeric nodes over one buffer, add/mul chains are fused, and what    *)
(* results is grouped into one batch per phase and opcode.                 *)
(*                                                                         *)
(* Only the integer operations are here: matmul and the geometric nodes    *)
(* index other buffers.  Slots count from 0, as in the code.  What         *)
(* executePlan does with the plan is not modelled: the batches point into  *)
(* a vector that is gone when planProgram returns.                         *)
(***************************************************************************)
EXTENDS Integers, Sequences, FiniteSets, SequencesExt

CONSTANTS Programs  \* the trees considered, in preorder

Absent == <<"absent">>

\* The operations and operands the model knows.
SourceAssumption ==
  \A p \in Programs :
    /\ p \in Seq(Range(p))
    /\ \A node \in Range(p) :
         /\ node.op \in {"add", "mul"}
         /\ \A o \in {node.a, node.b} :
              \/ o[1] = "int" /\ o[2] \in Int
              \/ o[1] = "name"
              \/ o = Absent

VARIABLES
  program, \* nodes [op, phase, a, b, out]; an operand is a literal
           \* <<"int", n>>, a name <<"name", x>> or Absent
  mem,     \* buffers.i64 and the symbol table: [i64, symbols]
  nodes,   \* CompiledProgram::nodes, and planProgram's linear
  at,      \* how many nodes lowerNode, and then the fusion loop, has done
  lowered, \* the result of the fusion pass
  pc       \* "lower", "fuse", "planned"

vars == <<program, mem, nodes, at, lowered, pc>>

NoSlot == 0   \* the initial value of IRNode's indices

Init ==
  /\ program \in Programs
  /\ mem = [i64 |-> <<>>, symbols |-> [x \in {} |-> 0]]
  /\ nodes = <<>>
  /\ at = 0
  /\ lowered = <<>>
  /\ pc = "lower"

\* Variants with one slip each; see PROJECT.json, mutants.
LiteralPooled(n, m) ==
  IF \E i \in DOMAIN m.i64 : m.i64[i] = n
  THEN [slot |-> (CHOOSE i \in DOMAIN m.i64 : m.i64[i] = n) - 1, mem |-> m]
  ELSE [slot |-> Len(m.i64), mem |-> [m EXCEPT !.i64 = Append(@, n)]]

\* SymbolTable::resolve_i64; next_i64 is the number of names known.
Resolve(name, m) ==
  IF name \in DOMAIN m.symbols THEN [slot |-> m.symbols[name], mem |-> m]
  ELSE LET id == Cardinality(DOMAIN m.symbols)
       IN [slot |-> id,
           mem |-> [i64 |-> IF Len(m.i64) > id THEN m.i64
                            ELSE m.i64 \o [i \in 1..(id + 1 - Len(m.i64)) |-> 0],
                    symbols |-> [x \in DOMAIN m.symbols \cup {name} |->
                                   IF x = name THEN id ELSE m.symbols[x]]]]

Literal(n, m) ==
  [slot |-> Len(m.i64), mem |-> [m EXCEPT !.i64 = Append(@, n)]]

\* An absent operand is the symbol "zero" of an add; a mul keeps slot 0.
Place(op, operand, m) ==
  CASE operand[1] = "int" -> Literal(operand[2], m)
    [] operand[1] = "name" -> Resolve(operand, m)
    [] operand = Absent /\ op = "add" -> Resolve(<<"name", "zero">>, m)
    [] operand = Absent /\ op = "mul" -> [slot |-> NoSlot, mem |-> m]

Lower(node, m) ==
  LET a == Place(node.op, node.a, m)
      b == Place(node.op, node.b, a.mem)
      out == Resolve(IF node.out = Absent THEN <<node.op, Len(nodes)>>
                     ELSE node.out, b.mem)
  IN [ir |-> [phase |-> node.phase, opcode |-> node.op, a |-> a.slot,
              b |-> b.slot, c |-> NoSlot, out |-> out.slot],
      mem |-> out.mem]

LowerNode ==
  /\ pc = "lower" /\ at < Len(program)
  /\ LET l == Lower(program[at + 1], mem)
     IN mem' = l.mem /\ nodes' = Append(nodes, l.ir)
  /\ at' = at + 1
  /\ UNCHANGED <<program, lowered, pc>>

Compiled ==
  /\ pc = "lower" /\ at = Len(program)
  /\ pc' = "fuse" /\ at' = 0
  /\ UNCHANGED <<program, mem, nodes, lowered>>

-----------------------------------------------------------------------------
Fusible(i) ==
  /\ i + 1 <= Len(nodes)
  /\ nodes[i].opcode = "add" /\ nodes[i + 1].opcode = "mul"
  /\ nodes[i + 1].a = nodes[i].out

FusedPair(i) == [nodes[i] EXCEPT !.opcode = "fused", !.c = nodes[i + 1].b,
                                 !.out = nodes[i + 1].out]

\* Variant: the fused node writes the sum's slot.
FuseKeepsOut ==
  /\ pc = "fuse" /\ Fusible(at + 1)
  /\ lowered' = Append(lowered, [FusedPair(at + 1) EXCEPT !.out = nodes[at + 1].out])
  /\ at' = at + 2
  /\ UNCHANGED <<program, mem, nodes, pc>>

Fuse ==
  /\ pc = "fuse" /\ Fusible(at + 1)
  /\ lowered' = Append(lowered, FusedPair(at + 1))
  /\ at' = at + 2
  /\ UNCHANGED <<program, mem, nodes, pc>>

Copy ==
  /\ pc = "fuse" /\ at < Len(nodes) /\ ~Fusible(at + 1)
  /\ lowered' = Append(lowered, nodes[at + 1])
  /\ at' = at + 1
  /\ UNCHANGED <<program, mem, nodes, pc>>

Planned ==
  /\ pc = "fuse" /\ at = Len(nodes)
  /\ pc' = "planned"
  /\ UNCHANGED <<program, mem, nodes, at, lowered>>

Next == LowerNode \/ Compiled \/ Fuse \/ Copy \/ Planned

Spec == Init /\ [][Next]_vars

-----------------------------------------------------------------------------
Execute(buf, n) ==
  [buf EXCEPT ![n.out + 1] =
     CASE n.opcode = "add" -> buf[n.a + 1] + buf[n.b + 1]
       [] n.opcode = "mul" -> buf[n.a + 1] * buf[n.b + 1]
       [] n.opcode = "fused" -> (buf[n.a + 1] + buf[n.b + 1]) * buf[n.c + 1]]

\* The buffer after the nodes have run one after the other.
InOrder(ns) ==
  LET run[i \in 0..Len(ns)] ==
        IF i = 0 THEN mem.i64 ELSE Execute(run[i - 1], ns[i])
  IN run[Len(ns)]

\* What the program says, name by name.
OutName(i) ==
  IF program[i].out = Absent THEN <<program[i].op, i - 1>> ELSE program[i].out

Value(o, env) == IF o[1] = "int" THEN o[2] ELSE env[o]

Result(node, env) ==
  IF node.op = "add" THEN Value(node.a, env) + Value(node.b, env)
  ELSE Value(node.a, env) * Value(node.b, env)

Defined(i, env) ==
  [name \in DOMAIN env \cup {OutName(i)} |->
     IF name = OutName(i) THEN Result(program[i], env) ELSE env[name]]

Meaning ==
  LET env[i \in 0..Len(program)] ==
        IF i = 0 THEN [name \in {} |-> 0] ELSE Defined(i, env[i - 1])
  IN env[Len(program)]

\* Every operand is there, and a name was an output of an earlier node.
DefinedBeforeUse ==
  \A i \in DOMAIN program : \A o \in {program[i].a, program[i].b} :
    /\ o # Absent
    /\ o[1] = "name" => \E j \in 1..(i - 1) : OutName(j) = o

\* The slots that hold something else when the fused nodes run: the fused
\* sums, which are not written, and whatever is computed from a slot that
\* strays.  off says that node i itself computed something else; a fused
\* product takes the sum from the adder, not from its slot.
StraysAfter(i, before) ==
  LET off == \/ IF i > 1 /\ Fusible(i - 1) THEN before.off
                ELSE nodes[i].a \in before.slots
             \/ nodes[i].b \in before.slots
  IN [off |-> off,
      slots |-> IF off \/ Fusible(i) THEN before.slots \cup {nodes[i].out}
                ELSE before.slots \ {nodes[i].out}]

Strays ==
  LET strays[i \in 0..Len(nodes)] ==
        IF i = 0 THEN [off |-> FALSE, slots |-> {}]
        ELSE StraysAfter(i, strays[i - 1])
  IN strays[Len(nodes)].slots

\* Symbols and literals are numbered by two counters and share slots.  As
\* long as names are defined before use, the nodes run in order still give
\* every name the value the program says: no slot is overwritten before its
\* last reader.
MeaningKept ==
  pc # "lower" /\ DefinedBeforeUse =>
    \A name \in DOMAIN Meaning :
      InOrder(nodes)[mem.symbols[name] + 1] = Meaning[name]

\* planProgram fuses whether or not the sum has another reader: x = a + b,
\* y = x * c, z = x + 1 gives z from what x held before.  This is how far the
\* damage goes, for every program: only a fused sum, and what a later node
\* computes from its slot before it is written again, can differ.
FusionAgrees ==
  pc = "planned" =>
    \A s \in 0..(Len(mem.i64) - 1) :
      s \notin Strays => InOrder(lowered)[s + 1] = InOrder(nodes)[s + 1]
=============================================================================
