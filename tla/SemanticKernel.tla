--------------------------- MODULE SemanticKernel ---------------------------
(***************************************************************************)
(* The two commands of semantic_kernel_cpp that run a program: a process   *)
(* either executes its tree phase by phase, or compiles and plans it.  The *)
(* command is chosen at the start; the part of the other one stays as it   *)
(* is made.                                                                *)
(***************************************************************************)
EXTENDS PhaseExecutor

CONSTANT Sources  \* the trees compiled

VARIABLES command, source, mem, nodes, at, lowered, pc

Compiler == INSTANCE ProgramCompiler WITH Programs <- Sources, program <- source

ASSUME SourcesAssumption == Compiler!SourceAssumption

compilerVars == <<source, mem, nodes, at, lowered, pc>>

KernelInit ==
  /\ \/ command = "execute" /\ source = CHOOSE s \in Sources : TRUE
     \/ command = "compile" /\ program = CHOOSE p \in Programs : TRUE
  /\ Init /\ Compiler!Init

KernelNext ==
  \/ command = "execute" /\ Next /\ UNCHANGED <<command, compilerVars>>
  \/ command = "compile" /\ Compiler!Next /\ UNCHANGED <<command, vars>>

KernelSpec == KernelInit /\ [][KernelNext]_<<command, vars, compilerVars>>

-----------------------------------------------------------------------------
\* Symbols and literals share slots, yet the compiled nodes give every name
\* the value the program says: no slot is overwritten before its last reader.
MeaningKept == Compiler!MeaningKept

\* Fusing an add into the mul behind it changes the sum's slot and what later
\* nodes compute from it, and nothing else.
FusionAgrees == Compiler!FusionAgrees
=============================================================================
