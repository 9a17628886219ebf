----------------------------- MODULE TrainerLoop -----------------------------
(***************************************************************************)
(* GPT2Trainer::train: which sequences make the batch of each step, Adam's *)
(* moments and bias correction, and the files save() leaves on disk.  The  *)
(* loop counter s runs ahead of step_ when a batch is empty.               *)
(*                                                                         *)
(* save() truncates its file and then writes it, so between the two the    *)
(* disk holds a partial file: whatever the disk holds in a state is what a *)
(* crash there leaves behind.  Under the GPU forward pass save() first     *)
(* reads the weights back and, to make room for that, drops the moments.   *)
(***************************************************************************)
EXTENDS Naturals, Sequences, FiniteSets, Functions

CONSTANTS
  NSeq,         \* n_seq, at least 1, as the next two are
  BatchSize,    \* batch_size
  SaveEvery,    \* save_every
  MaxSteps,     \* max_steps
  Params,       \* names of the tensors
  Configs       \* [gpu, suffix, trainable]: use_gpu_fwd, whether output_path
                \* has ".safetensors", sequences with trained tokens

VARIABLES
  conf,     \* the configuration, fixed
  s,        \* the iteration of train()
  idx,      \* the order of the sequences
  used,     \* sequence -> how often it was in a batch
  step,     \* step_, also the exponent of beta1_t_ and beta2_t_
  age,      \* tensor -> gradients accumulated in m_buf and v_buf
  weights,        \* tensor -> the step that last changed w_buf
  owned,    \* tensor -> the step of the copy cpu_w_owned
  disk,     \* file -> its content
  todo,     \* the saves still to do in this iteration
  missed    \* the tensors the save under way could not read back

vars == <<conf, s, idx, used, step, age, weights, owned, disk, todo, missed>>

Seqs == 0 .. NSeq - 1
Orders == {f \in [Seqs -> Seqs] : IsInjective(f)}

\* Files: "none", "partial" or whole.
Output == 0
None == [kind |-> "none"]
Partial == [kind |-> "partial"]
Whole(at, tensors, gap) == [kind |-> "whole", step |-> at, tensors |-> tensors, missed |-> gap]
Files == {Output} \cup {i \in 1 .. MaxSteps : i % SaveEvery = 0}

\* train: where iteration i saves, `_step<i>`, or the output itself when the
\* path has no ".safetensors" to put the number before.
Checkpoint(i) == IF conf.suffix THEN i ELSE Output

\* The positions of the order that iteration i reads.
Positions(i) ==
  {(i * BatchSize + j) % NSeq : j \in {j \in 0 .. BatchSize - 1 : j < NSeq}}

Batch(i, order) == {order[q] : q \in Positions(i)} \cap conf.trainable

Init ==
  /\ conf \in Configs
  /\ s = 0 /\ step = 0
  /\ idx = [q \in Seqs |-> q]
  /\ used = [q \in Seqs |-> 0]
  /\ age = [p \in Params |-> 0]
  /\ weights = [p \in Params |-> 0] /\ owned = weights
  /\ disk = [f \in Files |-> None]
  /\ todo = << >> /\ missed = {}

\* adamStepGPU: with the CPU pass the tensors without a gradient are skipped
\* and the others copied back at once.
AdamStep(graded) ==
  /\ step' = step + 1
  /\ age' = [p \in Params |-> IF p \in graded THEN age[p] + 1 ELSE age[p]]
  /\ weights' = [p \in Params |-> IF p \in graded THEN step + 1 ELSE weights[p]]
  /\ owned' = IF conf.gpu THEN owned ELSE weights'

\* Variant: both saves are taken after the same step.
SavesTogether(i, n) == IF n % SaveEvery = 0 THEN <<Output, Checkpoint(n)>> ELSE << >>

\* train_step saves by step_, train by s; both may fall in one iteration.
SavesAfter(i, n) ==
  (IF n % SaveEvery = 0 THEN <<Output>> ELSE << >>)
  \o (IF i > 0 /\ i % SaveEvery = 0 THEN <<Checkpoint(i)>> ELSE << >>)

\* Variant: the order is shuffled once per pass over the data.
ShuffleOften(i) == IF (i * BatchSize) % NSeq < BatchSize THEN Orders ELSE {idx}

\* Shuffled every n_seq iterations, unless no_shuffle keeps the order.
ShuffleAt(i) == IF i % NSeq = 0 THEN Orders ELSE {idx}

\* One iteration of train up to its saves; an empty batch skips those too.
Iterate ==
  /\ s < MaxSteps /\ todo = << >>
  /\ idx' \in ShuffleAt(s)
  /\ IF Batch(s, idx') = {}
     THEN UNCHANGED <<used, step, age, weights, owned, todo>>
     ELSE /\ used' = [q \in Seqs |-> IF q \in Batch(s, idx') THEN used[q] + 1 ELSE used[q]]
          /\ \E graded \in IF conf.gpu THEN {Params} ELSE SUBSET Params : AdamStep(graded)
          /\ todo' = SavesAfter(s, step')
  /\ s' = s + 1
  /\ UNCHANGED <<conf, disk, missed>>

\* The loop is over: the last save, unless it is done.
LastSave ==
  /\ s = MaxSteps /\ todo = << >>
  /\ s' = s + 1
  /\ todo' = <<Output>>
  /\ UNCHANGED <<conf, idx, used, step, age, weights, owned, disk, missed>>

\* Variant: the weights are not read back before they are saved.
NoReadback(failed) == UNCHANGED <<owned, age>>

\* syncWeightsToCPU: m and v are dropped, then allocated again as zeros; a
\* tensor whose staging buffer cannot be had or mapped keeps its old copy.
syncWeightsToCPU(failed) ==
  /\ owned' = [p \in Params |-> IF p \in failed THEN owned[p] ELSE weights[p]]
  /\ age' = [p \in Params |-> 0]

Writing == todo # << >> /\ disk[Head(todo)] = Partial

\* save up to the open that truncates the file.
BeginSave ==
  /\ todo # << >> /\ ~Writing
  /\ \E failed \in IF conf.gpu THEN SUBSET Params ELSE {{}} :
       /\ IF conf.gpu THEN syncWeightsToCPU(failed) ELSE UNCHANGED <<owned, age>>
       /\ missed' = failed
  /\ disk' = [disk EXCEPT ![Head(todo)] = Partial]
  /\ UNCHANGED <<conf, s, idx, used, step, weights, todo>>

\* Its last write and the close.
EndSave ==
  /\ Writing
  /\ disk' = [disk EXCEPT ![Head(todo)] = Whole(step, owned, missed)]
  /\ todo' = Tail(todo)
  /\ missed' = {}
  /\ UNCHANGED <<conf, s, idx, used, step, age, weights, owned>>

Next == Iterate \/ LastSave \/ BeginSave \/ EndSave

Spec == Init /\ [][Next]_vars

-----------------------------------------------------------------------------
(* Properties *)

WholeFiles == {f \in Files : disk[f].kind = "whole"}

\* Between two shuffles every sequence with trained tokens is used equally
\* often, for any batch size: the shuffle falls where the cyclic walk over
\* the order closes, not where a pass over the data ends.
FairSampling ==
  s <= MaxSteps /\ s % NSeq = 0 =>
    \A q, r \in conf.trainable : used[q] = used[r]

\* A file that is whole holds every tensor as the optimiser left it after one
\* and the same step, except those whose copy could not be read back.
CheckpointConsistent ==
  \A f \in WholeFiles : \A p \in Params :
    \/ p \in disk[f].missed
    \/ /\ disk[f].tensors[p] <= disk[f].step
       /\ disk[f].step = step => disk[f].tensors[p] = weights[p]

\* The newest file that survives a crash at any point, also while the output
\* is being overwritten, is less than save_every steps old (one step when
\* every step is saved): the numbered checkpoint follows each in-place save
\* by a step.  Needs the suffix, no skipped batch and the first checkpoint.
CrashLosesLittle ==
  conf.suffix /\ conf.trainable = Seqs /\ (\E f \in Files \ {Output} : disk[f].kind = "whole")
    => \E f \in WholeFiles : disk[f].step + SaveEvery > step
                             \/ disk[f].step + 1 >= step

\* The moments are reset by a save: "this causes one sub-optimal Adam step".
\* From the second step on, bias correction counts what the moments hold.
OneSuboptimalStep ==
  \A p \in Params : conf.gpu /\ age[p] > 1 => age[p] = step
=============================================================================
