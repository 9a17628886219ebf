--------------------------- MODULE TrainingProofs ---------------------------
(***************************************************************************)
(* What trainer/ keeps, for any number of sequences, tensors, steps,       *)
(* shards and runs: the checkpoints the loop saves, the use it makes of    *)
(* the sequences, and the state bytes of a model that is trained in place. *)
(***************************************************************************)
EXTENDS Training, FiniteSetTheorems, SequenceTheorems, WellFoundedInduction, TLAPS

(***************************************************************************)
(* The loop.  No step of the optimiser falls between the read back of the  *)
(* weights and the end of the write: a file that is partial is the one     *)
(* being saved, and the copies it is written from are current              *)
(* (BeingSaved).                                                           *)
(***************************************************************************)

LoopTypeOK ==
  /\ step \in Nat /\ DOMAIN disk = Loop!Files
  /\ weights \in [Tensors -> Nat] /\ owned \in [Tensors -> Nat]

\* No tensor and no file is ahead of the optimiser.
NotAhead ==
  /\ \A p \in Tensors : weights[p] <= step /\ owned[p] <= step
  /\ \A f \in Loop!WholeFiles : disk[f].step \in Nat /\ disk[f].step <= step

\* The CPU pass keeps the copies current.
CopiesCurrent == ~conf.gpu => owned = weights

BeingSaved ==
  \A f \in Loop!Files : disk[f] = Loop!Partial =>
    /\ todo # << >> /\ f = Head(todo)
    /\ \A p \in Tensors : p \in missed \/ owned[p] = weights[p]

LoopIInv == LoopTypeOK /\ NotAhead /\ CopiesCurrent /\ BeingSaved /\ Loop!CheckpointConsistent

-----------------------------------------------------------------------------
LEMMA LoopInitInv == Loop!Init => LoopIInv
<1> SUFFICES ASSUME Loop!Init PROVE LoopIInv
  OBVIOUS
<1>1. LoopTypeOK /\ \A f \in Loop!Files : disk[f].kind = "none"
  BY DEF Loop!Init, LoopTypeOK, Loop!None
<1>2. \A p \in Tensors : weights[p] = 0 /\ owned[p] = 0
  BY DEF Loop!Init
<1> QED
  BY <1>1, <1>2 DEF Loop!Init, LoopIInv, NotAhead, CopiesCurrent, BeingSaved,
                    Loop!CheckpointConsistent,
                    Loop!WholeFiles, Loop!Partial

\* A step of the optimiser: every file is of an earlier one, and none is
\* being written.
LEMMA LoopAdamInv ==
  ASSUME LoopIInv, NEW graded \in SUBSET Tensors, Loop!AdamStep(graded), todo = << >>,
         UNCHANGED <<conf, disk, missed>>
  PROVE  LoopIInv'
<1>1. \A f \in Loop!Files : disk'[f] # Loop!Partial
  BY DEF LoopIInv, BeingSaved
<1>2. /\ step' = step + 1 /\ step \in Nat
      /\ weights' \in [Tensors -> Nat] /\ \A p \in Tensors : weights'[p] <= step'
      /\ owned' \in [Tensors -> Nat] /\ \A p \in Tensors : owned'[p] <= step'
  BY DEF Loop!AdamStep, LoopIInv, LoopTypeOK, NotAhead
<1>3. LoopTypeOK' /\ CopiesCurrent'
  BY <1>2 DEF LoopIInv, LoopTypeOK, CopiesCurrent, Loop!AdamStep, Loop!Files
<1>4. BeingSaved'
  BY <1>1 DEF BeingSaved, Loop!Files
<1>5. \A f \in Loop!WholeFiles' : 
        f \in Loop!WholeFiles /\ disk'[f] = disk[f] /\ disk[f].step < step'
  BY <1>2 DEF Loop!WholeFiles, Loop!Files, LoopIInv, NotAhead
<1>6. NotAhead'
  BY <1>2, <1>5 DEF LoopIInv, NotAhead
<1>7. Loop!CheckpointConsistent'
  BY <1>2, <1>5 DEF LoopIInv, Loop!CheckpointConsistent, NotAhead
<1> QED
  BY <1>3, <1>4, <1>6, <1>7 DEF LoopIInv

LEMMA LoopIdleInv ==
  ASSUME LoopIInv, UNCHANGED <<conf, step, weights, owned, disk, missed>>,
         todo' = todo \/ todo = << >>
  PROVE  LoopIInv'
<1>1. BeingSaved'
  BY DEF LoopIInv, BeingSaved, Loop!Files
<1> QED
  BY <1>1 DEF LoopIInv, LoopTypeOK, NotAhead, CopiesCurrent, Loop!CheckpointConsistent,
              Loop!WholeFiles, Loop!Files

\* The weights are read back before the file is truncated.
LEMMA LoopBeginInv == ASSUME LoopIInv, Loop!BeginSave PROVE LoopIInv'
<1>1. /\ todo # << >> /\ todo' = todo /\ UNCHANGED <<conf, step, weights>>
      /\ disk' = [disk EXCEPT ![Head(todo)] = Loop!Partial]
  BY DEF Loop!BeginSave
<1>2. /\ owned' \in [Tensors -> Nat]
      /\ \A p \in Tensors : owned'[p] <= step /\ (p \in missed' \/ owned'[p] = weights[p])
      /\ ~conf.gpu => owned' = weights
  <2>1. CASE conf.gpu
    BY <2>1 DEF Loop!BeginSave, Loop!syncWeightsToCPU, LoopIInv, LoopTypeOK, NotAhead
  <2>2. CASE ~conf.gpu
    BY <2>2 DEF Loop!BeginSave, LoopIInv, LoopTypeOK, NotAhead, CopiesCurrent
  <2> QED
    BY <2>1, <2>2
<1>3. \A f \in Loop!Files : f # Head(todo) => disk'[f] = disk[f] /\ disk[f] # Loop!Partial
  BY <1>1 DEF LoopIInv, LoopTypeOK, BeingSaved
<1>4. Head(todo) \in Loop!Files => disk'[Head(todo)] = Loop!Partial
  BY <1>1 DEF LoopIInv, LoopTypeOK
<1>5. LoopTypeOK' /\ CopiesCurrent'
  BY <1>1, <1>2 DEF LoopIInv, LoopTypeOK, CopiesCurrent, Loop!Files
<1>6. BeingSaved'
  BY <1>1, <1>2, <1>3 DEF BeingSaved, Loop!Files
<1>7. \A f \in Loop!WholeFiles' : f \in Loop!WholeFiles /\ disk'[f] = disk[f]
  BY <1>3, <1>4 DEF Loop!WholeFiles, Loop!Files, Loop!Partial
<1>8. NotAhead' /\ Loop!CheckpointConsistent'
  BY <1>1, <1>2, <1>7 DEF LoopIInv, NotAhead, Loop!CheckpointConsistent
<1> QED
  BY <1>5, <1>6, <1>8 DEF LoopIInv

LEMMA LoopEndInv == ASSUME LoopIInv, Loop!EndSave PROVE LoopIInv'
<1>1. /\ disk[Head(todo)] = Loop!Partial /\ todo # << >>
      /\ disk' = [disk EXCEPT ![Head(todo)] = Loop!Whole(step, owned, missed)]
      /\ UNCHANGED <<conf, step, weights, owned>>
  BY DEF Loop!EndSave, Loop!Writing
<1>2. /\ Loop!Whole(step, owned, missed).kind = "whole"
      /\ Loop!Whole(step, owned, missed).step = step
      /\ Loop!Whole(step, owned, missed).tensors = owned
      /\ Loop!Whole(step, owned, missed).missed = missed
      /\ Loop!Whole(step, owned, missed) # Loop!Partial
  BY DEF Loop!Whole, Loop!Partial
<1>3. \A f \in Loop!Files : f # Head(todo) => disk'[f] = disk[f] /\ disk[f] # Loop!Partial
  BY <1>1 DEF LoopIInv, LoopTypeOK, BeingSaved
<1>4. Head(todo) \in Loop!Files =>
        /\ disk'[Head(todo)] = Loop!Whole(step, owned, missed)
        /\ \A p \in Tensors : p \in missed \/ owned[p] = weights[p]
  BY <1>1 DEF LoopIInv, LoopTypeOK, BeingSaved
<1> HIDE DEF Loop!Whole
<1>5. LoopTypeOK' /\ CopiesCurrent'
  BY <1>1 DEF LoopIInv, LoopTypeOK, CopiesCurrent, Loop!Files
<1>6. BeingSaved'
  BY <1>2, <1>3, <1>4 DEF BeingSaved, Loop!Files
<1>7. ASSUME NEW f \in Loop!WholeFiles'
      PROVE  /\ disk'[f].step \in Nat /\ disk'[f].step <= step
             /\ \A p \in Tensors :
                  \/ p \in disk'[f].missed
                  \/ /\ disk'[f].tensors[p] <= disk'[f].step
                     /\ disk'[f].step = step => disk'[f].tensors[p] = weights[p]
  <2>1. f \in Loop!Files /\ disk'[f].kind = "whole"
    BY DEF Loop!WholeFiles, Loop!Files
  <2>2. CASE f = Head(todo)
    BY <1>2, <1>4, <2>1, <2>2 DEF LoopIInv, LoopTypeOK, NotAhead
  <2>3. CASE f # Head(todo)
    <3>1. disk'[f] = disk[f] /\ f \in Loop!WholeFiles
      BY <1>3, <2>1, <2>3 DEF Loop!WholeFiles
    <3> QED
      BY <3>1 DEF LoopIInv, NotAhead, Loop!CheckpointConsistent
  <2> QED
    BY <2>2, <2>3
<1>8. NotAhead' /\ Loop!CheckpointConsistent'
  BY <1>1, <1>7 DEF LoopIInv, NotAhead, Loop!CheckpointConsistent
<1> QED
  BY <1>5, <1>6, <1>8 DEF LoopIInv

LEMMA LoopNextInv == LoopIInv /\ [Loop!Next]_(Loop!vars) => LoopIInv'
<1> SUFFICES ASSUME LoopIInv, [Loop!Next]_(Loop!vars) PROVE LoopIInv'
  OBVIOUS
<1>1. CASE Loop!Iterate
  <2>1. todo = << >> /\ UNCHANGED <<conf, disk, missed>>
    BY <1>1 DEF Loop!Iterate
  <2>2. CASE UNCHANGED <<used, step, age, weights, owned, todo>>
    BY <2>1, <2>2, LoopIdleInv
  <2>3. ASSUME NEW graded \in SUBSET Tensors, Loop!AdamStep(graded) PROVE LoopIInv'
    BY <2>1, <2>3, LoopAdamInv
  <2>4. \/ UNCHANGED <<used, step, age, weights, owned, todo>>
        \/ \E graded \in SUBSET Tensors : Loop!AdamStep(graded)
    BY <1>1 DEF Loop!Iterate
  <2> QED
    BY <2>2, <2>3, <2>4
<1>2. CASE Loop!LastSave
  BY <1>2, LoopIdleInv DEF Loop!LastSave
<1>3. CASE Loop!BeginSave
  BY <1>3, LoopBeginInv
<1>4. CASE Loop!EndSave
  BY <1>4, LoopEndInv
<1>5. CASE UNCHANGED Loop!vars
  BY <1>5, LoopIdleInv DEF Loop!vars
<1> QED
  BY <1>1, <1>2, <1>3, <1>4, <1>5 DEF Loop!Next

-----------------------------------------------------------------------------
\* However the programs of trainer/ are run, a checkpoint file that is whole
\* holds every tensor as the optimiser left it after one and the same step,
\* except those save() could not read back.
THEOREM CheckpointsAreConsistent == TrainingSpec => []CheckpointConsistent
<1> DEFINE I == program = "loop" => LoopIInv
<1>1. TrainingInit => I
  BY LoopInitInv DEF TrainingInit
<1>2. I /\ [TrainingNext]_<<program, vars, loopVars, shardVars>> => I'
  <2> SUFFICES ASSUME I, [TrainingNext]_<<program, vars, loopVars, shardVars>>,
                      program' = "loop"
               PROVE  LoopIInv'
    OBVIOUS
  <2>1. program = "loop" /\ LoopIInv /\ (Loop!Next \/ UNCHANGED loopVars)
    BY DEF TrainingNext
  <2>2. [Loop!Next]_(Loop!vars)
    BY <2>1 DEF loopVars, Loop!vars
  <2> QED
    BY <2>1, <2>2, LoopNextInv
<1>3. I => CheckpointConsistent
  BY DEF LoopIInv, CheckpointConsistent
<1> QED
  BY <1>1, <1>2, <1>3, PTL DEF TrainingSpec

-----------------------------------------------------------------------------
(* What a crash loses.                                                     *)

\* The configurations the claim is about: checkpoints have files of their own
\* and no batch is empty.
Regular == conf.suffix /\ conf.trainable = Loop!Seqs

\* The steps up to n that are followed by a save.
Marks(n) == {i \in 1 .. n : i % SaveEvery = 0}

Pending(f) == \E j \in DOMAIN todo : todo[j] = f

\* Without an empty batch the loop counter and the step go together.
InStep ==
  /\ turn \in 0 .. MaxSteps + 1
  /\ step = IF turn <= MaxSteps THEN turn ELSE MaxSteps
  /\ idx \in Loop!Orders

\* What is still to be saved: the output of this step, then the checkpoint of
\* the step before.
ToSave ==
  \/ todo = << >> \/ todo = <<Loop!Output>>
  \/ /\ step - 1 \in Marks(MaxSteps)
     /\ todo = <<step - 1>> \/ (todo = <<Loop!Output, step - 1>> /\ step % SaveEvery = 0)

\* Every checkpoint due is on the disk as of the step after its number, or is
\* still to be written, and the output is at least as new as the last mark.
Numbered ==
  /\ \A i \in Marks(step - 1) :
       Pending(i) \/ (disk[i].kind = "whole" /\ disk[i].step = i + 1)
  /\ \A i \in Marks(MaxSteps) : disk[i].kind = "whole" => i < step /\ ~Pending(i)
  /\ \/ Pending(Loop!Output)
     \/ \A i \in Marks(step) :
          disk[Loop!Output].kind = "whole" /\ disk[Loop!Output].step >= i

SaveInv == Regular => InStep /\ ToSave /\ Numbered

LEMMA Multiples ==
  ASSUME NEW n \in Nat, NEW k \in Nat \ {0}
  PROVE  /\ n % k \in 0 .. k - 1 /\ (n - (n % k)) % k = 0
         /\ n % k = 0 /\ n < k => n = 0
OBVIOUS

\* Two steps in a row are marks only if every step is.
LEMMA Neighbours ==
  ASSUME NEW n \in Nat, NEW k \in Nat \ {0}, n % k = 0, (n + 1) % k = 0
  PROVE  k = 1
<1> DEFINE d == (n + 1) \div k - n \div k
<1>1. d \in Int /\ n = k * (n \div k) /\ n + 1 = k * ((n + 1) \div k)
  OBVIOUS
<1>2. k * d = 1
  BY <1>1
<1> QED
  BY <1>1, <1>2

\* A batch of sequences that are all trained is never empty.
LEMMA BatchNotEmpty ==
  ASSUME Regular, NEW order \in Loop!Orders, turn \in Nat
  PROVE  Loop!Batch(turn, order) # {}
<1> DEFINE q == (turn * BatchSize) % NSeq
<1>1. NSeq \in Nat \ {0} /\ BatchSize \in Nat \ {0}
  BY LoopAssumption
<1>2. turn * BatchSize \in Nat
  BY <1>1
<1>3. q \in Loop!Seqs
  BY <1>1, <1>2, Multiples DEF Loop!Seqs
<1>4. q \in Loop!Positions(turn)
  <2>1. 0 \in {j \in 0 .. BatchSize - 1 : j < NSeq} /\ turn * BatchSize + 0 = turn * BatchSize
    BY <1>1, <1>2
  <2> QED
    BY <2>1 DEF Loop!Positions
<1>5. order[q] \in Loop!Seqs
  BY <1>3 DEF Loop!Orders
<1> QED
  BY <1>4, <1>5 DEF Loop!Batch, Regular

LEMMA SaveInitInv == ASSUME Loop!Init PROVE SaveInv
<1>1. turn = 0 /\ step = 0 /\ todo = << >> /\ MaxSteps \in Nat
  BY LoopAssumption DEF Loop!Init
<1>2. idx \in Loop!Orders
  BY DEF Loop!Init, Loop!Orders, Loop!IsInjective
<1>3. \A i \in Marks(MaxSteps) : disk[i].kind = "none"
  BY <1>1, LoopAssumption DEF Loop!Init, Loop!None, Loop!Files, Marks
<1>4. Marks(0) = {} /\ Marks(0 - 1) = {}
  BY DEF Marks
<1> QED
  BY <1>1, <1>2, <1>3, <1>4 DEF SaveInv, InStep, ToSave, Numbered, Pending

LEMMA Single == ASSUME NEW a \in Nat PROVE <<a>> \o << >> = <<a>> /\ << >> \o <<a>> = <<a>>
OBVIOUS

LEMMA Pair == ASSUME NEW a \in Nat, NEW c \in Nat PROVE <<a>> \o <<c>> = <<a, c>>
<1>1. <<a>> \in Seq(Nat) /\ <<c>> \in Seq(Nat) /\ Len(<<a>>) = 1 /\ Len(<<c>>) = 1
  OBVIOUS
<1> DEFINE joined == <<a>> \o <<c>>
<1>2. /\ joined \in Seq(Nat) /\ Len(joined) = 2
      /\ joined[1] = a /\ joined[2] = c
  BY <1>1, ConcatProperties
<1>3. ASSUME NEW s \in Seq(Nat), Len(s) = 2, s[1] = a, s[2] = c PROVE s = <<a, c>>
  BY <1>3
<1> QED
  BY <1>2, <1>3

LEMMA SaveIterate == ASSUME LoopIInv, SaveInv, Loop!Iterate PROVE SaveInv'
<1> SUFFICES ASSUME Regular' PROVE (InStep /\ ToSave /\ Numbered)'
  BY DEF SaveInv
<1>1. /\ Regular /\ InStep /\ Numbered /\ turn < MaxSteps /\ todo = << >>
      /\ turn' = turn + 1 /\ UNCHANGED <<conf, disk>>
  BY DEF SaveInv, Regular, Loop!Iterate, Loop!Seqs
<1>2. /\ MaxSteps \in Nat /\ SaveEvery \in Nat \ {0}
      /\ turn \in Nat /\ step = turn
  BY <1>1, LoopAssumption DEF InStep
<1>3. idx' \in Loop!Orders
  BY <1>1 DEF Loop!Iterate, Loop!ShuffleAt, InStep
<1>4. step' = step + 1 /\ todo' = Loop!SavesAfter(turn, step + 1)
  BY <1>1, <1>2, <1>3, BatchNotEmpty DEF Loop!Iterate, Loop!AdamStep
<1>5. InStep'
  BY <1>1, <1>2, <1>3, <1>4 DEF InStep, Loop!Orders, Loop!Seqs
<1>6. todo' = (IF (step + 1) % SaveEvery = 0 THEN <<Loop!Output>> ELSE << >>)
              \o (IF step > 0 /\ step % SaveEvery = 0 THEN <<step>> ELSE << >>)
  BY <1>1, <1>2, <1>4 DEF Loop!SavesAfter, Loop!Checkpoint, Regular
<1>7. /\ step' - 1 = step
      /\ step \in Marks(MaxSteps) <=> step > 0 /\ step % SaveEvery = 0
      /\ step + 1 \in Marks(step + 1) <=> (step + 1) % SaveEvery = 0
  BY <1>1, <1>2, <1>4 DEF Marks
<1> DEFINE due(f) == \/ f = Loop!Output /\ (step + 1) % SaveEvery = 0
                     \/ f = step /\ step > 0 /\ step % SaveEvery = 0
<1>8. ToSave' /\ \A f : Pending(f)' <=> due(f)
  <2>1. CASE (step + 1) % SaveEvery = 0 /\ step > 0 /\ step % SaveEvery = 0
    <3>1. todo' = <<Loop!Output, step>>
      BY <1>2, <1>6, <2>1, Pair DEF Loop!Output
    <3> QED
      BY <1>4, <1>7, <2>1, <3>1 DEF ToSave, Pending, Marks
  <2>2. CASE (step + 1) % SaveEvery = 0 /\ ~(step > 0 /\ step % SaveEvery = 0)
    <3>1. todo' = <<Loop!Output>>
      BY <1>2, <1>6, <2>2, Single DEF Loop!Output
    <3> QED
      BY <2>2, <3>1 DEF ToSave, Pending
  <2>3. CASE (step + 1) % SaveEvery # 0 /\ step > 0 /\ step % SaveEvery = 0
    <3>1. todo' = <<step>>
      BY <1>6, <2>3
    <3> QED
      BY <1>4, <1>7, <2>3, <3>1 DEF ToSave, Pending, Marks
  <2>4. CASE (step + 1) % SaveEvery # 0 /\ ~(step > 0 /\ step % SaveEvery = 0)
    <3>1. todo' = << >>
      BY <1>6, <2>4
    <3> QED
      BY <2>4, <3>1 DEF ToSave, Pending
  <2> QED
    BY <2>1, <2>2, <2>3, <2>4
<1>9. \A f : Pending(f)' <=> due(f)
  BY <1>8
<1>10. \A f : ~Pending(f)
  BY <1>1 DEF Pending
<1>11. ASSUME NEW i \in Marks(step)
       PROVE  Pending(i)' \/ (disk[i].kind = "whole" /\ disk[i].step = i + 1)
  <2>1. i = step => step > 0 /\ step % SaveEvery = 0
    BY <1>2 DEF Marks
  <2>2. i # step => i \in Marks(step - 1)
    BY <1>2 DEF Marks
  <2> QED
    BY <1>1, <1>9, <1>10, <2>1, <2>2 DEF Numbered
<1>12. ASSUME NEW i \in Marks(MaxSteps), disk[i].kind = "whole"
       PROVE  i < step + 1 /\ ~Pending(i)'
  BY <1>1, <1>2, <1>9, <1>12 DEF Numbered, Marks, Loop!Output
<1>13. Pending(Loop!Output)' \/ Marks(step + 1) = Marks(step)
  BY <1>2, <1>9 DEF Marks
<1>14. Numbered'
  BY <1>1, <1>4, <1>7, <1>10, <1>11, <1>12, <1>13 DEF Numbered, Marks
<1> QED
  BY <1>5, <1>8, <1>14

LEMMA SaveLast == ASSUME SaveInv, Loop!LastSave PROVE SaveInv'
<1> SUFFICES ASSUME Regular' PROVE (InStep /\ ToSave /\ Numbered)'
  BY DEF SaveInv
<1>1. /\ Regular /\ InStep /\ Numbered /\ turn = MaxSteps /\ todo = << >>
      /\ turn' = MaxSteps + 1 /\ todo' = <<Loop!Output>> /\ UNCHANGED <<conf, disk, step, idx>>
  BY DEF SaveInv, Regular, Loop!LastSave, Loop!Seqs
<1>2. InStep'
  BY <1>1, LoopAssumption DEF InStep, Loop!Orders, Loop!Seqs
<1>3. \A f : ~Pending(f) /\ (Pending(f)' <=> f = Loop!Output)
  BY <1>1 DEF Pending
<1>4. \A i \in Marks(MaxSteps) : i # Loop!Output
  BY DEF Marks, Loop!Output
<1>5. Numbered'
  BY <1>1, <1>3, <1>4 DEF Numbered, Marks
<1> QED
  BY <1>1, <1>2, <1>5 DEF ToSave

LEMMA SaveBegin == ASSUME LoopIInv, SaveInv, Loop!BeginSave PROVE SaveInv'
<1> SUFFICES ASSUME Regular' PROVE (InStep /\ ToSave /\ Numbered)'
  BY DEF SaveInv
<1>1. /\ Regular /\ InStep /\ ToSave /\ Numbered /\ todo # << >>
      /\ disk' = [disk EXCEPT ![Head(todo)] = Loop!Partial]
      /\ UNCHANGED <<conf, turn, step, idx, todo>>
  BY DEF SaveInv, Regular, Loop!BeginSave, Loop!Seqs
<1>2. Pending(Head(todo)) /\ \A f : Pending(f)' = Pending(f)
  BY <1>1 DEF Pending, ToSave
<1>3. \A f \in Loop!Files : f # Head(todo) => disk'[f] = disk[f]
  BY <1>1 DEF LoopIInv, LoopTypeOK
<1>4. \A f \in Loop!Files : disk'[f].kind = "whole" => disk'[f] = disk[f]
  BY <1>1, <1>3 DEF LoopIInv, LoopTypeOK, Loop!Partial
<1>5. /\ Marks(MaxSteps) \subseteq Loop!Files /\ Loop!Output \in Loop!Files
      /\ Marks(step - 1) \subseteq Marks(MaxSteps)
  BY <1>1, LoopAssumption DEF Marks, Loop!Files, InStep
<1>6. Numbered'
  <2>1. ASSUME NEW i \in Marks(step - 1)
        PROVE  Pending(i) \/ (disk'[i].kind = "whole" /\ disk'[i].step = i + 1)
    BY <1>1, <1>2, <1>3, <1>5 DEF Numbered
  <2>2. ASSUME NEW i \in Marks(MaxSteps), disk'[i].kind = "whole"
        PROVE  i < step /\ ~Pending(i)
    BY <1>1, <1>4, <1>5, <2>2 DEF Numbered
  <2>3. \/ Pending(Loop!Output)
        \/ \A i \in Marks(step) :
             disk'[Loop!Output].kind = "whole" /\ disk'[Loop!Output].step >= i
    BY <1>1, <1>2, <1>3, <1>5 DEF Numbered
  <2> QED
    BY <1>1, <1>2, <2>1, <2>2, <2>3 DEF Numbered, Marks
<1> QED
  BY <1>1, <1>6 DEF InStep, ToSave, Marks, Loop!Orders, Loop!Seqs

LEMMA SaveEnd == ASSUME LoopIInv, SaveInv, Loop!EndSave PROVE SaveInv'
<1> SUFFICES ASSUME Regular' PROVE (InStep /\ ToSave /\ Numbered)'
  BY DEF SaveInv
<1>1. /\ Regular /\ InStep /\ ToSave /\ Numbered /\ todo # << >> /\ todo' = Tail(todo)
      /\ disk' = [disk EXCEPT ![Head(todo)] = Loop!Whole(step, owned, missed)]
      /\ UNCHANGED <<conf, turn, step, idx>>
  BY DEF SaveInv, Regular, Loop!EndSave, Loop!Writing, Loop!Seqs
<1>2. step \in Nat /\ MaxSteps \in Nat /\ step <= MaxSteps
  BY <1>1, LoopAssumption DEF InStep
<1>3. /\ Marks(MaxSteps) \subseteq Loop!Files /\ Loop!Output \in Loop!Files
      /\ Marks(step - 1) \subseteq Marks(MaxSteps)
      /\ \A i \in Marks(MaxSteps) : i \in Nat /\ i # Loop!Output
  BY <1>2 DEF Marks, Loop!Files, Loop!Output
<1>4. \A f \in Loop!Files : f # Head(todo) => disk'[f] = disk[f]
  BY <1>1 DEF LoopIInv, LoopTypeOK
<1>5. Head(todo) \in Loop!Files =>
        disk'[Head(todo)].kind = "whole" /\ disk'[Head(todo)].step = step
  BY <1>1 DEF LoopIInv, LoopTypeOK, Loop!Whole
<1>6. /\ Head(todo) = Loop!Output \/ (Head(todo) = step - 1 /\ step - 1 \in Marks(MaxSteps))
      /\ \A f : Pending(f) <=> Pending(f)' \/ f = Head(todo)
      /\ \A f : f = Head(todo) => ~Pending(f)'
      /\ ToSave'
  <2>1. CASE todo = <<Loop!Output>>
    <3>1. todo' = << >> /\ Head(todo) = Loop!Output
      BY <1>1, <2>1
    <3> QED
      BY <2>1, <3>1 DEF ToSave, Pending
  <2>2. CASE todo = <<step - 1>> /\ step - 1 \in Marks(MaxSteps)
    <3>1. todo' = << >> /\ Head(todo) = step - 1
      BY <1>1, <2>2
    <3> QED
      BY <2>2, <3>1 DEF ToSave, Pending
  <2>3. CASE todo = <<Loop!Output, step - 1>> /\ step - 1 \in Marks(MaxSteps)
    <3>1. todo' = <<step - 1>> /\ Head(todo) = Loop!Output
      BY <1>1, <2>3
    <3> QED
      BY <1>1, <1>3, <2>3, <3>1 DEF ToSave, Pending, Marks
  <2> QED
    BY <1>1, <2>1, <2>2, <2>3 DEF ToSave
<1>7. ASSUME NEW i \in Marks(step - 1)
      PROVE  Pending(i)' \/ (disk'[i].kind = "whole" /\ disk'[i].step = i + 1)
  BY <1>1, <1>2, <1>3, <1>4, <1>5, <1>6 DEF Numbered
<1>8. ASSUME NEW i \in Marks(MaxSteps), disk'[i].kind = "whole"
      PROVE  i < step /\ ~Pending(i)'
  BY <1>1, <1>2, <1>3, <1>4, <1>6, <1>8 DEF Numbered
<1>9. \/ Pending(Loop!Output)'
      \/ \A i \in Marks(step) :
           disk'[Loop!Output].kind = "whole" /\ disk'[Loop!Output].step >= i
  <2>1. CASE Head(todo) = Loop!Output
    BY <1>2, <1>3, <1>5, <2>1 DEF Marks
  <2>2. CASE Head(todo) # Loop!Output
    BY <1>1, <1>3, <1>4, <1>6, <2>2 DEF Numbered
  <2> QED
    BY <2>1, <2>2
<1>10. Numbered'
  BY <1>1, <1>7, <1>8, <1>9 DEF Numbered, Marks
<1> QED
  BY <1>1, <1>6, <1>10 DEF InStep, Loop!Orders, Loop!Seqs

LEMMA SaveNextInv == LoopIInv /\ SaveInv /\ [Loop!Next]_(Loop!vars) => SaveInv'
<1>1. ASSUME SaveInv, UNCHANGED Loop!vars PROVE SaveInv'
  BY <1>1 DEF SaveInv, Regular, InStep, ToSave, Numbered, Pending, Marks, Loop!Orders,
              Loop!Seqs, Loop!vars
<1> QED
  BY <1>1, SaveIterate, SaveLast, SaveBegin, SaveEnd DEF Loop!Next

\* The last mark before the step has its checkpoint, or the output is newer.
LEMMA SaveEnough == ASSUME LoopIInv, SaveInv PROVE Loop!CrashLosesLittle
<1> SUFFICES ASSUME Regular, NEW g \in Loop!Files \ {Loop!Output}, disk[g].kind = "whole"
             PROVE  \E f \in Loop!WholeFiles : disk[f].step + SaveEvery > step
                                              \/ disk[f].step + 1 >= step
  BY DEF Loop!CrashLosesLittle, Regular
<1>1. /\ InStep /\ ToSave /\ Numbered /\ MaxSteps \in Nat /\ SaveEvery \in Nat \ {0}
      /\ step \in Nat /\ step <= MaxSteps
  BY LoopAssumption DEF SaveInv, InStep
<1>2. /\ Marks(MaxSteps) \subseteq Loop!Files /\ Loop!Output \in Loop!Files
      /\ g \in Marks(MaxSteps) /\ \A i \in Marks(MaxSteps) : i \in Nat /\ i # Loop!Output
  BY <1>1 DEF Marks, Loop!Files, Loop!Output
<1>3. g < step /\ ~Pending(g) /\ g >= SaveEvery
  <2>1. g \in Nat \ {0} /\ g % SaveEvery = 0
    BY <1>2 DEF Marks
  <2>2. ~(g < SaveEvery)
    BY <1>1, <2>1, Multiples
  <2> QED
    BY <1>1, <1>2, <2>1, <2>2 DEF Numbered
<1> DEFINE c == step - 1 - ((step - 1) % SaveEvery)
<1>4. step - 1 \in Nat
  BY <1>1, <1>2, <1>3
<1>5. c \in Marks(step - 1) /\ c + SaveEvery > step - 1
  <2>1. (step - 1) % SaveEvery \in 0 .. SaveEvery - 1 /\ c % SaveEvery = 0
    BY <1>1, <1>4, Multiples
  <2>2. g <= step - 1 /\ g \in Nat
    BY <1>1, <1>2, <1>3
  <2>3. c \in 1 .. step - 1
    <3> DEFINE rest == (step - 1) % SaveEvery
    <3>1. rest \in 0 .. SaveEvery - 1 /\ c = step - 1 - rest
      BY <2>1
    <3> HIDE DEF rest, c
    <3> QED
      BY <1>1, <1>3, <1>4, <2>2, <3>1
  <2> QED
    BY <1>1, <1>4, <2>1, <2>3 DEF Marks
<1> HIDE DEF c
<1>6. \A i \in Marks(step - 1) :
        i \in Marks(MaxSteps) /\ (~Pending(i) => i \in Loop!WholeFiles /\ disk[i].step = i + 1)
  BY <1>1, <1>2 DEF Numbered, Loop!WholeFiles, Marks
<1>7. CASE ~Pending(c)
  BY <1>1, <1>2, <1>5, <1>6, <1>7
<1>8. CASE Pending(c) /\ ~Pending(Loop!Output)
  <2>1. c = step - 1
    BY <1>1, <1>2, <1>5, <1>6, <1>8 DEF ToSave, Pending
  <2>2. c \in Marks(step)
    BY <1>1, <1>5 DEF Marks
  <2>3. Loop!Output \in Loop!WholeFiles /\ disk[Loop!Output].step >= c
    BY <1>1, <1>2, <1>8, <2>2 DEF Numbered, Loop!WholeFiles
  <2>4. disk[Loop!Output].step \in Nat
    BY <2>3 DEF LoopIInv, NotAhead
  <2> QED
    BY <1>1, <2>1, <2>3, <2>4
<1>9. CASE Pending(c) /\ Pending(Loop!Output)
  <2>1. c = step - 1 /\ step % SaveEvery = 0
    BY <1>1, <1>2, <1>5, <1>6, <1>9 DEF ToSave, Pending
  <2>2. c % SaveEvery = 0
    BY <1>5 DEF Marks
  <2>3. SaveEvery = 1
    BY <1>1, <1>4, <2>1, <2>2, Neighbours
  <2>4. g # c /\ g < c
    BY <1>1, <1>2, <1>3, <1>9, <2>1
  <2>5. c - 1 \in Marks(step - 1)
    BY <1>1, <1>2, <1>3, <2>1, <2>3, <2>4 DEF Marks
  <2>6. ~Pending(c - 1)
    BY <1>1, <1>2, <1>6, <2>1, <2>5 DEF ToSave, Pending
  <2> QED
    BY <1>1, <1>4, <1>6, <2>1, <2>5, <2>6
<1> QED
  BY <1>7, <1>8, <1>9

\* When every batch trains and checkpoints have files of their own, the files
\* a crash leaves behind - also one that falls into a save - hold a whole one
\* that is less than save_every steps old, or one step.
THEOREM CrashesLoseLittle == TrainingSpec => []CrashLosesLittle
<1> DEFINE I == program = "loop" => LoopIInv /\ SaveInv
<1>1. TrainingInit => I
  BY LoopInitInv, SaveInitInv DEF TrainingInit
<1>2. I /\ [TrainingNext]_<<program, vars, loopVars, shardVars>> => I'
  <2> SUFFICES ASSUME I, [TrainingNext]_<<program, vars, loopVars, shardVars>>,
                      program' = "loop"
               PROVE  (LoopIInv /\ SaveInv)'
    OBVIOUS
  <2>1. program = "loop" /\ LoopIInv /\ SaveInv /\ (Loop!Next \/ UNCHANGED loopVars)
    BY DEF TrainingNext
  <2>2. [Loop!Next]_(Loop!vars)
    BY <2>1 DEF loopVars, Loop!vars
  <2> QED
    BY <2>1, <2>2, LoopNextInv, SaveNextInv
<1>3. I => CrashLosesLittle
  BY SaveEnough DEF CrashLosesLittle
<1> QED
  BY <1>1, <1>2, <1>3, PTL DEF TrainingSpec

-----------------------------------------------------------------------------
(***************************************************************************)
(* The batches.  The loop walks around the order and shuffles it every     *)
(* n_seq iterations, wherever the walk is.  Counted in laps (Laps), a      *)
(* batch takes a position when the walk completes one more lap there       *)
(* (Turns); after n_seq batches it is back at the start with as many laps  *)
(* at each position (TakenClosed), so what the next order puts there has   *)
(* been used as often as the rest.                                         *)
(***************************************************************************)

\* A set of numbers has a least one: what stands in for an induction.
LEMMA NatMin ==
  ASSUME NEW T, T \subseteq Nat, T # {}
  PROVE  \E x \in T : \A y \in T : x <= y
<1> DEFINE R == {ss \in Nat \X Nat : ss[1] < ss[2]}
<1>1. R = OpToRel(<, Nat)
  BY Zenon DEF OpToRel
<1>2. IsWellFoundedOn(R, Nat)
  BY <1>1, NatLessThanWellFounded, Zenon
<1>3. \A x, y \in Nat : x < y => <<x, y>> \in R
  OBVIOUS
<1> HIDE DEF R
<1>4. PICK x \in T : \A y \in T : ~(<<y, x>> \in R)
  BY <1>2, WFMin
<1>5. \A y \in T : ~(y < x)
  BY <1>3, <1>4
<1> QED
  BY <1>5

\* Numbers written to the base N.
LEMMA Quotient ==
  ASSUME NEW n \in Nat, NEW N \in Nat \ {0}
  PROVE  /\ n \div N \in Nat /\ n % N \in 0 .. N - 1
         /\ n = N * (n \div N) + (n % N)
<1>1. n % N \in 0 .. N - 1
  OBVIOUS
<1>2. n \div N \in Int
  OBVIOUS
<1>3. n = N * (n \div N) + (n % N)
  OBVIOUS
<1>4. n \div N >= 0
  <2> DEFINE k == n \div N
             m == n % N
  <2>1. k \in Int /\ m \in 0 .. N - 1 /\ n = N * k + m
    BY <1>1, <1>2, <1>3
  <2> HIDE DEF k, m
  <2>2. k <= -1 => N * k <= -N
    BY <2>1
  <2>3. k >= 0
    BY <2>1, <2>2
  <2> QED
    BY <2>3 DEF k
<1> QED
  BY <1>1, <1>2, <1>3, <1>4

LEMMA QuotientIs ==
  ASSUME NEW N \in Nat \ {0}, NEW k \in Nat, NEW m \in 0 .. N - 1,
         NEW n, n = N * k + m
  PROVE  n \div N = k /\ n % N = m
<1>1. n \in Nat
  OBVIOUS
<1> DEFINE k2 == n \div N
           m2 == n % N
<1>2. k2 \in Nat /\ m2 \in 0 .. N - 1 /\ n = N * k2 + m2
  BY <1>1, Quotient
<1> HIDE DEF k2, m2
<1>3. N * (k - k2) = m2 - m
  BY <1>1, <1>2
<1>4. k - k2 = 0
  <2> DEFINE d == k - k2
  <2>1. d \in Int /\ N * d = m2 - m /\ m2 - m < N /\ -N < m2 - m
    BY <1>1, <1>2, <1>3
  <2> HIDE DEF d
  <2>2. d >= 1 => N * d >= N
    BY <2>1
  <2>3. d <= -1 => N * d <= -N
    BY <2>1
  <2>4. d = 0
    BY <2>1, <2>2, <2>3
  <2> QED
    BY <2>4 DEF d
<1> QED
  BY <1>2, <1>3, <1>4 DEF k2, m2

\* How often the numbers before x are q modulo N.
Laps(x, q, N) == (x + (N - 1 - q)) \div N

\* Whether the len numbers from x on meet q modulo N.
Met(x, len, q, N) == \E j \in 0 .. len - 1 : (x + j) % N = q

\* At most N numbers in a row meet q at most once.
LEMMA Turns ==
  ASSUME NEW N \in Nat \ {0}, NEW x \in Nat, NEW q \in 0 .. N - 1, NEW len \in 1 .. N
  PROVE  /\ Laps(x, q, N) \in Nat
         /\ Laps(x + len, q, N) = Laps(x, q, N) + IF Met(x, len, q, N) THEN 1 ELSE 0
<1> DEFINE a == x + (N - 1 - q)
           k == a \div N
           m == a % N
<1>1. a \in Nat /\ x = a - (N - 1 - q) /\ x + len + (N - 1 - q) = a + len
  OBVIOUS
<1>1a. Laps(x, q, N) = k /\ Laps(x + len, q, N) = (a + len) \div N
  BY <1>1 DEF Laps
<1> HIDE DEF a
<1>2. k \in Nat /\ m \in 0 .. N - 1 /\ a = N * k + m
  BY <1>1, Quotient
<1> HIDE DEF k, m
<1>3. ASSUME m + len >= N
      PROVE  (a + len) \div N = k + 1 /\ \E j \in 0 .. len - 1 : (x + j) % N = q
  <2> DEFINE n == a + len
             k3 == k + 1
             m3 == m + len - N
  <2>1. n = N * k3 + m3 /\ m3 \in 0 .. N - 1 /\ k3 \in Nat
    BY <1>2, <1>3
  <2> HIDE DEF n, k3, m3
  <2>2. n \div N = k3
    BY <2>1, QuotientIs
  <2>3. /\ N - 1 - m \in 0 .. len - 1
        /\ x + (N - 1 - m) = N * k + q
    BY <1>1, <1>2, <1>3
  <2> DEFINE y == x + (N - 1 - m)
  <2>4. y = N * k + q
    BY <2>3
  <2> HIDE DEF y
  <2>5. y % N = q
    BY <1>2, <2>4, QuotientIs
  <2> QED
    BY <2>2, <2>3, <2>5 DEF n, k3, y
<1>4. ASSUME m + len < N
      PROVE  (a + len) \div N = k /\ \A j \in 0 .. len - 1 : (x + j) % N # q
  <2>1. a + len = N * k + (m + len) /\ m + len \in 0 .. N - 1
    BY <1>2, <1>4
  <2>2. (a + len) \div N = k
    BY <1>2, <2>1, QuotientIs
  <2>3. ASSUME NEW j \in 0 .. len - 1, (x + j) % N = q
        PROVE  FALSE
    <3> DEFINE k2 == (x + j) \div N
    <3>1. x + j \in Nat
      OBVIOUS
    <3>2. k2 \in Nat /\ x + j = N * k2 + q
      BY <2>3, <3>1, Quotient
    <3> HIDE DEF k2
    <3>3. N * k2 = N * k + (m + j + 1 - N)
      BY <1>1, <1>2, <3>2
    <3>4. /\ 0 - N < m + j + 1 - N /\ m + j + 1 - N < 0
          /\ N * (k2 - k) = m + j + 1 - N
      BY <1>2, <1>4, <3>2, <3>3
    <3> DEFINE d == k2 - k
    <3>5. d \in Int /\ N * d = m + j + 1 - N
      BY <1>2, <3>2, <3>4
    <3> HIDE DEF d
    <3>6. d >= 0 => N * d >= 0
      BY <3>5
    <3>7. d <= -1 => N * d <= 0 - N
      BY <3>5
    <3> QED
      BY <1>2, <3>4, <3>5, <3>6, <3>7
  <2> QED
    BY <2>2, <2>3
<1>5. m + len >= N \/ m + len < N
  BY <1>2
<1>6. CASE m + len >= N
  BY <1>1a, <1>2, <1>3, <1>6 DEF Met
<1>7. CASE m + len < N
  BY <1>1a, <1>2, <1>4, <1>7 DEF Met
<1> QED
  BY <1>5, <1>6, <1>7

\* N numbers in a row meet it.
LEMMA FullLap ==
  ASSUME NEW N \in Nat \ {0}, NEW x \in Nat, NEW q \in 0 .. N - 1
  PROVE  Met(x, N, q, N)
<1> DEFINE k == x \div N
           m == x % N
<1>1. k \in Nat /\ m \in 0 .. N - 1 /\ x = N * k + m
  BY Quotient
<1> HIDE DEF k, m
<1>2. CASE m <= q
  <2> DEFINE y == x + (q - m)
  <2>1. q - m \in 0 .. N - 1 /\ y = N * k + q
    BY <1>1, <1>2
  <2> HIDE DEF y
  <2>2. y % N = q
    BY <1>1, <2>1, QuotientIs
  <2> QED
    BY <2>1, <2>2 DEF y, Met
<1>3. CASE q < m
  <2> DEFINE y == x + (q - m + N)
             k2 == k + 1
  <2>1. q - m + N \in 0 .. N - 1 /\ y = N * k2 + q /\ k2 \in Nat
    BY <1>1, <1>3
  <2> HIDE DEF y, k2
  <2>2. y % N = q
    BY <2>1, QuotientIs
  <2> QED
    BY <2>1, <2>2 DEF y, Met
<1> QED
  BY <1>1, <1>2, <1>3

\* A walk that is back at the start has made as many laps at each position.
LEMMA Closed ==
  ASSUME NEW N \in Nat \ {0}, NEW k \in Nat, NEW x, x = N * k, NEW q \in 0 .. N - 1
  PROVE  Laps(x, q, N) = k
<1> DEFINE m == N - 1 - q
           n == x + m
<1>1. m \in 0 .. N - 1
  OBVIOUS
<1> HIDE DEF m
<1>2. n = N * k + m
  BY <1>1
<1> HIDE DEF n
<1>3. n \div N = k
  BY <1>1, <1>2, QuotientIs
<1> QED
  BY <1>3 DEF Laps, n, m

LEMMA WholeLaps ==
  ASSUME NEW N \in Nat \ {0}, NEW i \in Nat, i % N = 0, NEW c \in Nat
  PROVE  /\ (i \div N) * c \in Nat
         /\ i * c = N * ((i \div N) * c)
<1> DEFINE t == i \div N
<1>1. t \in Nat /\ i = N * t + (i % N)
  BY Quotient
<1>2. i = N * t
  BY <1>1
<1> HIDE DEF t
<1>3. t * c \in Nat /\ i * c = N * (t * c)
  BY <1>1, <1>2
<1> QED
  BY <1>3 DEF t

\* What is one-to-one on 0 .. n - 1 reaches every number there: with a least
\* n for which it does not, the number missed and n - 1 can change places, and
\* what is left is one-to-one on 0 .. n - 2.
Injections(n) ==
  {f \in [0 .. n - 1 -> 0 .. n - 1] :
     \A x, y \in 0 .. n - 1 : f[x] = f[y] => x = y}

Misses(n) ==
  \E f \in Injections(n) : \E r \in 0 .. n - 1 : \A q \in 0 .. n - 1 : f[q] # r

LEMMA Reached == \A n \in Nat : ~Misses(n)
<1> SUFFICES ASSUME NEW n0 \in Nat, Misses(n0) PROVE FALSE
  OBVIOUS
<1> DEFINE T == {n \in Nat : Misses(n)}
<1>1. PICK n \in T : \A k \in T : n <= k
  <2>1. T \subseteq Nat /\ T # {}
    OBVIOUS
  <2> QED
    BY <2>1, NatMin
<1>2. n \in Nat /\ Misses(n) /\ (n > 0 => ~Misses(n - 1))
  BY <1>1
<1>3. PICK f \in Injections(n), r \in 0 .. n - 1 : \A q \in 0 .. n - 1 : f[q] # r
  BY <1>2 DEF Misses
<1> DEFINE m == n - 1
           g == [x \in 0 .. m - 1 |-> IF f[x] = m THEN r ELSE f[x]]
<1>4. /\ m \in Nat /\ m < n /\ r \in 0 .. m /\ 0 .. n - 1 = 0 .. m
      /\ f \in [0 .. m -> 0 .. m]
      /\ \A x, y \in 0 .. m : f[x] = f[y] => x = y
      /\ \A q \in 0 .. m : f[q] # r
  BY <1>2, <1>3 DEF Injections
<1>5. g \in Injections(m)
  <2> HIDE DEF m
  <2>0. m \in Nat /\ 0 .. m - 1 \subseteq 0 .. m /\ \A y \in 0 .. m : y # m => y \in 0 .. m - 1
    BY <1>4
  <2>1. ASSUME NEW x \in 0 .. m - 1
        PROVE  g[x] \in 0 .. m - 1 /\ x \in 0 .. m
    <3>1. x \in 0 .. m /\ x # m /\ m \in 0 .. m
      BY <1>4
    <3>2. f[x] \in 0 .. m /\ (f[x] = m => f[m] # m)
      BY <1>4, <3>1
    <3>3. g[x] = IF f[x] = m THEN r ELSE f[x]
      OBVIOUS
    <3>4. f[x] = m => r \in 0 .. m - 1
      BY <1>4, <2>0, <3>1
    <3> QED
      BY <2>0, <3>1, <3>2, <3>3, <3>4
  <2>2. ASSUME NEW x \in 0 .. m - 1, NEW y \in 0 .. m - 1, g[x] = g[y]
        PROVE  x = y
    <3>1. x \in 0 .. m /\ y \in 0 .. m
      BY <2>0
    <3>2. /\ g[x] = IF f[x] = m THEN r ELSE f[x]
          /\ g[y] = IF f[y] = m THEN r ELSE f[y]
      OBVIOUS
    <3>3. f[x] # r /\ f[y] # r
      BY <1>4, <3>1
    <3>4. f[x] = f[y]
      BY <2>2, <3>2, <3>3
    <3> QED
      BY <1>4, <3>1, <3>4
  <2> QED
    BY <2>1, <2>2 DEF Injections
<1>6. \E t \in 0 .. m - 1 : \A q \in 0 .. m - 1 : g[q] # t
  <2> HIDE DEF m
  <2>1. f[m] \in 0 .. m /\ m \in 0 .. m
    BY <1>4
  <2>2. CASE f[m] = m
    <3>1. r \in 0 .. m - 1
      BY <1>4, <2>1, <2>2
    <3>2. ASSUME NEW q \in 0 .. m - 1 PROVE g[q] # r
      BY <1>4, <2>1, <2>2
    <3> QED
      BY <3>1, <3>2
  <2>3. CASE f[m] # m
    <3>1. f[m] \in 0 .. m - 1 /\ f[m] # r
      BY <1>4, <2>1, <2>3
    <3>2. ASSUME NEW q \in 0 .. m - 1 PROVE g[q] # f[m]
      BY <1>4, <2>1, <3>1
    <3> QED
      BY <3>1, <3>2
  <2> QED
    BY <2>2, <2>3
<1>7. Misses(m)
  BY <1>5, <1>6 DEF Misses
<1> QED
  BY <1>2, <1>4, <1>7

\* The numbers each iteration takes from the cyclic walk over the order.
Length == IF BatchSize < NSeq THEN BatchSize ELSE NSeq

\* How often iterations before i have taken position q, up to a number that is
\* the same for every position: the walk has come to i * BatchSize.
Taken(i, q) == Laps(i * BatchSize, q, NSeq)

LEMMA PositionsAre ==
  ASSUME NEW i \in Nat, NEW q \in Loop!Seqs
  PROVE  q \in Loop!Positions(i) <=> Met(i * BatchSize, Length, q, NSeq)
<1>1. NSeq \in Nat \ {0} /\ BatchSize \in Nat \ {0}
  BY LoopAssumption
<1>2. {j \in 0 .. BatchSize - 1 : j < NSeq} = 0 .. Length - 1
  BY <1>1 DEF Length
<1> QED
  BY <1>2 DEF Loop!Positions, Met

LEMMA PositionsInside == ASSUME NEW i \in Nat PROVE Loop!Positions(i) \subseteq Loop!Seqs
<1>1. ASSUME NEW j \in 0 .. BatchSize - 1 PROVE (i * BatchSize + j) % NSeq \in 0 .. NSeq - 1
  <2> DEFINE n == i * BatchSize + j
  <2>1. n \in Nat /\ NSeq \in Nat \ {0}
    BY LoopAssumption
  <2> HIDE DEF n
  <2>2. n % NSeq \in 0 .. NSeq - 1
    BY <2>1, Quotient
  <2> QED
    BY <2>2 DEF n
<1> QED
  BY <1>1 DEF Loop!Positions, Loop!Seqs

\* One more iteration takes the positions of its batch, and no other.
LEMMA TakenNext ==
  ASSUME BatchSize < NSeq, NEW i \in Nat, NEW q \in Loop!Seqs
  PROVE  /\ Taken(i, q) \in Nat
         /\ Taken(i + 1, q) = Taken(i, q) + IF q \in Loop!Positions(i) THEN 1 ELSE 0
<1>1. NSeq \in Nat \ {0} /\ q \in 0 .. NSeq - 1 /\ BatchSize \in 1 .. NSeq
  BY LoopAssumption DEF Loop!Seqs
<1> DEFINE x == i * BatchSize
<1>2. x \in Nat /\ Length = BatchSize /\ (i + 1) * BatchSize = x + BatchSize
  BY <1>1 DEF Length
<1>3. /\ q \in Loop!Positions(i) <=> Met(x, BatchSize, q, NSeq)
      /\ Taken(i, q) = Laps(x, q, NSeq) /\ Taken(i + 1, q) = Laps(x + BatchSize, q, NSeq)
  BY <1>2, PositionsAre DEF Taken
<1> HIDE DEF x
<1>4. /\ Laps(x, q, NSeq) \in Nat
      /\ Laps(x + BatchSize, q, NSeq)
           = Laps(x, q, NSeq) + IF Met(x, BatchSize, q, NSeq) THEN 1 ELSE 0
  BY <1>1, <1>2, Turns
<1> QED
  BY <1>3, <1>4

\* Where the order is shuffled every position was taken equally often.
LEMMA TakenClosed ==
  ASSUME NEW i \in Nat, i % NSeq = 0, NEW q \in Loop!Seqs
  PROVE  Taken(i, q) = (i \div NSeq) * BatchSize
<1>1. NSeq \in Nat \ {0} /\ BatchSize \in Nat /\ q \in 0 .. NSeq - 1
  BY LoopAssumption DEF Loop!Seqs
<1> DEFINE x == i * BatchSize
           k == (i \div NSeq) * BatchSize
<1>2. k \in Nat /\ x = NSeq * k
  BY <1>1, WholeLaps, Zenon
<1> HIDE DEF x, k
<1>3. Laps(x, q, NSeq) = k
  BY <1>1, <1>2, Closed, Zenon
<1> QED
  BY <1>3 DEF Taken, x, k

\* A batch as long as the data takes every position: NSeq numbers in a row
\* are one lap.
LEMMA LongBatch ==
  ASSUME NSeq <= BatchSize, NEW i \in Nat, NEW q \in Loop!Seqs
  PROVE  q \in Loop!Positions(i)
<1>1. NSeq \in Nat \ {0} /\ BatchSize \in Nat \ {0} /\ q \in 0 .. NSeq - 1
      /\ NSeq \in 1 .. NSeq
  BY LoopAssumption DEF Loop!Seqs
<1> DEFINE x == i * BatchSize
<1>2. x \in Nat /\ Length = NSeq
  BY <1>1 DEF Length
<1>3. q \in Loop!Positions(i) <=> Met(x, NSeq, q, NSeq)
  BY <1>2, PositionsAre
<1> HIDE DEF x
<1>4. Met(x, NSeq, q, NSeq)
  BY <1>1, <1>2, FullLap
<1> QED
  BY <1>3, <1>4

\* The sequence at a position was used as often as the walk has taken it since
\* the last shuffle; batches as long as the data use every sequence.
Level(base) ==
  \A q \in Loop!Seqs : idx[q] \in conf.trainable => used[idx[q]] = base + Taken(turn, q)

Even == \A q, r \in conf.trainable : used[q] = used[r]

FairInv ==
  /\ turn \in Nat /\ idx \in Loop!Orders /\ conf.trainable \subseteq Loop!Seqs
  /\ used \in [Loop!Seqs -> Nat]
  /\ turn <= MaxSteps => IF BatchSize < NSeq THEN \E base \in Int : Level(base) ELSE Even

\* Every sequence is somewhere in the order.
LEMMA Placed ==
  ASSUME NEW order \in Loop!Orders, NEW r \in Loop!Seqs
  PROVE  \E q \in Loop!Seqs : order[q] = r
<1>1. NSeq \in Nat /\ Loop!Seqs = 0 .. NSeq - 1
  BY LoopAssumption DEF Loop!Seqs
<1>2. order \in Injections(NSeq)
  BY <1>1 DEF Injections, Loop!Orders, Loop!IsInjective
<1>3. ~Misses(NSeq)
  BY <1>1, Reached
<1>4. r \in 0 .. NSeq - 1
  BY <1>1
<1>5. \E q \in 0 .. NSeq - 1 : order[q] = r
  BY <1>2, <1>3, <1>4, Zenon DEF Misses
<1> QED
  BY <1>1, <1>5

\* A level order is even where it may be shuffled, and every order is then level.
LEMMA EvenAtShuffle ==
  ASSUME FairInv, turn <= MaxSteps, turn % NSeq = 0
  PROVE  Even
<1>1. CASE BatchSize < NSeq
  <2>1. PICK base \in Int : Level(base)
    BY <1>1 DEF FairInv
  <2> DEFINE k == (turn \div NSeq) * BatchSize
  <2>2. ASSUME NEW r \in conf.trainable PROVE used[r] = base + k
    <3>1. PICK q \in Loop!Seqs : idx[q] = r
      BY Placed DEF FairInv
    <3>2. Taken(turn, q) = k
      BY TakenClosed DEF FairInv
    <3> QED
      BY <2>1, <3>1, <3>2 DEF Level
  <2> QED
    BY <2>2 DEF Even
<1>2. CASE ~(BatchSize < NSeq)
  BY <1>2 DEF FairInv
<1> QED
  BY <1>1, <1>2

LEMMA LevelAtShuffle ==
  ASSUME FairInv, turn % NSeq = 0, Even, NEW order \in Loop!Orders
  PROVE  \E base \in Int : \A q \in Loop!Seqs :
           order[q] \in conf.trainable => used[order[q]] = base + Taken(turn, q)
<1> DEFINE k == (turn \div NSeq) * BatchSize
<1>1. \A q \in Loop!Seqs : Taken(turn, q) = k
  BY TakenClosed DEF FairInv
<1>2. k \in Int
  BY LoopAssumption, WholeLaps DEF FairInv
<1> HIDE DEF k
<1>3. CASE conf.trainable = {}
  BY <1>3
<1>4. CASE conf.trainable # {}
  <2>1. PICK r \in conf.trainable : TRUE
    BY <1>4
  <2> DEFINE base == used[r] - k
  <2>2. base \in Int /\ used[r] = base + k
    BY <1>2 DEF FairInv
  <2> HIDE DEF base
  <2> QED
    BY <1>1, <2>2 DEF Even
<1> QED
  BY <1>3, <1>4

\* An iteration: whatever order it has, it uses what the walk takes.
LEMMA FairIterate == ASSUME FairInv, Loop!Iterate PROVE FairInv'
<1>1. /\ turn \in Nat /\ turn < MaxSteps /\ turn' = turn + 1 /\ conf' = conf
      /\ MaxSteps \in Nat
      /\ idx \in Loop!Orders /\ conf.trainable \subseteq Loop!Seqs
      /\ used \in [Loop!Seqs -> Nat]
  BY LoopAssumption DEF Loop!Iterate, FairInv
<1>2. idx' \in Loop!Orders /\ (turn % NSeq # 0 => idx' = idx)
  BY <1>1 DEF Loop!Iterate, Loop!ShuffleAt
<1> DEFINE B == Loop!Batch(turn, idx')
<1>3. used' = [q \in Loop!Seqs |-> IF q \in B THEN used[q] + 1 ELSE used[q]]
  <2>1. CASE B = {}
    BY <1>1, <2>1 DEF Loop!Iterate
  <2>2. CASE B # {}
    BY <2>2 DEF Loop!Iterate
  <2> QED
    BY <2>1, <2>2
<1>4. used' \in [Loop!Seqs -> Nat]
  BY <1>1, <1>3
<1>5. ASSUME NEW q \in Loop!Seqs, idx'[q] \in conf.trainable
      PROVE  idx'[q] \in B <=> q \in Loop!Positions(turn)
  <2>1. idx'[q] \in B <=> \E p \in Loop!Positions(turn) : idx'[p] = idx'[q]
    BY <1>5 DEF Loop!Batch
  <2>2. Loop!Positions(turn) \subseteq Loop!Seqs
    BY <1>1, PositionsInside
  <2>3. \A p \in Loop!Seqs : idx'[p] = idx'[q] => p = q
    BY <1>2 DEF Loop!Orders, Loop!IsInjective
  <2> QED
    BY <2>1, <2>2, <2>3
<1> HIDE DEF B
<1>6. CASE BatchSize < NSeq
  <2>1. PICK base \in Int : \A q \in Loop!Seqs :
          idx'[q] \in conf.trainable => used[idx'[q]] = base + Taken(turn, q)
    <3>1. CASE turn % NSeq = 0
      <4>1. Even
        BY <1>1, <3>1, EvenAtShuffle
      <4>2. idx' \in Loop!Orders /\ turn % NSeq = 0
        BY <1>2, <3>1
      <4> QED
        BY <4>1, <4>2, LevelAtShuffle
    <3>2. CASE turn % NSeq # 0
      <4>1. PICK base \in Int : Level(base)
        BY <1>1, <1>6 DEF FairInv
      <4>2. idx' = idx
        BY <1>2, <3>2
      <4> QED
        BY <4>1, <4>2 DEF Level
    <3> QED
      BY <3>1, <3>2
  <2>2. ASSUME NEW q \in Loop!Seqs, idx'[q] \in conf.trainable
        PROVE  used'[idx'[q]] = base + Taken(turn + 1, q)
    <3>1. /\ Taken(turn, q) \in Nat
          /\ Taken(turn + 1, q) = Taken(turn, q) + IF q \in Loop!Positions(turn) THEN 1 ELSE 0
      BY <1>1, <1>6, TakenNext
    <3>2. used'[idx'[q]] = IF q \in Loop!Positions(turn) THEN used[idx'[q]] + 1
                                                         ELSE used[idx'[q]]
      BY <1>1, <1>3, <1>5, <2>2
    <3>3. used[idx'[q]] = base + Taken(turn, q)
      BY <2>1, <2>2
    <3> QED
      BY <3>1, <3>2, <3>3
  <2>3. Level(base)'
    BY <1>1, <2>2 DEF Level, Taken
  <2> QED
    BY <1>1, <1>2, <1>4, <1>6, <2>3 DEF FairInv, Loop!Orders, Loop!Seqs
<1>7. CASE ~(BatchSize < NSeq)
  <2>1. ASSUME NEW r \in conf.trainable PROVE used'[r] = used[r] + 1
    <3>1. PICK q \in Loop!Seqs : idx'[q] = r
      BY <1>1, <1>2, Placed
    <3>2. q \in Loop!Positions(turn)
      BY <1>1, <1>7, LoopAssumption, LongBatch
    <3> QED
      BY <1>1, <1>3, <1>5, <3>1, <3>2
  <2>2. Even
    BY <1>1, <1>7 DEF FairInv
  <2>3. Even'
    BY <1>1, <2>1, <2>2 DEF Even
  <2> QED
    BY <1>1, <1>2, <1>4, <1>7, <2>3 DEF FairInv, Loop!Orders, Loop!Seqs
<1> QED
  BY <1>6, <1>7

LEMMA FairInitInv == ASSUME Loop!Init PROVE FairInv
<1>1. /\ turn = 0 /\ conf \in Configs /\ idx = [q \in Loop!Seqs |-> q]
      /\ used = [q \in Loop!Seqs |-> 0] /\ NSeq \in Nat \ {0} /\ BatchSize \in Nat \ {0}
      /\ conf.trainable \subseteq Loop!Seqs
  BY LoopAssumption DEF Loop!Init, Loop!Seqs
<1>2. idx \in Loop!Orders
  BY <1>1 DEF Loop!Orders, Loop!IsInjective
<1>3. Even
  BY <1>1 DEF Even
<1>4. ASSUME NEW q \in Loop!Seqs PROVE Taken(0, q) = 0
  <2>1. q \in 0 .. NSeq - 1 /\ 0 * BatchSize = NSeq * 0 /\ 0 \in Nat
    BY <1>1 DEF Loop!Seqs
  <2> QED
    BY <1>1, <2>1, Closed DEF Taken
<1>5. Level(0)
  BY <1>1, <1>4 DEF Level
<1> QED
  BY <1>1, <1>2, <1>3, <1>5 DEF FairInv

LEMMA FairNextInv == FairInv /\ [Loop!Next]_(Loop!vars) => FairInv'
<1>1. ASSUME FairInv, Loop!Iterate PROVE FairInv'
  BY <1>1, FairIterate
<1>2. ASSUME FairInv, Loop!LastSave PROVE FairInv'
  BY <1>2, LoopAssumption DEF Loop!LastSave, FairInv, Loop!Orders, Loop!Seqs
<1>3. ASSUME FairInv, UNCHANGED <<conf, turn, idx, used>> PROVE FairInv'
  BY <1>3 DEF FairInv, Level, Even, Taken, Loop!Orders, Loop!Seqs
<1> QED
  BY <1>1, <1>2, <1>3 DEF Loop!Next, Loop!vars, Loop!BeginSave, Loop!EndSave

\* Whenever the order may be shuffled, every sequence with trained tokens was
\* in as many batches as every other, for any sizes of data and batches.
THEOREM SamplingIsFair == TrainingSpec => []FairSampling
<1> DEFINE I == program = "loop" => FairInv
<1>1. TrainingInit => I
  BY FairInitInv DEF TrainingInit
<1>2. I /\ [TrainingNext]_<<program, vars, loopVars, shardVars>> => I'
  <2> SUFFICES ASSUME I, [TrainingNext]_<<program, vars, loopVars, shardVars>>,
                      program' = "loop"
               PROVE  FairInv'
    OBVIOUS
  <2>1. program = "loop" /\ FairInv /\ (Loop!Next \/ UNCHANGED loopVars)
    BY DEF TrainingNext
  <2>2. [Loop!Next]_(Loop!vars)
    BY <2>1 DEF loopVars, Loop!vars
  <2> QED
    BY <2>1, <2>2, FairNextInv
<1>3. I => FairSampling
  BY EvenAtShuffle DEF FairSampling, Loop!FairSampling, Even
<1> QED
  BY <1>1, <1>2, <1>3, PTL DEF TrainingSpec

-----------------------------------------------------------------------------
(***************************************************************************)
(* xshard_adapt.  The tool walks the shards in order (Ahead): what it has  *)
(* marked lies behind it and is touched no more, and has an entry at most  *)
(* of this visit; so a byte that waits in the buffer (InBuffer) or is on   *)
(* the disk belongs to a shard that is complete as far as the tool can     *)
(* know: a flush that failed is not seen by it.                            *)
(***************************************************************************)

IsSequence(x) == \E S : x \in Seq(S)

AdaptTypeOK ==
  /\ Adapt!Shards \subseteq Nat /\ shard \in Nat
  /\ DOMAIN data = Adapt!Shards /\ DOMAIN state = Adapt!Shards /\ DOMAIN ledger = Adapt!Shards
  /\ \A k \in Adapt!Shards :
       DOMAIN data[k] = {"torn", "applied"} /\ IsSequence(data[k].applied)

\* The bytes of the shards the tool has not passed are as it found them, and
\* nothing is entered for them.
Ahead ==
  stage # "idle" =>
    \A k \in Adapt!Shards : k >= shard => state[k] = before[k] /\ ledger[k] = "none"

Updated(k) == k \in unflushed \/ (~data[k].torn /\ data[k].applied # << >>)
Complete(k) == Updated(k) /\ ledger[k] \in {"committed", "none"}

\* A byte in the buffer is one of a shard behind.
InBuffer ==
  \A byte \in buffered :
    byte[1] \in Adapt!Shards /\ byte[1] < shard /\ (byte[2] = Adapt!Trained => Complete(byte[1]))

\* From the write to the mark the tool stays at one shard.
AtShard ==
  /\ stage \in {"write", "flush", "mark"} => shard \in Adapt!Shards
  /\ stage = "mark" => Updated(shard)

\* Between two runs nothing is in the buffer.
Idle == stage = "idle" => buffered = {}

Safe ==
  \A k \in Adapt!Shards : state[k] = Adapt!Trained /\ before[k] # Adapt!Trained => Complete(k)

AdaptIInv == AdaptTypeOK /\ Ahead /\ InBuffer /\ AtShard /\ Idle /\ Safe

-----------------------------------------------------------------------------
\* Reading on flushes the byte in the buffer: no other byte changes.
LEMMA FlushedBytes ==
  ASSUME AdaptIInv
  PROVE  /\ DOMAIN Adapt!Flushed = Adapt!Shards
         /\ \A k \in Adapt!Shards :
              Adapt!Flushed[k] = Adapt!Trained /\ before[k] # Adapt!Trained => Complete(k)
         /\ \A k \in Adapt!Shards : k >= shard => Adapt!Flushed[k] = state[k]
<1>1. ASSUME NEW k \in Adapt!Shards, \E byte \in buffered : byte[1] = k
      PROVE  /\ ~(k >= shard)
             /\ Adapt!Flushed[k] = Adapt!Trained => Complete(k)
  <2> DEFINE byte == CHOOSE byte \in buffered : byte[1] = k
  <2>1. byte \in buffered /\ byte[1] = k
    BY <1>1
  <2>2. Adapt!Flushed[k] = byte[2]
    BY <1>1 DEF Adapt!Flushed
  <2> HIDE DEF byte
  <2> QED
    BY <2>1, <2>2 DEF AdaptIInv, InBuffer, AdaptTypeOK
<1>2. ASSUME NEW k \in Adapt!Shards, ~\E byte \in buffered : byte[1] = k
      PROVE  Adapt!Flushed[k] = state[k]
  BY <1>2 DEF Adapt!Flushed
<1> QED
  BY <1>1, <1>2 DEF AdaptIInv, Safe, Adapt!Flushed

-----------------------------------------------------------------------------
(* The invariant.                                                          *)

LEMMA AdaptInitInv == Adapt!ModelAssumption /\ Adapt!Init => AdaptIInv
<1> SUFFICES ASSUME Adapt!ModelAssumption, Adapt!Init PROVE AdaptIInv
  OBVIOUS
<1>1. Adapt!Shards \subseteq Nat
  BY DEF Adapt!Init, Adapt!ModelAssumption, Adapt!Shards
<1>2. \A k \in Adapt!Shards : DOMAIN data[k] = {"torn", "applied"} /\ data[k].applied = << >>
  BY DEF Adapt!Init
<1>3. AdaptTypeOK
  <2>1. IsSequence(<< >>)
    BY EmptySeq DEF IsSequence
  <2> QED
    BY <1>1, <1>2, <2>1 DEF Adapt!Init, AdaptTypeOK
<1>4. \A k \in Adapt!Shards : state[k] # Adapt!Trained
  BY DEF Adapt!Init, Adapt!Pending, Adapt!Trained
<1> QED
  BY <1>3, <1>4 DEF Adapt!Init, AdaptIInv, Ahead, InBuffer, AtShard, Idle, Safe

LEMMA BackwardInv == ASSUME AdaptIInv, Adapt!Backward PROVE AdaptIInv'
<1>1. UNCHANGED <<model, shard, stage, data, state, buffered, ledger, before, unflushed>>
  BY DEF Adapt!Backward
<1> QED
  BY <1>1 DEF AdaptIInv, AdaptTypeOK, Ahead, InBuffer, AtShard, Safe, Complete, Updated,
              Adapt!Shards, Idle, IsSequence

LEMMA StartInv == ASSUME AdaptIInv, Adapt!StartAdapt PROVE AdaptIInv'
<1>1. /\ stage' = "scan" /\ shard' = 0 /\ before' = state
      /\ ledger' = [k \in Adapt!Shards |-> "none"]
      /\ UNCHANGED <<model, data, state, buffered>>
  BY DEF Adapt!StartAdapt
<1>2. buffered = {}
  BY DEF Adapt!StartAdapt, AdaptIInv, Idle
<1> QED
  BY <1>1, <1>2 DEF AdaptIInv, AdaptTypeOK, Ahead, InBuffer, AtShard, Safe, Complete, Updated,
                    Adapt!Shards, Idle

LEMMA ExitInv ==
  ASSUME AdaptIInv, Adapt!Exit, UNCHANGED <<model, data, ledger, before, unflushed>>,
         \/ state' = state
         \/ state' = Adapt!Flushed
  PROVE  AdaptIInv'
<1>1. /\ DOMAIN state' = Adapt!Shards
      /\ \A k \in Adapt!Shards :
           state'[k] = Adapt!Trained /\ before[k] # Adapt!Trained => Complete(k)
  BY FlushedBytes DEF AdaptIInv, AdaptTypeOK, Safe
<1>2. AdaptTypeOK'
  BY <1>1 DEF AdaptIInv, AdaptTypeOK, Adapt!Exit, Adapt!Shards
<1> QED
  BY <1>1, <1>2 DEF AdaptIInv, Adapt!Exit, Ahead, InBuffer, AtShard, Safe, Complete, Updated,
                    Adapt!Shards, Idle

LEMMA SkipInv == ASSUME AdaptIInv, Adapt!Skip PROVE AdaptIInv'
<1>1. /\ stage = "scan" /\ shard' = shard + 1
      /\ UNCHANGED <<model, stage, data, state, buffered, ledger, before, unflushed>>
  BY DEF Adapt!Skip
<1> QED
  BY <1>1 DEF AdaptIInv, AdaptTypeOK, Ahead, InBuffer, AtShard, Safe, Complete, Updated,
              Adapt!Shards, Idle

LEMMA Entered ==
  ASSUME AdaptIInv, shard \in Adapt!Shards, NEW status, Adapt!Enter(status)
  PROVE  /\ DOMAIN ledger' = Adapt!Shards
         /\ \A k \in Adapt!Shards \ {shard} : ledger'[k] = ledger[k]
         /\ ledger'[shard] \in {status, ledger[shard]}
BY DEF AdaptIInv, AdaptTypeOK, Adapt!Enter

\* The tool leaves a shard behind: whatever it wrote to the ledger, the bytes
\* of the shards before it stand.
LEMMA PassInv ==
  ASSUME AdaptIInv, stage # "idle", shard \in Adapt!Shards, shard' = shard + 1,
         stage' = "scan",
         NEW status, Adapt!Enter(status),
         UNCHANGED <<model, data, before, unflushed>>,
         state' = state \/ state' = Adapt!Flushed,
         \A byte \in buffered' :
           /\ byte[1] = shard
           /\ byte[2] = Adapt!Trained => Updated(shard) /\ status = "committed"
  PROVE  AdaptIInv'
<1>1. /\ DOMAIN state' = Adapt!Shards
      /\ \A k \in Adapt!Shards :
           state'[k] = Adapt!Trained /\ before[k] # Adapt!Trained => Complete(k)
      /\ \A k \in Adapt!Shards : k >= shard => state'[k] = before[k]
  BY FlushedBytes DEF AdaptIInv, AdaptTypeOK, Safe, Ahead
<1>2. /\ DOMAIN ledger' = Adapt!Shards
      /\ \A k \in Adapt!Shards \ {shard} : ledger'[k] = ledger[k]
      /\ ledger'[shard] \in {status, ledger[shard]} /\ ledger[shard] = "none"
  <2>1. ledger[shard] = "none"
    BY DEF AdaptIInv, AdaptTypeOK, Ahead
  <2> QED
    BY <2>1, Entered
<1>3. AdaptTypeOK'
  BY <1>1, <1>2 DEF AdaptIInv, AdaptTypeOK, Adapt!Shards, IsSequence
<1>4. Ahead'
  BY <1>1, <1>2 DEF AdaptIInv, AdaptTypeOK, Ahead, Adapt!Shards
<1>5. InBuffer'
  <2> SUFFICES ASSUME NEW byte \in buffered'
               PROVE  /\ byte[1] \in Adapt!Shards /\ byte[1] < shard + 1
                      /\ byte[2] = Adapt!Trained => Complete(byte[1])'
    BY DEF InBuffer, Adapt!Shards, Adapt!Trained
  <2>1. byte[1] = shard /\ (byte[2] = Adapt!Trained => Updated(shard) /\ status = "committed")
    OBVIOUS
  <2>2. \A k : Updated(k)' <=> Updated(k)
    BY DEF Updated
  <2>3. byte[1] \in Adapt!Shards /\ byte[1] < shard + 1
    BY <2>1 DEF AdaptIInv, AdaptTypeOK
  <2>4. ASSUME byte[2] = Adapt!Trained PROVE Complete(byte[1])'
    <3>1. Updated(shard) /\ ledger'[shard] \in {"committed", "none"}
      BY <1>2, <2>1, <2>4
    <3>2. Updated(byte[1])' /\ ledger'[byte[1]] \in {"committed", "none"}
      BY <2>1, <2>2, <3>1
    <3> QED
      BY <3>2 DEF Complete
  <2> QED
    BY <2>3, <2>4
<1>6. AtShard' /\ Idle'
  BY DEF AtShard, Idle
<1>7. ASSUME NEW k \in Adapt!Shards, state'[k] = Adapt!Trained, before[k] # Adapt!Trained
      PROVE  Complete(k)'
  <2>1. shard \in Nat /\ shard >= shard
    BY DEF AdaptIInv, AdaptTypeOK
  <2>2. k # shard /\ Complete(k)
    BY <1>1, <1>7, <2>1
  <2> QED
    BY <1>2, <2>2 DEF Complete, Updated
<1>8. Safe'
  BY <1>7 DEF Safe, Adapt!Shards
<1> QED
  BY <1>3, <1>4, <1>5, <1>6, <1>8 DEF AdaptIInv

\* Giving up: the byte, if it is written, says so.
LEMMA GiveUpInv ==
  ASSUME AdaptIInv, stage # "idle", shard \in Adapt!Shards, Adapt!GiveUp, stage' = "scan",
         UNCHANGED <<model, data, before, unflushed>>,
         state' = state \/ state' = Adapt!Flushed
  PROVE  AdaptIInv'
<1>1. \A byte \in buffered' : byte[1] = shard /\ byte[2] # Adapt!Trained
  BY DEF Adapt!GiveUp, Adapt!Failed, Adapt!Trained
<1>2. Adapt!Enter(Adapt!Failed) /\ shard' = shard + 1
  BY DEF Adapt!GiveUp
<1> QED
  BY <1>1, <1>2, PassInv

LEMMA ComputeInv == ASSUME AdaptIInv, Adapt!Compute PROVE AdaptIInv'
<1>1. /\ stage = "scan" /\ shard \in Adapt!Shards
      /\ state' = state \/ state' = Adapt!Flushed
      /\ UNCHANGED <<model, data, before, unflushed>>
  BY DEF Adapt!Compute, Adapt!Flush
<1>2. CASE Adapt!GiveUp /\ stage' = stage
  BY <1>1, <1>2, GiveUpInv
<1>3. CASE Adapt!Enter("dry_run") /\ shard' = shard + 1 /\ buffered' = {} /\ stage' = stage
  BY <1>1, <1>3, PassInv
<1>4. CASE stage' = "write" /\ buffered' = {} /\ UNCHANGED <<shard, ledger>>
  BY <1>1, <1>4, FlushedBytes
     DEF AdaptIInv, AdaptTypeOK, Ahead, InBuffer, AtShard, Safe, Complete, Updated,
         Adapt!Shards, Idle, IsSequence
<1> QED
  BY <1>2, <1>3, <1>4 DEF Adapt!Compute

\* A write begins at a shard whose byte is not set in this run.
LEMMA WriteInv == ASSUME AdaptIInv, Adapt!WriteShard PROVE AdaptIInv'
<1>1. /\ stage = "write" /\ stage' = "flush" /\ shard \in Adapt!Shards
      /\ data' = [data EXCEPT ![shard].torn = TRUE]
      /\ UNCHANGED <<model, shard, state, buffered, ledger, before, unflushed>>
  BY DEF Adapt!WriteShard, AdaptIInv, AtShard
<1>2. /\ DOMAIN data' = Adapt!Shards
      /\ \A k \in Adapt!Shards :
           DOMAIN data'[k] = {"torn", "applied"} /\ data'[k].applied = data[k].applied
      /\ \A k \in Adapt!Shards \ {shard} : data'[k] = data[k]
  BY <1>1 DEF AdaptIInv, AdaptTypeOK
<1>3. AdaptTypeOK'
  BY <1>1, <1>2 DEF AdaptIInv, AdaptTypeOK, Adapt!Shards, IsSequence
<1>4. \A k \in Adapt!Shards \ {shard} : Complete(k) => Complete(k)'
  BY <1>1, <1>2 DEF Complete, Updated
<1>5. Ahead' /\ AtShard' /\ Idle'
  BY <1>1 DEF AdaptIInv, Ahead, AtShard, Idle, Adapt!Shards
<1>6. InBuffer'
  BY <1>1, <1>4 DEF AdaptIInv, InBuffer, AdaptTypeOK, Adapt!Shards
<1>7. Safe'
  BY <1>1, <1>4 DEF AdaptIInv, Safe, Ahead, AdaptTypeOK, Adapt!Shards
<1> QED
  BY <1>3, <1>5, <1>6, <1>7 DEF AdaptIInv

LEMMA FlushInv == ASSUME AdaptIInv, Adapt!FlushShard PROVE AdaptIInv'
<1>1. stage = "flush" /\ shard \in Adapt!Shards /\ UNCHANGED <<model, state, before>>
  BY DEF Adapt!FlushShard, AdaptIInv, AtShard
<1>2. ASSUME NEW g,
             data' = [data EXCEPT ![shard] = [torn |-> FALSE, applied |-> Append(@.applied, g)]],
             stage' = "mark", UNCHANGED <<buffered, ledger, unflushed, shard>>
      PROVE  AdaptIInv'
  <2>1. PICK S : data[shard].applied \in Seq(S)
    BY <1>1 DEF AdaptIInv, AdaptTypeOK, IsSequence
  <2> DEFINE longer == Append(data[shard].applied, g)
  <2>2. longer \in Seq(S \cup {g}) /\ longer # << >>
    <3>1. data[shard].applied \in Seq(S \cup {g})
      BY <2>1
    <3> QED
      BY <3>1, AppendProperties
  <2>3. /\ data'[shard] = [torn |-> FALSE, applied |-> longer] /\ DOMAIN data' = Adapt!Shards
        /\ \A k \in Adapt!Shards \ {shard} : data'[k] = data[k]
    BY <1>1, <1>2 DEF AdaptIInv, AdaptTypeOK
  <2> HIDE DEF longer
  <2>4. IsSequence(data'[shard].applied)
    BY <2>2, <2>3 DEF IsSequence
  <2>5. AdaptTypeOK'
    BY <1>1, <1>2, <2>3, <2>4 DEF AdaptIInv, AdaptTypeOK, Adapt!Shards, IsSequence
  <2>6. \A k \in Adapt!Shards \ {shard} : Complete(k) => Complete(k)'
    BY <1>2, <2>3 DEF Complete, Updated
  <2>7. Ahead' /\ AtShard' /\ Idle'
    BY <1>1, <1>2, <2>2, <2>3 DEF AdaptIInv, Ahead, AtShard, Updated, Idle, Adapt!Shards
  <2>8. InBuffer'
    BY <1>1, <1>2, <2>6 DEF AdaptIInv, InBuffer, AdaptTypeOK, Adapt!Shards
  <2>9. Safe'
    BY <1>1, <1>2, <2>6 DEF AdaptIInv, Safe, Ahead, AdaptTypeOK, Adapt!Shards
  <2> QED
    BY <2>5, <2>7, <2>8, <2>9 DEF AdaptIInv
<1>3. CASE unflushed' = unflushed \cup {shard} /\ stage' = "mark"
           /\ UNCHANGED <<data, buffered, ledger, shard>>
  <2>1. \A k : Complete(k) => Complete(k)'
    BY <1>3 DEF Complete, Updated
  <2>2. AdaptTypeOK'
    BY <1>1, <1>3 DEF AdaptIInv, AdaptTypeOK, Adapt!Shards, IsSequence
  <2>3. Ahead' /\ AtShard' /\ Idle'
    BY <1>1, <1>3 DEF AdaptIInv, Ahead, AtShard, Updated, Idle, Adapt!Shards
  <2>4. InBuffer' /\ Safe'
    BY <1>1, <1>3, <2>1 DEF AdaptIInv, InBuffer, Safe, Adapt!Shards
  <2> QED
    BY <2>2, <2>3, <2>4 DEF AdaptIInv
<1>4. CASE Adapt!GiveUp /\ stage' = "scan" /\ UNCHANGED <<data, unflushed>>
  BY <1>1, <1>4, GiveUpInv
<1> QED
  BY <1>2, <1>3, <1>4 DEF Adapt!FlushShard

\* The byte waits in the buffer of a shard that is whole, as far as the tool
\* can know.
LEMMA MarkInv == ASSUME AdaptIInv, Adapt!MarkTrained PROVE AdaptIInv'
<1>1. /\ stage = "mark" /\ shard \in Adapt!Shards /\ Adapt!Enter("committed")
      /\ buffered' = {<<shard, Adapt!Trained>>} /\ shard' = shard + 1 /\ stage' = "scan"
      /\ UNCHANGED <<model, data, state, before, unflushed>>
  BY DEF Adapt!MarkTrained, AdaptIInv, AtShard
<1>2. Updated(shard)
  BY <1>1 DEF AdaptIInv, AtShard
<1>3. \A byte \in buffered' : byte[1] = shard
  BY <1>1
<1> QED
  BY <1>1, <1>2, <1>3, PassInv

LEMMA AdaptNextInv == AdaptIInv /\ [Adapt!Next]_(Adapt!vars) => AdaptIInv'
<1> SUFFICES ASSUME AdaptIInv, [Adapt!Next]_(Adapt!vars) PROVE AdaptIInv'
  OBVIOUS
<1>1. CASE Adapt!Backward
  BY <1>1, BackwardInv
<1>2. CASE Adapt!StartAdapt
  BY <1>2, StartInv
<1>3. CASE Adapt!Finish
  BY <1>3, ExitInv DEF Adapt!Finish, Adapt!Flush
<1>4. CASE Adapt!Skip
  BY <1>4, SkipInv
<1>5. CASE Adapt!Compute
  BY <1>5, ComputeInv
<1>6. CASE Adapt!WriteShard
  BY <1>6, WriteInv
<1>7. CASE Adapt!FlushShard
  BY <1>7, FlushInv
<1>8. CASE Adapt!MarkTrained
  BY <1>8, MarkInv
<1>9. CASE Adapt!Crash
  BY <1>9, ExitInv DEF Adapt!Crash
<1>10. CASE UNCHANGED Adapt!vars
  BY <1>10 DEF Adapt!vars, AdaptIInv, AdaptTypeOK, Ahead, InBuffer, AtShard, Safe,
               Complete, Updated, Adapt!Shards, Idle, IsSequence
<1> QED
  BY <1>1, <1>2, <1>3, <1>4, <1>5, <1>6, <1>7, <1>8, <1>9, <1>10 DEF Adapt!Next

-----------------------------------------------------------------------------
\* In every state - so also in the one a kill leaves on the disk - a state
\* byte that became "trained" in this run belongs to a shard that was updated
\* as a whole, unless the flush of its data failed, and of which the ledger
\* says nothing but that it was committed.  Short writes, lost entries, lost
\* bytes and kills at any point are among the steps.
THEOREM MarksCanBeTrusted == TrainingSpec => []TrainedMeansUpdated
<1> DEFINE I == program = "xshard" => AdaptIInv
<1>1. TrainingInit => I
  BY AdaptInitInv, ShardsAreNumbered DEF TrainingInit
<1>2. I /\ [TrainingNext]_<<program, vars, loopVars, shardVars>> => I'
  <2> SUFFICES ASSUME I, [TrainingNext]_<<program, vars, loopVars, shardVars>>,
                      program' = "xshard"
               PROVE  AdaptIInv'
    OBVIOUS
  <2>1. program = "xshard" /\ AdaptIInv /\ (Adapt!Next \/ UNCHANGED shardVars)
    BY DEF TrainingNext
  <2>2. [Adapt!Next]_(Adapt!vars)
    BY <2>1 DEF shardVars, Adapt!vars
  <2> QED
    BY <2>1, <2>2, AdaptNextInv
<1>3. I => TrainedMeansUpdated
  BY DEF AdaptIInv, Safe, Complete, Updated, TrainedMeansUpdated,
         Adapt!TrainedMeansUpdated
<1> QED
  BY <1>1, <1>2, <1>3, PTL DEF TrainingSpec

-----------------------------------------------------------------------------
(***************************************************************************)
(* The offsets in a gradient file.  However long the manifest, naming the  *)
(* offsets makes it longer by less than one block (Digits); so the two     *)
(* offsets move by nothing or by one block, and having moved they stay.    *)
(***************************************************************************)

LEMMA DigitsRange ==
  ASSUME NEW n \in Nat
  PROVE  /\ Adapt!Digits(n) \in 1 .. MaxDigits
         /\ Adapt!Digits(n) = MaxDigits \/ n < 10 ^ Adapt!Digits(n)
         /\ \A e \in 1 .. Adapt!Digits(n) - 1 : n >= 10 ^ e
<1>1. MaxDigits \in 1 .. 19
  BY ShardsAreNumbered DEF Adapt!ModelAssumption
<1> DEFINE T == {d \in 1 .. MaxDigits : d = MaxDigits \/ n < 10 ^ d}
<1>2. T \subseteq Nat /\ T # {}
  BY <1>1
<1>3. PICK d \in T : \A e \in T : d <= e
  BY <1>2, NatMin
<1>4. ASSUME NEW e \in 1 .. d - 1 PROVE n >= 10 ^ e
  <2>1. e \in 1 .. MaxDigits /\ e # MaxDigits /\ ~(d <= e)
    BY <1>1
  <2>2. ~(n < 10 ^ e)
    BY <1>3, <2>1
  <2> QED
    BY <2>2
<1>5. \E c \in 1 .. MaxDigits :
        /\ c = MaxDigits \/ n < 10 ^ c
        /\ \A e \in 1 .. c - 1 : n >= 10 ^ e
  BY <1>4
<1> QED
  BY <1>5 DEF Adapt!Digits

\* A larger number has at least as many digits.
LEMMA DigitsGrow ==
  ASSUME NEW n \in Nat, NEW k \in Nat, n <= k
  PROVE  Adapt!Digits(n) <= Adapt!Digits(k)
<1> DEFINE d == Adapt!Digits(n)
           e == Adapt!Digits(k)
<1>1. /\ d \in 1 .. MaxDigits /\ e \in 1 .. MaxDigits /\ MaxDigits \in 1 .. 19
      /\ e = MaxDigits \/ k < 10 ^ e
      /\ \A c \in 1 .. d - 1 : n >= 10 ^ c
  BY DigitsRange, ShardsAreNumbered DEF Adapt!ModelAssumption
<1> HIDE DEF d, e
<1>2. SUFFICES ASSUME e < d PROVE FALSE
  BY <1>1 DEF d, e
<1>3. e \in Nat /\ n >= 10 ^ e /\ k < 10 ^ e
  BY <1>1, <1>2
<1>4. ASSUME NEW c \in Nat, n >= 10 ^ c PROVE k >= 10 ^ c
  BY <1>4
<1>5. ASSUME NEW c \in Nat, k >= 10 ^ c PROVE ~(k < 10 ^ c)
  BY <1>5
<1> QED
  BY <1>3, <1>4, <1>5

\* Less than a block more moves a padded offset by a block at most.
LEMMA Padded ==
  ASSUME NEW n \in Nat, NEW k \in Nat, n <= k, k < n + 64
  PROVE  /\ Adapt!pad_up(n) \in Nat
         /\ Adapt!pad_up(k) \in {Adapt!pad_up(n), Adapt!pad_up(n) + 64}
         /\ Adapt!pad_up(n + 64) = Adapt!pad_up(n) + 64
BY DEF Adapt!pad_up, Adapt!ALIGNMENT

\* The same for both offsets of a manifest.
LEMMA Moved ==
  ASSUME NEW n \in Nat, NEW a \in Nat, NEW c \in Nat, a <= c, c < a + 64
  PROVE  LET s == Adapt!StartsAfter(n, a)
             t == Adapt!StartsAfter(n, c)
         IN /\ s[1] \in Nat /\ s[2] \in Nat
            /\ \/ t = s
               \/ t = <<s[1] + 64, s[2] + 64>>
<1> DEFINE f == Adapt!pad_up(16 + a)
           g == Adapt!pad_up(16 + c)
<1>1. f \in Nat /\ g \in {f, f + 64}
  BY Padded
<1>2. /\ Adapt!StartsAfter(n, a) = <<f, Adapt!pad_up(f + n)>>
      /\ Adapt!StartsAfter(n, c) = <<g, Adapt!pad_up(g + n)>>
  BY DEF Adapt!StartsAfter
<1> HIDE DEF f, g
<1>3. Adapt!pad_up(f + n) \in Nat /\ Adapt!pad_up(f + n + 64) = Adapt!pad_up(f + n) + 64
  BY <1>1, Padded
<1>4. CASE g = f
  BY <1>1, <1>2, <1>3, <1>4
<1>5. CASE g = f + 64
  <2>1. g + n = f + n + 64
    BY <1>1, <1>5
  <2> QED
    BY <1>1, <1>2, <1>3, <1>5, <2>1
<1> QED
  BY <1>1, <1>4, <1>5

\* The first round computes the offsets or those one block before them; from
\* the second on nothing moves.
LEMMA LayoutSettles ==
  ASSUME NEW n \in Nat, NEW length \in Nat
  PROVE  Adapt!Layout(n, length).starts
           = Adapt!StartsAfter(n, Adapt!Layout(n, length).manifest)
<1> DEFINE Long(s) == Adapt!Manifest(length, s)
           Round(s) == Adapt!StartsAfter(n, Long(s))
           Two(s) == s[1] \in Nat /\ s[2] \in Nat
           s0 == <<0, 0>>
           s1 == Round(s0)
           s2 == Round(s1)
           s3 == Round(s2)
           s4 == Round(s3)
<1>1. ASSUME NEW s, Two(s)
      PROVE  Long(s) \in length + 2 .. length + 38
  <2>1. \A k \in Nat : Adapt!Digits(k) \in 1 .. 19
    <3>1. MaxDigits \in 1 .. 19
      BY ShardsAreNumbered DEF Adapt!ModelAssumption
    <3>2. \A k \in Nat : Adapt!Digits(k) \in 1 .. MaxDigits
      BY DigitsRange
    <3> QED
      BY <3>1, <3>2
  <2>2. Adapt!Digits(s[1]) \in 1 .. 19 /\ Adapt!Digits(s[2]) \in 1 .. 19
    BY <1>1, <2>1
  <2> QED
    BY <2>2 DEF Adapt!Manifest
<1>2. ASSUME NEW s, NEW t, Two(s), Two(t), s[1] <= t[1], s[2] <= t[2]
      PROVE  Long(s) <= Long(t)
  <2>1. /\ Adapt!Digits(s[1]) \in Nat /\ Adapt!Digits(s[2]) \in Nat
        /\ Adapt!Digits(t[1]) \in Nat /\ Adapt!Digits(t[2]) \in Nat
    BY <1>2, DigitsRange, ShardsAreNumbered DEF Adapt!ModelAssumption
  <2>2. Adapt!Digits(s[1]) <= Adapt!Digits(t[1]) /\ Adapt!Digits(s[2]) <= Adapt!Digits(t[2])
    BY <1>2, DigitsGrow
  <2> QED
    BY <2>1, <2>2 DEF Adapt!Manifest
<1>3. ASSUME NEW s, NEW t, Two(s), Two(t), s[1] <= t[1], s[2] <= t[2]
      PROVE  /\ Two(Round(s))
             /\ Round(t) = Round(s) \/ Round(t) = <<Round(s)[1] + 64, Round(s)[2] + 64>>
  <2>1. Long(s) \in Nat /\ Long(t) \in Nat /\ Long(s) <= Long(t) /\ Long(t) < Long(s) + 64
    BY <1>1, <1>2, <1>3
  <2> HIDE DEF Long
  <2> QED
    BY <2>1, Moved
<1> HIDE DEF Round
<1>4. Two(s0) /\ Two(s1) /\ s0[1] <= s1[1] /\ s0[2] <= s1[2]
  <2>1. Two(s0)
    OBVIOUS
  <2>2. Two(s1)
    BY <1>3, <2>1
  <2> HIDE DEF s1
  <2> QED
    BY <2>1, <2>2
<1>5. s2 = s1 \/ s2 = <<s1[1] + 64, s1[2] + 64>>
  BY <1>3, <1>4
<1>6. s3 = s2
  <2>1. CASE s2 = s1
    BY <2>1
  <2>2. CASE s2 = <<s1[1] + 64, s1[2] + 64>>
    <3>1. Two(s2) /\ s1[1] <= s2[1] /\ s1[2] <= s2[2]
      BY <1>4, <2>2
    <3>2. s3 = s2 \/ s3 = <<s2[1] + 64, s2[2] + 64>>
      BY <1>3, <1>4, <3>1
    <3>3. s0[1] <= s2[1] /\ s0[2] <= s2[2]
      BY <3>1
    <3>4. s3 = s1 \/ s3 = <<s1[1] + 64, s1[2] + 64>>
      BY <1>3, <1>4, <3>1, <3>3
    <3> QED
      BY <1>4, <2>2, <3>2, <3>4
  <2> QED
    BY <1>5, <2>1, <2>2
<1>7. s4 = s3 /\ Round(s4) = s4
  BY <1>6
<1> QED
  BY <1>7 DEF Adapt!Layout, Round


\* The records of a gradient file can be counted.
GradsCounted == Adapt!IsFiniteSet(Adapt!Shards) /\ Adapt!Cardinality(DOMAIN grads) \in Nat

LEMMA Countable ==
  ASSUME NEW S, Adapt!IsFiniteSet(S)
  PROVE  Adapt!Cardinality(S) \in Nat
<1>1. IsFiniteSet(S)
  BY DEF IsFiniteSet, Adapt!IsFiniteSet
<1>2. Cardinality(S) = Adapt!Cardinality(S)
  BY DEF Cardinality, Adapt!Cardinality
<1> QED
  BY <1>1, <1>2, FS_CardinalityType

LEMMA Interval == ASSUME NEW n \in Nat PROVE Adapt!Cardinality(0 .. n - 1) \in Nat
<1>1. IsFiniteSet(0 .. n - 1)
  BY FS_Interval
<1>2. Adapt!IsFiniteSet(0 .. n - 1)
  BY <1>1 DEF IsFiniteSet, Adapt!IsFiniteSet
<1> QED
  BY <1>2, Countable

LEMMA CountedInit == ASSUME Adapt!ModelAssumption, Adapt!Init PROVE GradsCounted
<1>1. DOMAIN grads = 0 .. 0 - 1 /\ 0 \in Nat
  BY DEF Adapt!Init
<1>2. Adapt!Cardinality(DOMAIN grads) \in Nat
  BY <1>1, Interval
<1> QED
  BY <1>2 DEF GradsCounted, Adapt!Init, Adapt!ModelAssumption, Adapt!Shards

LEMMA CountedBackward == ASSUME GradsCounted, Adapt!Backward PROVE GradsCounted'
<1>1. PICK fold \in Folds \cup {AllFolds}, max \in 1 .. Adapt!Cardinality(Adapt!Shards) :
        grads' = Adapt!GradRecords(fold, max)
  BY DEF Adapt!Backward
<1>2. \E chosen \in SUBSET Adapt!Shards :
        DOMAIN Adapt!GradRecords(fold, max) = 0 .. Adapt!Cardinality(chosen) - 1
  <2> DEFINE chosen ==
        {k \in Adapt!Shards : Adapt!Selected(fold, k)
           /\ Adapt!Cardinality({j \in 0 .. k - 1 : Adapt!Selected(fold, j)}) < max}
  <2>1. DOMAIN Adapt!GradRecords(fold, max) = 0 .. Adapt!Cardinality(chosen) - 1
    BY DEF Adapt!GradRecords
  <2> QED
    BY <2>1
<1>3. PICK chosen \in SUBSET Adapt!Shards : DOMAIN grads' = 0 .. Adapt!Cardinality(chosen) - 1
  BY <1>1, <1>2
<1>4. Adapt!Cardinality(chosen) \in Nat
  <2>1. IsFiniteSet(chosen)
    <3>1. IsFiniteSet(Adapt!Shards)
      BY DEF GradsCounted, IsFiniteSet, Adapt!IsFiniteSet
    <3> QED
      BY <3>1, FS_Subset
  <2>2. Adapt!IsFiniteSet(chosen)
    BY <2>1 DEF IsFiniteSet, Adapt!IsFiniteSet
  <2> QED
    BY <2>2, Countable
<1>5. Adapt!Cardinality(0 .. Adapt!Cardinality(chosen) - 1) \in Nat
  BY <1>4, Interval
<1> QED
  BY <1>3, <1>5 DEF GradsCounted, Adapt!Backward, Adapt!Shards

LEMMA CountedNext == ASSUME GradsCounted, [Adapt!Next]_(Adapt!vars) PROVE GradsCounted'
<1>1. CASE Adapt!Backward
  BY <1>1, CountedBackward
<1>2. CASE UNCHANGED <<model, grads>>
  BY <1>2 DEF GradsCounted, Adapt!Shards
<1>3. Adapt!Backward \/ UNCHANGED <<model, grads>>
  BY DEF Adapt!Next, Adapt!vars, Adapt!StartAdapt, Adapt!Finish, Adapt!Skip, Adapt!Compute,
         Adapt!WriteShard, Adapt!FlushShard, Adapt!MarkTrained, Adapt!Crash
<1> QED
  BY <1>1, <1>2, <1>3

\* The offsets a gradient file names are those its blocks have, whatever the
\* length of its manifest and the number of its shards.
THEOREM OffsetsAreRight == TrainingSpec => []LayoutFits
<1> DEFINE I == program = "xshard" => GradsCounted
<1>1. TrainingInit => I
  BY CountedInit, ShardsAreNumbered DEF TrainingInit
<1>2. I /\ [TrainingNext]_<<program, vars, loopVars, shardVars>> => I'
  <2> SUFFICES ASSUME I, [TrainingNext]_<<program, vars, loopVars, shardVars>>,
                      program' = "xshard"
               PROVE  GradsCounted'
    OBVIOUS
  <2>1. program = "xshard" /\ GradsCounted /\ (Adapt!Next \/ UNCHANGED shardVars)
    BY DEF TrainingNext
  <2>2. [Adapt!Next]_(Adapt!vars)
    BY <2>1 DEF shardVars, Adapt!vars
  <2> QED
    BY <2>1, <2>2, CountedNext
<1>3. I => LayoutFits
  <2> SUFFICES ASSUME GradsCounted, NEW length \in Lengths
               PROVE  LET n == Adapt!Cardinality(DOMAIN grads)
                          layout == Adapt!Layout(n, length)
                      IN layout.starts = Adapt!StartsAfter(n, layout.manifest)
    BY DEF LayoutFits, Adapt!LayoutFits
  <2>1. length \in Nat
    BY ShardsAreNumbered DEF Adapt!ModelAssumption
  <2> QED
    BY <2>1, LayoutSettles DEF GradsCounted
<1> QED
  BY <1>1, <1>2, <1>3, PTL DEF TrainingSpec
=============================================================================
