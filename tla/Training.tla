----------------------------- MODULE Training ------------------------------
(***************************************************************************)
(* The programs of trainer/: the loop of the GPT-2 trainer, the GPU pass   *)
(* of one of its steps, and the two tools that train an XSHARD/1 file.     *)
(* A behaviour runs one of them.  No variable has the name of a bound      *)
(* variable of the pass: TLC would compute its constant tables anew in     *)
(* every state.                                                            *)
(***************************************************************************)
EXTENDS TrainerPass

CONSTANTS NSeq, BatchSize, SaveEvery, MaxSteps, Configs, Tensors,   \* of the loop
          Models, Folds, AllFolds, Lengths, MaxDigits, MaxRuns      \* of the tools

VARIABLES program,
          conf, turn, idx, used, step, age, weights, owned, disk, todo, missed,
          model, grads, opt, shard, stage, done, update, data, state, buffered,
          ledger, before, unflushed, runs

-----------------------------------------------------------------------------
Loop == INSTANCE TrainerLoop WITH s <- turn, Params <- Tensors
Adapt == INSTANCE XShard WITH i <- shard, pc <- stage

ASSUME LoopAssumption ==
  /\ NSeq \in Nat \ {0} /\ BatchSize \in Nat \ {0} /\ SaveEvery \in Nat \ {0}
  /\ MaxSteps \in Nat
  /\ \A c \in Configs : c.trainable \subseteq 0 .. NSeq - 1

\* Shards are numbered from 0; an offset is an int64_t.
ASSUME ShardsAreNumbered == Adapt!ModelAssumption

loopVars == <<conf, turn, idx, used, step, age, weights, owned, disk, todo, missed>>
shardVars == <<model, grads, opt, shard, stage, done, update, data, state, buffered,
               ledger, before, unflushed, runs>>

NoLoop ==
  /\ conf = 0 /\ turn = 0 /\ idx = 0 /\ used = 0 /\ step = 0 /\ age = 0 /\ weights = 0
  /\ owned = 0 /\ disk = 0 /\ todo = 0 /\ missed = 0
NoPass ==
  mode = [n |-> 1] /\ seq = 0 /\ pc = 0 /\ buf = 0 /\ total = 0 /\ lost = FALSE
NoShards ==
  /\ model = 0 /\ grads = 0 /\ opt = 0 /\ shard = 0 /\ stage = 0 /\ done = 0
  /\ update = 0 /\ data = 0 /\ state = 0 /\ buffered = 0 /\ ledger = 0
  /\ before = 0 /\ unflushed = 0 /\ runs = 0

TrainingInit ==
  \/ program = "pass" /\ Init /\ NoLoop /\ NoShards
  \/ program = "loop" /\ NoPass /\ Loop!Init /\ NoShards
  \/ program = "xshard" /\ NoPass /\ NoLoop /\ Adapt!Init

TrainingNext ==
  /\ UNCHANGED program
  /\ \/ program = "pass" /\ Next /\ UNCHANGED <<loopVars, shardVars>>
     \/ program = "loop" /\ Loop!Next /\ UNCHANGED <<vars, shardVars>>
     \/ program = "xshard" /\ Adapt!Next /\ UNCHANGED <<vars, loopVars>>

TrainingSpec == TrainingInit /\ [][TrainingNext]_<<program, vars, loopVars, shardVars>>

-----------------------------------------------------------------------------
(* Properties.  Those of the pass are in its module.                       *)

\* Between two shuffles every sequence with trained tokens is used equally
\* often, for any batch size.
FairSampling == program = "loop" => Loop!FairSampling

\* A file that is whole holds every tensor as the optimiser left it after one
\* and the same step, except those whose copy could not be read back.
CheckpointConsistent == program = "loop" => Loop!CheckpointConsistent

\* The newest file that survives a crash at any point, also while the output
\* is being overwritten, is less than save_every steps old.
CrashLosesLittle == program = "loop" => Loop!CrashLosesLittle

\* "this causes one sub-optimal Adam step": from the second step after a save
\* on, bias correction counts what the moments hold.
OneSuboptimalStep == program = "loop" => Loop!OneSuboptimalStep

\* A state byte that became "trained" in this run is on the disk only when the
\* whole updated shard is, also after a kill at any point, except when the flush
\* of the shard failed: its result is not looked at.  The ledger says nothing else.
TrainedMeansUpdated == program = "xshard" => Adapt!TrainedMeansUpdated

\* The blocks of a gradient file lie where its manifest says, though their
\* offsets are part of the manifest in front of them.
LayoutFits == program = "xshard" => Adapt!LayoutFits

\* The container is matched "by seq/id/tensor": whatever shards it names, a
\* shard is updated with its own gradient or reported as an error.
OwnGradient == program = "xshard" => Adapt!OwnGradient
=============================================================================
