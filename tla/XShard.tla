------------------------------- MODULE XShard -------------------------------
(***************************************************************************)
(* In-place training of an XSHARD/1 file: xshard_backward writes a file of *)
(* gradients for some of the model's shards, xshard_adapt walks the model, *)
(* finds the gradient of each shard, updates it on the GPU, writes it back *)
(* and sets its byte in the state block.  The tool may be killed at any    *)
(* point and be run again, with other options.                             *)
(*                                                                         *)
(* What is written through a FILE is only in its buffer until the next     *)
(* fseek, fflush or fclose of that FILE; a large fwrite may have reached   *)
(* the disk in part.  Nobody looks whether a flush succeeds: one that      *)
(* fails loses what was in the buffer.  A shard's data is the sequence of  *)
(* gradients applied, and whether its last write has only begun.           *)
(***************************************************************************)
EXTENDS Naturals, Sequences, FiniteSets, Functions

CONSTANTS
  Models,     \* shard number -> [fold, f32, size], for each model
  Folds,      \* folds, those that name no shard among them
  AllFolds,   \* no --fold
  Lengths,    \* lengths of a gradient manifest without its two numbers
  MaxDigits,  \* digits an offset may have; those of an int64_t are 19
  MaxRuns     \* how often xshard_adapt is run

\* Shards are numbered.
ModelAssumption ==
  /\ \A m \in Models : DOMAIN m \subseteq Nat /\ IsFiniteSet(DOMAIN m)
  /\ Lengths \subseteq Nat /\ MaxDigits \in 1 .. 19

Pending == "pending"
Trained == "trained"
Failed == "error"

\* A gradient read for a shard: whose it is, and whether it has its length.
Gradient(k, fits) == [of |-> k, fits |-> fits]

VARIABLES
  model,      \* the manifest of the model
  grads,      \* position -> record of the gradient file, empty before it is there
  opt,        \* [fold, max, apply, file]: the options of the running tool
  i,          \* the next shard, or the one being written
  pc,         \* "idle", "scan", "write", "flush", "mark"
  done,       \* processed
  update,     \* the gradient being applied, or {}
  data,       \* shard -> its content on disk
  state,      \* shard -> its state byte on disk
  buffered,   \* the state byte in the buffer: {} or {<<shard, value>>}
  ledger,     \* shard -> the entry of this run, or "none"
  before,     \* the state block when the tool started
  unflushed,  \* history: the shards whose flush failed in this run
  runs

vars == <<model, grads, opt, i, pc, done, update, data, state, buffered, ledger, before,
          unflushed, runs>>

-----------------------------------------------------------------------------
(* xshard_backward *)

Shards == DOMAIN model
Selected(fold, k) == (fold = AllFolds \/ model[k].fold = fold) /\ model[k].f32

\* The first max selected shards in order; a record keeps the model's seq.
GradRecords(fold, max) ==
  LET chosen == {k \in Shards : Selected(fold, k)
                   /\ Cardinality({j \in 0 .. k - 1 : Selected(fold, j)}) < max}
      at(p) == CHOOSE k \in chosen : Cardinality({j \in chosen : j < k}) = p
  IN [p \in 0 .. Cardinality(chosen) - 1 |-> [seq |-> at(p), size |-> model[at(p)].size]]

ALIGNMENT == 64
pad_up(n) == ((n + ALIGNMENT - 1) \div ALIGNMENT) * ALIGNMENT
Digits(n) ==
  CHOOSE d \in 1 .. MaxDigits :
    /\ d = MaxDigits \/ n < 10 ^ d
    /\ \A e \in 1 .. d - 1 : n >= 10 ^ e

\* manifest_json: its length when it names these two offsets.
Manifest(length, starts) == length + Digits(starts[1]) + Digits(starts[2])

StartsAfter(n, manifest) ==
  LET first == pad_up(16 + manifest) IN <<first, pad_up(first + n)>>

\* Variant: the offsets are computed once.
OneRound(n, length) ==
  LET starts == StartsAfter(n, Manifest(length, <<0, 0>>))
  IN [starts |-> starts, manifest |-> Manifest(length, starts)]

\* write_gradient_xshard: the offsets are part of the manifest they follow,
\* so they are computed in four rounds.
Layout(n, length) ==
  LET Round(starts) == StartsAfter(n, Manifest(length, starts))
      starts == Round(Round(Round(Round(<<0, 0>>))))
  IN [starts |-> starts, manifest |-> Manifest(length, starts)]

-----------------------------------------------------------------------------
(* The gradient of a shard *)

\* load_gradients_for_shard: by position when the length fits, else by id;
\* then read_shard with the seq of the record found, as a position again.
\* Looking by tensor finds nothing else: a record has both of its shard.
LoadGradient(k) ==
  LET bySeq == k \in DOMAIN grads /\ grads[k].size = model[k].size
      found == IF bySeq THEN {grads[k]} ELSE {g \in Range(grads) : g.seq = k}
  IN IF ~opt.file THEN {Gradient(k, TRUE)}
     ELSE {Gradient(grads[g.seq].seq, grads[g.seq].size = model[k].size) :
             g \in {g \in found : g.seq \in DOMAIN grads}}

-----------------------------------------------------------------------------
NoOptions == [fold |-> AllFolds, max |-> 1, apply |-> FALSE, file |-> FALSE]

Init ==
  /\ model \in Models
  /\ grads = << >>
  /\ opt = NoOptions
  /\ i = 0 /\ pc = "idle" /\ done = 0 /\ update = {}
  /\ data = [k \in Shards |-> [torn |-> FALSE, applied |-> << >>]]
  /\ state = [k \in Shards |-> Pending] /\ before = state
  /\ buffered = {} /\ ledger = [k \in Shards |-> "none"]
  /\ unflushed = {}
  /\ runs = 0

\* xshard_backward writes a file unless nothing is selected.
Backward ==
  /\ pc = "idle" /\ DOMAIN grads = {}
  /\ \E fold \in Folds \cup {AllFolds}, max \in 1 .. Cardinality(Shards) :
       /\ DOMAIN GradRecords(fold, max) # {}
       /\ grads' = GradRecords(fold, max)
  /\ UNCHANGED <<model, opt, i, pc, done, update, data, state, buffered, ledger, before,
                 unflushed, runs>>

\* xshard_adapt starts; without a gradient file it probes with the weights.
StartAdapt ==
  /\ pc = "idle" /\ runs < MaxRuns
  /\ opt' \in [fold : Folds \cup {AllFolds}, max : 1 .. Cardinality(Shards), apply : BOOLEAN,
               file : IF DOMAIN grads = {} THEN {FALSE} ELSE BOOLEAN]
  /\ pc' = "scan" /\ i' = 0 /\ done' = 0
  /\ before' = state /\ runs' = runs + 1
  /\ ledger' = [k \in Shards |-> "none"] /\ unflushed' = {}
  /\ UNCHANGED <<model, grads, update, data, state, buffered>>

\* The disk once the buffer is flushed, or the flush has failed.
Flushed ==
  [k \in Shards |-> IF \E b \in buffered : b[1] = k
                    THEN (CHOOSE b \in buffered : b[1] = k)[2] ELSE state[k]]
Flush == state' = Flushed \/ UNCHANGED state

\* The process ends, with what it had in memory.
Exit ==
  /\ pc' = "idle" /\ i' = 0 /\ done' = 0
  /\ opt' = NoOptions /\ update' = {} /\ buffered' = {}

Finish ==
  /\ pc = "scan" /\ (i \notin Shards \/ done >= opt.max)
  /\ Exit
  /\ Flush
  /\ UNCHANGED <<model, grads, data, ledger, before, unflushed, runs>>

Skip ==
  /\ pc = "scan" /\ i \in Shards /\ done < opt.max
  /\ ~Selected(opt.fold, i)
  /\ i' = i + 1
  /\ UNCHANGED <<model, grads, opt, pc, done, update, data, state, buffered, ledger, before,
                 unflushed, runs>>

\* append_ledger returns without a word when the ledger cannot be opened.
Enter(status) == ledger' = [ledger EXCEPT ![i] = status] \/ UNCHANGED ledger

\* mark_error and the ledger; only the ledger in a dry run.  The ledger tells
\* the causes apart.
GiveUp ==
  /\ buffered' = IF opt.apply THEN {<<i, Failed>>} ELSE {}
  /\ Enter(Failed)
  /\ i' = i + 1

\* The shard is read, which flushes what set_state left in the buffer, its
\* gradient loaded and the update computed.  Each of these may fail.
Compute ==
  /\ pc = "scan" /\ i \in Shards /\ done < opt.max
  /\ Selected(opt.fold, i)
  /\ Flush
  /\ \/ /\ GiveUp
        /\ UNCHANGED <<pc, done, update>>
     \/ /\ LoadGradient(i) # {} /\ ~opt.apply
        /\ Enter("dry_run")
        /\ i' = i + 1 /\ done' = done + 1
        /\ buffered' = {}
        /\ UNCHANGED <<pc, update>>
     \/ /\ LoadGradient(i) # {} /\ opt.apply
        /\ update' = LoadGradient(i)
        /\ pc' = "write"
        /\ buffered' = {}
        /\ UNCHANGED <<i, done, ledger>>
  /\ UNCHANGED <<model, grads, opt, data, before, unflushed, runs>>

\* Variant: the state byte reaches the disk before the data does.
MarkedFirst ==
  /\ pc = "write"
  /\ data' = [data EXCEPT ![i].torn = TRUE]
  /\ state' = [state EXCEPT ![i] = Trained]
  /\ pc' = "flush"
  /\ UNCHANGED <<model, grads, opt, i, done, update, buffered, ledger, before, unflushed, runs>>

\* write_shard: some bytes have reached the disk.
WriteShard ==
  /\ pc = "write"
  /\ data' = [data EXCEPT ![i].torn = TRUE]
  /\ pc' = "flush"
  /\ UNCHANGED <<model, grads, opt, i, done, update, state, buffered, ledger, before, unflushed,
                 runs>>

\* The fflush, whose result is not looked at; a short fwrite makes commit_shard
\* fail.
FlushShard ==
  /\ pc = "flush"
  /\ \/ /\ \E g \in update :
             data' = [data EXCEPT ![i] = [torn |-> FALSE, applied |-> Append(@.applied, g)]]
        /\ pc' = "mark"
        /\ UNCHANGED <<buffered, ledger, unflushed, i>>
     \/ /\ unflushed' = unflushed \cup {i}
        /\ pc' = "mark"
        /\ UNCHANGED <<data, buffered, ledger, i>>
     \/ /\ GiveUp
        /\ pc' = "scan"
        /\ UNCHANGED <<data, unflushed>>
  /\ update' = {}
  /\ UNCHANGED <<model, grads, opt, done, state, before, runs>>

\* set_state leaves the byte in the buffer, then the ledger is appended to.
MarkTrained ==
  /\ pc = "mark"
  /\ buffered' = {<<i, Trained>>}
  /\ Enter("committed")
  /\ i' = i + 1 /\ done' = done + 1
  /\ pc' = "scan"
  /\ UNCHANGED <<model, grads, opt, update, data, state, before, unflushed, runs>>

\* The process is killed: what is in the buffer is lost.
Crash ==
  /\ pc # "idle"
  /\ Exit
  /\ UNCHANGED <<model, grads, data, state, ledger, before, unflushed, runs>>

Next == Backward \/ StartAdapt \/ Finish \/ Skip \/ Compute \/ WriteShard \/ FlushShard
        \/ MarkTrained \/ Crash

Spec == Init /\ [][Next]_vars

-----------------------------------------------------------------------------
(* Properties *)

\* A state byte that became "trained" in this run is on the disk only when the
\* whole updated shard is, in any state, so also after a kill at any point, and
\* what the ledger says of that shard is that it was committed: no kill, short
\* write, lost entry or lost byte leaves a mark without its data.  The one thing
\* that does is the flush of the data failing, which nobody looks at.
TrainedMeansUpdated ==
  \A k \in Shards : state[k] = Trained /\ before[k] # Trained =>
    /\ k \in unflushed \/ (~data[k].torn /\ data[k].applied # << >>)
    /\ ledger[k] \in {"committed", "none"}

\* The gradient file's blocks follow each other without overlap, at the
\* offsets its own manifest names.
LayoutFits ==
  runs = 0 /\ DOMAIN grads # {} => \A length \in Lengths :
    LET n == Cardinality(DOMAIN grads)
        layout == Layout(n, length)
    IN layout.starts = StartsAfter(n, layout.manifest)

\* The container is matched "by seq/id/tensor": whatever shards it names, a
\* shard is updated with its own gradient or reported as an error.
OwnGradient ==
  \A k \in Shards : Range(data[k].applied) \subseteq {Gradient(k, TRUE)}
=============================================================================
