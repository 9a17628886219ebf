# KXC: models and proofs

TLA+ models of the runtime parts of KXC (the semantic kernel with its scheduler,
executors and field engine, the task drivers, the brain-integration bridges, the
trainers and their shard files), the TLC runs that check them on small instances, and TLAPS proofs that hold for
every value of the constants.

    tlc -workers 2 -config SpeculativeRuntime.cfg SpeculativeRuntime
    tlc -workers 2 -config ThreadPool.cfg MCThreadPool
    tlapm SemanticKernelProofs.tla

`PROJECT.json` lists components, runs, mutants, hazards and theorems, and maps
every definition to the source lines it translates.

Contents: 1 inventory, 2 plan, 3 modules, 4 runs, 5 fairness, 6 proofs,
7 disagreements with the code, 8 what is not covered.

## 1. Inventory

The repository is a collection of loosely coupled programs.  The ones with
state, concurrency or a protocol of their own, with the properties that make
each correct:

| Component | Source | State | Operations | What is hard | Correct when |
|---|---|---|---|---|---|
| Credit scheduler | `kxml-sk/semantic_kernel_cpp/include/scheduler.h` | credits and maximum of each named stage | `init_stage`, `try_acquire`, `release` | reconfiguration from a second thread while credits are out | no credit is lost, no stage overfull |
| Speculative decoding runtime | `.../src/runtime_loop.cpp`, `knobs.h`, `kv_cache.h` | atomic knobs, token list, KV cache | boot, prefill, control loop, draft/verify/commit rounds | knobs change under a running round; two commits per round | cache rows and tokens in step, no row past the end, decoding ends |
| Thread pool | `.../include/executor.h` | task queue, `activeTasks`, two mutexes, two conditions | `enqueue`, worker loop, `taskFinished`, `wait`, destructor | condition variables whose mutexes do not cover what they wait for | `wait` is a barrier, nothing is dropped, nobody sleeps for ever |
| Phase executor | `.../src/executor.cpp` | `ExecutionContext` (global, phaseBuffer, logs) | five phases, barrier, merge | handlers race on the context | what a phase reads does not depend on its races |
| Batched executor | `.../src/batch_executor.cpp` | per-phase IR and buffers | lower, batch, execute, scatter, merge | reorders the nodes of a phase | same result as the phase executor |
| Program compiler and planner | `.../src/compiler.cpp`, `planner.cpp` | symbol table, buffers, IR | `lowerNode`, fusion, plan, `executePlan` | two counters number the slots of one buffer | program means the same after lowering; fusion changes no more than the sums it takes away |
| Task engine driver | `drivers/khanary_driver.cpp` | task list, provider table | load, plan, run, dispatch | sweeps that decide with what earlier visits left behind | verdicts independent of list order, `run` agrees with `plan` |
| DAG scheduler | `drivers/DAG.cpp`, `dag_abi.cpp` | task list, in-degrees, ready set | load, schedule | repeated dependencies, cycles, partial loads | least topological order, or a cycle reported |
| GPU executor, detector | `brain-integration/gpu-executor.js`, `gpu-detection.js` | devices, cached ratio | execute, benchmark | route decided before an `await`, fallback in the catch block | results labelled by who computed them |
| Brain bridge | `brain-integration/brain-integration-bridge.js` | cache, metrics | `handle`, retry, eviction, cleanup | cache read and written around awaits | nothing stale served, bounded cache, exact metrics |
| Bridge server | `brain-integration/bridge_server.py` | `tasks` by request id | request, cancel, stream, disconnect | cancellation at every await; ids used twice | silence after a cancel, every request answered |
| Field engine, replay lane | `.../include/field_execution_engine.h`, `replay_lane_manager.h`, `legality_verifier.h` | tick, entropy, lane, session files, shared header | end-to-end step, record, archive, load | rejected steps, failing writes, restarts | lane is the run's history, archives complete |
| Shard loader | `.../include/dds_shard_loader.h` | shard table, residency, heaps, tile mapping | manifest, promote, demote | layout computed from the table at every call; registration of a HOT fold; folds behind the end of the buffer | tiles, heaps and residency flags in step |
| Trainer pass | `trainer/gpt2_trainer.cpp` (`forwardBackwardCPU`, `gpuForwardBackward`) | device buffers, gradients | some hundred dispatches per sequence | buffers reused for other purposes, views that D3D11 unbinds | the GPU's gradients and losses are the CPU's |
| Trainer loop | `trainer/gpt2_trainer.cpp` (`train`, `train_step`, `adamStepGPU`, `save`) | order of the data, weights, moments, files | iteration, Adam, read-back, save | output overwritten in place, moments dropped by a save | fair sampling, a usable file after any crash |
| Shard files | `trainer/xshard.h`, `xshard_backward.cpp`, `xshard_adapt.cpp` | shards, state block, gradient file, ledger | write gradients, adapt, commit | killed between two writes; positions in two files | "trained" means updated, own gradient |
| Swarm runtime | `dist/Micronaut_V0/unified_swarm_runtime.cpp` | agents and their phase | register, step | nothing concurrent, no failure path | not modelled |
| Tool registry | `kxml-sk/kuhul_tool_runtime.h` | tool table under a mutex | register, get, query | no caller in the repository | not modelled |
| Kernel compiler, ASX core, KDML | `src/*.cpp`, `asx-core/*.cpp`, `kdml/` | none kept | one pass per file | sequential transformation | not modelled |

How they interact.  `runtime_loop.cpp` owns one `CreditScheduler` and one set
of knobs, shared by the decoder and the detached control loop.  `run_execution`
and `executePlan` drive one `ThreadPool` each, through queue, counter and two
condition variables; its workers share one `ExecutionContext`.
`FieldExecutionEngine` calls the shard loader, the verifier, the evolver and
the replay lane in one step, on one thread, and publishes to a shared header.
The bridge server talks to its client over a websocket, and its reader and its
tasks share one dictionary on one event loop.  The JavaScript bridge and GPU
executor interleave only at awaits.  The drivers are called through a C
interface, one call at a time.  `xshard_backward` and `xshard_adapt` are two
processes that meet only in files; the trainer writes safetensors files nobody
else in the repository reads while it runs.

The behaviours that are hard, with their lines, are the hazards of
`PROJECT.json`: interleavings and stale readings (control loop against decoder,
workers against `wait`, requests against each other's cache entries), partial
failures (an archive cut short, a list that stops parsing, a failed
`CreateHeap`), restarts, retries, limits and liveness.

## 2. Plan

Done:

1. `CreditScheduler` and `SpeculativeRuntime`, which implements it; proofs.
2. `ThreadPool`, proofs of the barrier; `PhaseOps`, `PhaseExecutor` composed
   with the pool, `BatchedExecutor` compared with it, `ProgramCompiler`, and
   `SemanticKernel` with all of them; proofs of all their safety properties.
3. `TaskDriver`, `DagScheduler`, and `Drivers`, which puts them side by side; proofs
   of all their safety properties.
4. `GpuExecutor`, `BrainBridge`, and `BrainIntegration` with both; proofs of all their
   properties.  `BridgeServer`; proofs of its safety properties.
5. `FieldEngine`, `ShardLoader`, and `FieldRuntime`, which composes them; proofs of all
   their properties.
6. `TrainerReference`, `TrainerPass` (compared with it), `TrainerLoop`, `XShard`, and
   `Training` with all of them; proofs of all properties of the loop and the tools.

Left, in this order:

- Abstract specifications: a cache with a single-key contract for
  `BrainBridge`, a task list with one verdict per task for `TaskDriver`.
- `--grad-dir` and a resumed `--grad-file` of `xshard_adapt`; the shared header
  written field by field; a round trip of SCXQ2 on small values.

## 3. Modules

An action is what the code does between two points at which another thread,
callback or message may come in.  Variables keep the names of the code's
members and locals where it has them; what is called *history* in a comment is
not in the code.

**CreditScheduler.**  `stages` is the member `stages_`; a stage no `init_stage`
has seen is not in its domain.  Each method holds its mutex throughout, so
`InitStage`, `TryAcquire`, `Release` are one step each.  `outstanding` counts
successful acquires not yet released; it is what makes "no credit is lost"
expressible.

**SpeculativeRuntime.**  `dec` and `ctl` are the positions of the decoder and
the control loop between two accesses to shared state (an atomic knob or a
method of the scheduler).  `knobs`, `stages` are shared; `m`, `accepted`,
`tokens`, `current_seq`, `cells` belong to the decoder.  A token is reduced to
its origin - the n-th draft token of its round, or the fallback - and a cache
cell to the slot of the temporary cache it was copied from, which is all
alignment is about.  The verdict of `verifyPrefixProb` depends on logits and is
an input.  `Outstanding` is a function of `dec`: the refinement mapping under
which the module implements `CreditScheduler`.

**ThreadPool.**  A region under `queueMutex` is one action.  `wait()` is not:
only the main thread ever locks `doneMutex`, so the lock excludes nobody, and
`CheckActive`, `CheckTasks` and `Block` are three steps.  `taskFinished` is
`CountDown`, `CheckEmpty`, `NotifyDone`.  Spurious wakeups of workers and of the
main thread are actions, as the standard allows them.

**PhaseOps, PhaseExecutor, BatchedExecutor.**  `PhaseOps` holds the operations
of the registry as functions on the context.  `PhaseExecutor` instantiates
`ThreadPool` and runs them in its workers.  Two handlers that overlap race on
an `unordered_map` and a `vector`; each of the two structures may keep what the
other handler wrote or lose it, so a handler remembers the context it started
on (`seen`) and its writes land on that or on the present one.  A string
operand of `add` throws in a worker, and the process aborts.  The batched
command runs on one thread; `Batched` is the context it ends with, as a
function of the tree.  What a sequence of nodes does is written as a recursive
function on its positions (`Only`, `Executed`, `After`, `Scatter`), the form the
proofs can reason about.

**ProgramCompiler.**  One step lowers one node or moves the fusion loop by one
node.  `mem` is `Buffers.i64` with the symbol table, whose counter and the end
of the buffer number the same slots.  `Meaning` is the reference: what the
program says, name by name.  `InOrder` is the buffer after nodes have run over
it one by one, `Strays` the slots that fusing puts at risk: a sum taken into a
fused node keeps its old value, and so may what is computed from it.

**SemanticKernel.**  A process runs one command of `main.cpp`: it executes a
tree, or it compiles and plans one, chosen initially.

**TaskDriver.**  One step is one visit of a task by a sweep of `plan()`, or one
result of `run()`.  `Reference` is the reference definition of what should be
admitted.

**DagScheduler.**  One step is one round of the `while` loop of `schedule()`.
Ids are numbers in the order of the strings, because the ready set is ordered.

**GpuExecutor.**  The await of an implementation separates the decision about
the route from its outcome; a benchmark of the same operation may end in
between.  The catch block is one action, but `tried` remembers how the call of
each side ended: it threw, or it returned and its recording threw.  The detector
is the list of entries it builds.

**BrainBridge.**  `handle()` cut at its awaits: the handler's promise and the
delay before a retry.  The cache is a sequence in the insertion order of the
`Map`, since eviction takes the first of the least recently used.

**BridgeServer.**  `tasks` is the dictionary, `task` the asyncio tasks in order
of creation.  `cancel` marks a task on which `cancel()` was called; the
exception is thrown when it next runs, and a task that has not begun runs no
part of its body, its `finally` included.  `told` is history.

**FieldEngine.**  One step is one call of `run_end_to_end_step` with all it
calls.  Session files survive `Restart`.  A write may fail unnoticed and leave
a prefix behind; reading such a file yields values nobody wrote (`Garbage`).
Entropy is counted in hundredths.

**ShardLoader.**  Sizes are in units of which `Tile` make a 64 KB tile.
`mapped` is the tile mapping the D3D12 queue holds, which no member of the
class records.  A mapping that is not inside the buffer is an error
`UpdateTileMappings` does not report; `Mappings` lets the runtime drop the call or
map the tiles there are (it may also remove the device, which is left out).
`left` is history: the heaps and mappings a registration found, until their
fold is promoted or demoted again.

**Drivers, BrainIntegration, Training.**  Programs of one directory that do not
interact: a behaviour runs one of them, chosen initially, and the variables of the
others keep the values they start with.  Runs and theorems speak of the same
specification (`DriversSpec`, `IntegrationSpec`, `TrainingSpec`).

**FieldRuntime.**  The composition: a step of the engine first asks the loader
for the fold of its query (`Route`) and drops the answer, so the step happens
with the promotion, or without it when the fold is unknown or its heap cannot
be created.  A restart loses the loader together with the lane; session files
survive.  Manifests, also one after another, and demotions come from a host
between steps.

**TrainerReference.**  `forwardBackwardCPU` as a table: each of its arrays is
written once, so it is a name, and `Value` says from which other arrays it is
computed by which kernel.  Contents are bags of such results, because arrays
are accumulated: adding a term twice differs from adding it once.  The function
knows neither the biases of the scores nor `fullseq_`; for the modes that have
them the table is the function extended by those terms and rows.

**TrainerPass.**  `gpuForwardBackward` as the program it sends to the device: a
sequence of dispatches, each with the buffers it reads and writes.  A buffer
holds the bag of what was added to it since it was last cleared; `Result` looks
up which array of the reference an input is at that moment, so a buffer that
was reused too early, not cleared, or unbound by D3D11 (bound as SRV and UAV in
one dispatch) shows up as a result no array of the reference has.  The layers
are parameters (`NL`, `NH`), the biases of the scores, `fullseq_` and the shape
of the batch are the `mode`.

**TrainerLoop.**  One iteration of `train()` up to its saves is one step, the
opening of the output file another and its last write a third: what the disk
holds in a state is what a crash there leaves.  `weights` and `age` count steps
and gradients instead of numbers.

**XShard.**  The two tools over one file.  `buffered` is the state byte that
sits in a `FILE` buffer: it reaches the disk with the next seek, and is lost
with the process, or unnoticed when the seek fails to flush.  The flush of a
shard's data may fail unnoticed as well (`unflushed` is history), and so may the
opening of the ledger (`Enter`).  A gradient record keeps the `seq` of its shard in the model
file while its position in the gradient file is another number.

**MC modules.**  `MCThreadPool`, `MCSemanticKernel`, `MCBridgeServer`, `MCDrivers`,
`MCBrainIntegration` and `MCTraining` only give values to the constants.

## 4. Runs

Every run checks its module as the proofs use it: a `.cfg` gives constants
their values and replaces no definition.  Type invariants are checked where a
proof starts from them.

| Run | Instance | What it shows |
|---|---|---|
| `speculative` | knobs up to 3, 3 tokens, prompt 1, cache of 6 | KV rows aligned with tokens, no commit past the cache, overshoot below one draft, no credit lost, implements the scheduler, decoding ends |
| `pool` | 3 workers; phases of 2, 0 and 2 tasks | `wait` is a barrier, the destructor drops nothing, every task runs |
| `pool_wakeup` | 2 workers | `wait` may never return (violation, section 7) |
| `semantic_kernel` | 2 workers, 19 trees; every program of up to 3 adds and muls over two names, two literals and absent operands | race-free trees give the sequential result; emits of a phase agree whatever races; the batched command agrees; no slot is overwritten before its last reader; fusion changes only the sums it takes away and what is computed from them |
| `drivers` | every graph of 3 tasks with up to 2 dependencies each, of 4 with 1; every list of 3 tasks over 2 providers and every dependency relation; missing, duplicate and partial lists | order executable, complete and least, cycles reported only when there is one; verdicts independent of the order of the list, executable, the same in `plan` and `run`; calls return |
| `brain_integration` | 3 requests, 3 keys, cache of 2, entries live 1 tick of 3; 2 executions beside 1 benchmark of 2 iterations, 4 hosts, own or injected detector | cache bounded and keyed, metrics exact, nothing stale served, eviction takes the least recently used; metadata names who computed, a failure reaches the caller only when the CPU was tried and no call gave a recorded result |
| `bridge_server` | 2 requests under 1 or 2 ids, up to 2 words, connection lost at any time | dictionary exact, everything cancelled when the reader stops, silence after a cancel, every request answered |
| `field_runtime` | 3 ticks, lane of 2, archive every 2, 2 runs of the process, entropy threshold 25; 2 folds of 2 or 3 units (tiles of 2), 2 heaps, 2 manifests per run, 4 steps and manifests together | lane is this run's history, what it drops is in a whole session file; every tile mapped to its fold's heap and only HOT folds have one, what a registration left and folds behind the end of the buffer apart |
| `training` | pass: 2 layers, 2 heads, 2 or 3 rows, 1 or 2 sequences, every combination of the score biases, with and without `fullseq_`; loop: 3 sequences, batches of 2, saves every 2 of 6 iterations; tools: 3 models of 2 or 3 shards, 2 runs of `xshard_adapt`, manifests of 1 to 12000 bytes | gradients and losses of the GPU pass are those of the CPU pass, or of its extension by biases and `fullseq_`; every sequence used equally often; whole files consistent, one of them recent after any crash; "trained" on disk means updated unless a flush failed unnoticed; a gradient file fits its own manifest |
| `trainer_targets` | the same | `fullseq_` trains a row towards its own token (violation, section 7) |
| `own_gradient` | the same, one model: a fold of 3 shards behind another shard | a shard gets another one's gradient (violation, section 7) |
| `moments_reset` | the same | bias correction counts steps the moments have forgotten (violation, section 7) |

Why the bounds are enough.  *speculative*: drafts of up to three tokens give
rejection at the first, an inner and no position; three tokens give two rounds
and an overshoot; the cache is exactly as long as `CacheAssumption` demands.
*pool*: three workers suffice for one to sleep, one to run and one to notify
late into a later phase; the empty phase is the one in which nobody notifies.
*semantic_kernel*: one phase never needs more than two overlapping handlers to
lose an update, and every ordered pair of the operations is there; three nodes
are a definition, a use and a clobber, and a fused pair with a node before or
behind it.  *drivers*: a cycle of two beside an independent task, a diamond
(four tasks), repeated and self-dependencies.  *brain_integration*: three
requests for three keys make two answers arrive at a full cache; four instants
make an entry expire and be replaced; two executions overlap with a benchmark of their
operation in every way, and it may fail in all its iterations.  *bridge_server*: two requests under
one id replace each other; two words leave a stream in the middle.
*field_runtime*: a lane of two overflows at the third accepted step, with an
archive before it, and a second run meets the files of the first; the
threshold is low so that steps are rejected within the bound - 85 in the code,
which nothing but the number of steps needs.  Two folds of different sizes make
the start of the second depend on the first, and two of 3 units reach behind
the end of their buffer while 2 and 3 do not; a second manifest meets HOT folds,
kept and lost buffers, with a step or two before and behind it (`MaxEvents`); a
step may promote while a manifest, a failed heap or a demotion intervenes.
*training*: two layers make every buffer of a layer be used again by the next,
two heads make the per-head temporaries be reused, a second sequence makes every
buffer start dirty, and three rows separate the trained row from the last one; a batch of
two out of three sequences makes batches straddle the order, and six
iterations meet every alignment of batch, shuffle, save and checkpoint; a shard
before or behind the selected ones makes position and `seq` differ, and two
selected ones make a mark wait in the buffer while the next shard is written.

No run stops early for a bound that hides a case: the bounds `Slots`,
`MaxWords`, `MaxTime`, `MaxTick`, `MaxRuns`, `MaxEvents`, `Manifests` and `MaxHeaps` are
guards named in their modules, as is `MaxSteps`; `MaxDigits` is the number of digits
an offset may have, more than the lengths of the run need.  Deadlock is checked
except where the system really ends: a finished decode, a pool that was destroyed, a plan that is
made, an execution that settled, a closed connection, a training that is over, or the last tick, heap or
instant of an instance.

Symmetry is used in `brain_integration` only, where requests and keys are interchangeable
and nothing is a liveness property.

Each property comes with a mutant in `PROJECT.json`: a definition changed the
way a slip in that code would change it, under which TLC finds the property
violated.  Their operators stand before the definitions they replace, marked
"Variant".

## 5. Fairness

- `speculative`: weak fairness of the decoder, which the operating system
  schedules and which polls `try_acquire`.  That is enough, because no other
  thread ever takes a credit.  The control loop owes nothing: it reads metrics
  nobody writes, is free to take every branch, and may stop anywhere.
- `pool`, `pool_wakeup`: weak fairness of the main thread and of each worker
  (the operating system runs what can run).  No fairness for spurious wakeups:
  a lost notification must not be repaired by one.
- `drivers`: a call of the task engine that has been made runs on.
- `bridge_server`: weak fairness of each task's next step: the event loop runs
  what is ready, a send drains or fails, and the router's thread returns.  The
  client owes nothing: cancels, disconnections and further requests are unfair.

## 6. Proofs

All proofs are checked by TLAPS from the assumptions named in the modules and
for every value of the constants.  Every safety property of a passing run is
proved, except the two of the trainer's pass; what stays model-checked is listed
at the end of this section.

**SpeculativeRuntimeProofs.**  The invariant adds to the checked properties
how long the output can be at each point of a round (`RoundInv`), that nothing
is emitted while booting (`BootInv`), and what `Commit` has written and the
emitting steps have not pushed yet (`PendingInv`).  Without the last, alignment
is not inductive: it is restored only when the tokens follow the rows.
`CommitInsideCache` then follows from `CacheAssumption`, which the code relies
on and nowhere tests.  `Refinement` shows that every step of the two threads is
a step of `CreditScheduler` or leaves its state alone.  Of the scheduler alone,
`TypeOK`, `CreditsWithinMax` and `NoCreditLost` are inductive together (`release`
needs the bound to know that capping loses no credit that is still owed), and
`CreditsKept` transports `NoCreditLost` through the refinement.

**ThreadPoolProofs.**  The invariant counts: `activeTasks` is the number of
tasks queued, running or about to be (`CounterExact`).  With it a counter of
zero means that no task is anywhere, and a late `notify` or a spurious wakeup
cannot matter, since `wait` reads the counter again.  For any finite number of
workers and any batches.

**SemanticKernelProofs.**  For any finite number of workers and any trees whose
nodes hold finitely many integers and strings (`ExecutorAssumption`), and any
programs of adds and muls (`SourcesAssumption`).  *The pool.*  Every step of the
executor is a step of `ThreadPool` or leaves it alone (`ExecutorRunsThePool`), so
its invariant holds here too and the merge of a phase races with no handler
(`MergeAfterBarrier`).  `Frame` adds that queued and running tasks are nodes of
the present phase, and that whatever a race leaves behind is a context.
*Emits.*  `EmitInv` says that the logs, and those a handler may still write back,
report nothing or one and the same result, and that it is the one `global` holds
throughout the phase of the emits: handlers write to `phaseBuffer`.  *No races.*  The one node of a phase that touches the context is
ahead of the main thread, queued, at work or done, and it has run exactly when
it is in none of the first three places (`RaceInv`); the context is then that of
the nodes before it, executed one by one.  *Two executors.*  `Agree` relates
the context of the batched phase after a prefix of the nodes to the plain one
after the same prefix: moving the sums of a phase to its front is not seen,
since an assignment of "result" comes after the sums and the last writer of a
key wins (`MergedSwap`, `AgreeAdd`, `AgreeScalar`), and emits look at `global`
alone.  *Compiling.*  `MemOK` says that names have slots of their own
below the end of the buffer, `Lowered` that each node reads the slots of its operands and that the
slot of a literal is written by no node before its reader.  `CompilingKeepsMeaning` then follows
node by node (`Holds`): a symbol may take the slot of an earlier literal, but
only in the node that is that literal's reader or later.  *Fusing.*  `FuseInv`
says that the nodes lowered so far and the first `at` nodes compute the same
slots, those of `Strays` so far aside; `FuseMatches` is the step of a fused pair.
For every program, whoever reads the sum.

**DriversProofs.**  For `dag` everything rests on `IndegreeExact`: the counters
are the numbers of dependencies not yet ordered, repeated ones as often as
listed.  When the loop runs dry with tasks left, each of them has an unordered
dependency, so the rest waits for itself and "cycle" is the truth.  The order is
the least executable one because each step takes the smallest candidate
(`Greedy`): at the first position where another executable order differs it
could have taken the same task.  For `kd`, `KdInv` says that an id is decided
once, that the sets of `plan()` say what its results say (`Decided`), that an
admitted task comes after all it depends on (`Executable`), and that `run()` so
far agrees with `plan()` (`Agreeing`, `Unplanned`).  That the verdicts do not
depend on the order of the list needs both inclusions: what is admitted is in a
round of the reference (`Justified`), and a sweep without a new verdict leaves
out nothing that could be admitted (`Swept`).  For any finite list, the theorems
about `kd` for lists with unique ids.

**BrainIntegrationProofs.**  The value an entry holds is as old as its
timestamp, no entry was used before it was made or after now, and a key has one
(`Entries`).  A step deletes entries, keeping their order, or puts one of now in
the place of its key: `RoomEntries` and `PutEntries` say what that preserves.
The victim is found by a scan; `VictimIsLeast` shows that the first entry no
other precedes is the least recently used.  An answer handed out of the cache
was checked in the same step, so `ServesNothingStale` follows from `Entries`.
For the executor, `GpuInv` relates where an execution stands to how the call of
each side ended; no end of a benchmark changes that.  For any requests, keys, cache
size and lifetime.

**BridgeServerProofs.**  Two lemmas say what can happen to a task: the reader
only marks (`Marked`), and a step of the task itself keeps its id and its marks
and drops its entry exactly when its `finally` block runs (`Becomes`).  The
entry of an id is a task of that id (`Entries`), a task not yet begun has done
nothing (`Fresh`), and a cancel that was read has reached its task (`Reached`);
with these `TableExact` and `StopCancelsAll` are inductive, and
`SilentAfterCancel` follows because a cancelled task can only be interrupted.

**FieldRuntimeProofs.**  Session files are named after ticks of the past
(`Named`), and a trace is newer than every file written before it.  `PushedLane`
states what the cut of a full lane leaves; with it `LaneIsHistory` and
`ArchiveComplete` are inductive together.  For any lane size and interval of at
least 1, and whatever writes fail.  The loader: where a fold starts is a sum over
the folds before it, and the spans of two folds are apart (`FoldsInOrder`,
`SpansApart`); mapping or clearing the tiles of one fold then leaves those of the
others alone (`RemapInv`), also when the fold lies behind the end of the buffer and
the mapping is dropped.  `LoaderInv` says of each fold what its tiles are, apart
from what is in `left`; a registration puts there all that has a heap or a
mapping, and a promotion or demotion takes out its own fold.  For any folds,
sizes and tile, and any number of manifests.

**TrainingProofs.**  *Checkpoints.*  A partial file is the one being saved, and
the copies it is written from are current (`BeingSaved`); no tensor and no file
is ahead of the optimiser (`NotAhead`).  For `CrashLosesLittle`, `Numbered` says
which checkpoints are due: each is on the disk, as of the step after its number,
or among the saves still to do, and so is the output.  Only the output can be
torn then: two checkpoints in a row are due only if every step is saved
(`Neighbours`).  *Batches.*  The loop is a
walk around the order; a batch takes a position when the walk completes one more
lap there (`Turns`).  After `n_seq` batches every position has as many laps, and
`Reached` - what is one-to-one on a finite range fills it - turns positions into
sequences.  *Tools.*  The bytes of the shards not passed are as the tool found
them (`Ahead`), so a byte set in this run, on the disk or in the buffer
(`InBuffer`), is one of a shard behind, which no later step touches.  `Updated` is
what the tool can know of that shard: a flush that failed is remembered by
`unflushed` and by nothing in the tool.  The
offsets of a gradient file: naming them makes the manifest longer by less than a
block, so each moves by one block at most, and `LayoutSettles` shows that after
two rounds none moves (the code makes four).  Assumes that shards are numbered,
finite in number, and that an offset has at most the 19 digits of an `int64_t`
(`ModelAssumption`); the run evaluates it with seven digits, which its lengths
do not exceed.

Induction.  The library's induction theorems cannot be used, but a least
counterexample can: `NatMin` (a set of numbers has a least element, from the
well-foundedness of `<`) serves to show that the functions defined by recursion
in `ShardLoader`, `TaskDriver`, `PhaseOps`, `BatchedExecutor` and `ProgramCompiler`
exist and what they compute, that digits can be counted, and that `Reached` holds.

Only model-checked:

- every liveness property (`DecodeTerminates`, `PoolDrains`, `Answered`,
  `CallsReturn`): the provers do not reason about fairness or `ENABLED`;
- `GradientsAgree` and `LossReported`: two fixed programs of some hundred dispatches
  are compared term by term, which is evaluation rather than proof; they are
  built with operator arguments of the community modules (`FoldSet`, `FoldLeft`,
  bags), whose definitions the provers cannot instantiate.

## 7. Disagreements with the code

Four runs end in a violation.

`pool_wakeup`: `taskFinished` decrements
`activeTasks` and notifies without `doneMutex` (`executor.h:82`), so it can do
both between the evaluation of the predicate in `wait()` and its blocking; no
later task notifies and the main thread sleeps for ever.  `planner.cpp:97` calls
it to "wait for phase completion".

`trainer_targets`: with `fullseq_` the GPU pass trains row s towards `seq[s]`
(`gpt2_trainer.cpp:2146`, "same convention as last-position path"), the token
that row has as its input.  The last-position path takes row S-2 and `seq[S-1]`
because (line 1306) the row must not have seen its target.

`own_gradient`: `xshard_adapt.cpp:188` takes the record at position `shard.seq`
of the gradient file when its length fits, whatever its id, and line 210 reads
the block at the position that is the record's `seq` in the model file.  In the
run the shards 1 to 3 are a fold and shard 0 is not of it; `xshard_backward
--fold` writes their records at the positions 0 to 2.  `xshard_adapt --fold`
finds for shard 1 the record at position 1, that of shard 2, which fits, and
reads the block at position 2, that of shard 3: shard 1 is updated with the
gradient of shard 3 and nothing is reported.  The usage text says records are
"matched by seq/id/tensor".  `TRAINING.md:511` says that a mismatch ends in
errors, and so it does where the second position does not exist; line 513 advises
against `--fold`, which hides this case but not that of `xshard_adapt.cpp:210`
below.

`moments_reset`: a save under the GPU pass zeroes the moments, "one sub-optimal
Adam step" (`gpt2_trainer.cpp:2786`); the powers of beta keep counting, so the
bias correction is that of step n on moments of step 1, 2, 3...

Met while modelling and kept out of the properties, which say what does hold:

- `planner.cpp:22` fuses an add into the mul behind it without asking who else
  reads the sum, whose slot is no longer written: after `x = a + b; y = x * c;
  z = x + 1` the value of z is that of the old x.  `FusionAgrees` says how far
  this goes.
- `planner.cpp:49`: batches point into a vector that is gone when
  `planProgram` returns; `executePlan` runs on freed memory.
- `compiler.h:9` says the symbol table "reserves indices"; `resolve_i64`
  counts on its own and gives a symbol a slot a literal already has.
  `MeaningKept` shows that this is harmless while names are defined before use.
- `main.cpp:101` says the batched executor "does not run non-SIMD ops"; it does
  (`batch_executor.cpp:112`).
- `gpu-executor.js:189` avoids the GPU when the ratio GPU/CPU is below 0.9;
  `docs/gpu-executor.md:224` says it is then preferred.
- `gpu-detection.js:378` adds up `memory_total` of entries that have none, so
  an own detector never recommends the GPU.
- `gpu-executor.js:171` obeys `forceGPU` before asking whether there is a GPU;
  the decision tree of the document asks first.
- `gpu-executor.js:104` and `:136`: recording is inside the `try`.  When it throws
  after a CPU call that succeeded, the result is lost and the caller gets the
  error; in the fallback it reads "Both GPU and CPU execution failed", though
  both may have succeeded.  After a GPU call that succeeded the work is done
  again on the CPU.
- `bridge_server.py:113`: a task whose id is used again leaves the dictionary
  and outlives the "cancel any running tasks" of the reader.  `TableExact`,
  `StopCancelsAll` and `SilentAfterCancel` are stated for ids used once.
- `replay_lane_manager.h:156`: `load_from_disk` ignores the limit that line 44
  enforces; `LaneIsHistory` holds until a recovery.
- `replay_lane_manager.h:34` says "Archive every 100 traces"; the code archives
  at ticks divisible by 100 and only when that step was accepted.
- `replay_lane_manager.h:68` returns 0.5 for a fold without history;
  `unit_tests.cpp:55` asserts 0.
- `field_execution_engine.h:264`: the buffer is as long as the sum of the shard
  sizes, while the layout rounds each up to a tile: for sizes that are no
  multiple of a tile the last tiles lie past its end, and promoting such a fold
  asks for a mapping outside the resource.  A second manifest makes a buffer for
  its own shards alone, while the layout counts those of the first as well.
  `ResidencyExact` leaves out its tiles
  and says that no other fold suffers.
- `dds_shard_loader.h:87`: registering a HOT fold again, as a shard or as a
  specialist (line 92), clears its flag and leaves its heap and its tiles behind,
  which a changed layout gives to other folds; a new buffer has no mappings while
  its HOT folds keep flag and heap.  `ResidencyExact` excepts both until the fold
  is promoted or demoted again.
- `field_execution_engine.h:66`: ticks start at zero again with each process, so
  its session files replace those of the run before, name by name.
- `field_execution_engine.h:117` drops the answer of `update_fold_residency`,
  and no code demotes a fold: when heaps run out, steps go on with a COLD fold.
- `xshard.h:265`: a shard whose write was cut short keeps its old state byte,
  and the SHA-256 values are written but never compared, so the next run
  trains on it.  `TrainedMeansUpdated` is the direction that holds.
- `xshard.h:271` does not look at the result of `fflush`: when it fails, the shard
  is torn and marked as trained all the same.  The state byte itself is flushed
  by a seek or the close, whose result is not looked at either.
- `xshard_adapt.cpp:285`: without a ledger that can be opened, shards are trained
  and marked and no entry is made.
- `xshard_adapt.cpp:210`: the block read may be longer than the buffer for it.
  With a shard that is not F32 in front, positions move without `--fold`: in a
  model of `training` the record of shard 1 is found by its id, and the block at
  position 1 is the longer one of shard 2.  Writing past the buffer is undefined;
  the model goes on, with a gradient that does not fit.
- `gpt2_trainer.cpp:1328` masks targets outside INSTRUCT spans; the GPU pass
  has no such mask, only whole sequences are skipped there (line 2956).
- `gpt2_trainer.cpp:2867` divides by `save_every` without the test for zero
  that line 2971 makes.
- `gpt2_trainer.cpp:2981`: an output path without ".safetensors" makes the
  numbered checkpoint overwrite the output.  `CrashLosesLittle` asks for the
  suffix.

## 8. What is not covered

Within modelled components: the arithmetic of attention, logits and
quantisation; f32 operations of the compiler, the grouping into batches and
`executePlan`; the JSON syntax of task lists; `dispatchOne` of the task driver;
runtimes, feedback and listeners that throw in the brain bridge; the router
behind the bridge server; attention, pressure, gravity and the metric tensor
of the field engine; `.xshard` readers of the shard loader and the removal of a
device by a mapping outside the buffer.  A context of the
DAG scheduler and a handle of the task driver load once.

Of the trainers: the arithmetic of kernels and of the optimiser, the completion
mask, gradient clipping, writes of a checkpoint that fail without a crash
(`save` looks at no result of its `ofstream`,
`gpt2_trainer.cpp:3021-3029`), loading of models and data, `d3d11_engine.cpp` and
`scx_dds_loader.cpp`.  Of the shard tools: the text of manifests, hashes,
`--grad-file` and `--grad-dir`, the inspector.

Left out altogether: shaders and inference drivers (numerics in straight
lines); sequential text transformations (kernel compiler, KDML, readers,
emitters, tools); the swarm runtime, a loop over its own table; the tool
registry, which nothing includes; process wrappers; vendored code; documents
and data.  The reader of the shared header is not in the repository.  The
components of `PROJECT.json` marked `not_modelled` give the reason for each.

By lines most of the repository is of these kinds: JSON and OpenCL headers,
the D3D12 samples with four copies of `d3dx12.h`, generated kernels, emitters
and examples in several copies.  Share of lines says little here; what keeps
state, runs concurrently, fails half-way or is run again is modelled, except
where section 2 lists it as left.
