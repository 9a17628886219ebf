----------------------------- MODULE GpuExecutor -----------------------------
(***************************************************************************)
(* brain-integration/gpu-executor.js over gpu-detection.js.  Executions    *)
(* and benchmarks of one operation interleave at their awaits: the route   *)
(* of an execution is decided before its implementation is awaited, and a  *)
(* benchmark may end in between.  A failed GPU call falls back to the CPU, *)
(* and so does one whose result cannot be recorded.                        *)
(*                                                                         *)
(* The executor is given a detector or makes a GPUDetector of its own.     *)
(***************************************************************************)
EXTENDS Integers, FiniteSets, Sequences, FiniteSetsExt, SequencesExt

CONSTANTS Executions,    \* calls of execute()
          Benchmarks,    \* calls of benchmark()
          Iterations,    \* options.iterations
          Times,         \* what a run of an implementation may take
          Hosts          \* hardware: [nvidia, the memory of its cards; intel]

VARIABLES
  detector,  \* [own, host]: own detector, or an injected one that works
  prefer,    \* config.prefer_gpu of the operation
  performanceCache, \* NoRatio or the four numbers the ratio comes from
  exec,      \* state of each execution
  tried,     \* what became of the call of each implementation, by execution
  bench      \* state of each benchmark

vars == <<detector, prefer, performanceCache, exec, tried, bench>>

NoRatio == [gpu |-> 0, gpuRuns |-> 0, cpu |-> 0, cpuRuns |-> 0]

-----------------------------------------------------------------------------
(* GPUDetector, memory in GB.  The entry of NVIDIA holds its cards in a    *)
(* field of its own and no memory_total; the other entries have none.      *)

Entry(type, cards) == [type |-> type, memory_total |-> 0, devices |-> cards]

OwnDevices ==
  (IF detector.host.nvidia # <<>>
   THEN <<Entry("NVIDIA", detector.host.nvidia)>> ELSE <<>>)
  \o (IF detector.host.intel THEN <<Entry("Intel", <<>>)>> ELSE <<>>)

CardMemory == FoldSeq(LAMBDA m, sum : m + sum, 0, detector.host.nvidia)

\* An injected detector adds the cards up.
TotalMemory ==
  IF detector.own
  THEN FoldSeq(LAMBDA d, sum : d.memory_total + sum, 0, OwnDevices)
  ELSE CardMemory

ShouldUseGPU == OwnDevices # <<>> /\ TotalMemory > 1
HasCuda == detector.host.nvidia # <<>>

-----------------------------------------------------------------------------
(* execute()                                                               *)

Idle == [pc |-> "none", gpu |-> FALSE, force |-> "no", big |-> FALSE,
         on |-> "none"]

\* A call that threw, and one that returned a result whose recording by
\* metricsStorage threw, end in the same catch block.
Failures == {"threw", "unrecorded"}

Init ==
  /\ detector \in [own : BOOLEAN, host : Hosts]
  /\ prefer \in BOOLEAN
  /\ performanceCache = NoRatio
  /\ exec = [e \in Executions |-> Idle]
  /\ tried = [e \in Executions |-> [gpu |-> "no", cpu |-> "no"]]
  /\ bench = [b \in Benchmarks |-> [pc |-> "none", runs |-> 0, sums |-> NoRatio]]

\* performanceRatio < 0.9; the ratio is GPU time over CPU time.
RatioBelow(c) == 10 * c.gpu * c.cpuRuns < 9 * c.cpu * c.gpuRuns

DecideGPURoute(force, big) ==
  \/ force = "gpu"
  \/ /\ force = "no" /\ ShouldUseGPU /\ big
     /\ performanceCache = NoRatio \/ ~RatioBelow(performanceCache)
     /\ prefer /\ HasCuda

Execute(e) ==
  /\ exec[e].pc = "none"
  /\ \E force \in {"no", "gpu", "cpu"}, big \in BOOLEAN :
       LET gpu == DecideGPURoute(force, big)
       IN /\ exec' = [exec EXCEPT ![e].pc = "await", ![e].gpu = gpu,
                                  ![e].force = force, ![e].big = big]
          /\ tried' = [tried EXCEPT
                         ![e] = [gpu |-> IF gpu THEN "running" ELSE "no",
                                 cpu |-> IF gpu THEN "no" ELSE "running"]]
  /\ UNCHANGED <<detector, prefer, performanceCache, bench>>

OnGpu(e) == exec[e].pc = "await" /\ exec[e].gpu

\* The call that runs ends so.
Ends(e, how) ==
  IF OnGpu(e) THEN [tried[e] EXCEPT !.gpu = how] ELSE [tried[e] EXCEPT !.cpu = how]

\* The implementation has returned and its result is recorded.
Fulfilled(e) ==
  /\ exec[e].pc \in {"await", "fallback"}
  /\ exec' = [exec EXCEPT
       ![e].pc = "done",
       ![e].on = IF exec[e].pc = "fallback" THEN "CPU (fallback)"
                 ELSE IF exec[e].gpu THEN "GPU" ELSE "CPU"]
  /\ tried' = [tried EXCEPT ![e] = Ends(e, "returned")]
  /\ UNCHANGED <<detector, prefer, performanceCache, bench>>

\* Variant: the failure of the GPU is passed on.
ThrewOn(e) ==
  /\ exec[e].pc = "await"
  /\ \E how \in Failures : tried' = [tried EXCEPT ![e] = Ends(e, how)]
  /\ exec' = [exec EXCEPT ![e].pc = "failed"]
  /\ UNCHANGED <<detector, prefer, performanceCache, bench>>

\* On the GPU the catch block calls the CPU; the CPU's failure is rethrown.
Threw(e) ==
  /\ exec[e].pc = "await"
  /\ \E how \in Failures :
       tried' = [tried EXCEPT ![e] = IF OnGpu(e)
                                     THEN [Ends(e, how) EXCEPT !.cpu = "running"]
                                     ELSE Ends(e, how)]
  /\ exec' = [exec EXCEPT ![e].pc = IF OnGpu(e) THEN "fallback" ELSE "failed"]
  /\ UNCHANGED <<detector, prefer, performanceCache, bench>>

FallbackThrew(e) ==
  /\ exec[e].pc = "fallback"
  /\ \E how \in Failures : tried' = [tried EXCEPT ![e] = Ends(e, how)]
  /\ exec' = [exec EXCEPT ![e].pc = "failed"]
  /\ UNCHANGED <<detector, prefer, performanceCache, bench>>

-----------------------------------------------------------------------------
(* benchmark()                                                             *)

Start(b) ==
  /\ bench[b].pc = "none"
  /\ bench' = [bench EXCEPT ![b].pc = IF ShouldUseGPU THEN "gpu" ELSE "cpu"]
  /\ UNCHANGED <<detector, prefer, performanceCache, exec, tried>>

\* One iteration; a failed one leaves no time behind.
Iterate(b) ==
  /\ bench[b].pc \in {"gpu", "cpu"} /\ bench[b].runs < Iterations
  /\ \/ bench' = [bench EXCEPT ![b].runs = @ + 1]
     \/ \E t \in Times :
          bench' = [bench EXCEPT
            ![b].runs = @ + 1,
            ![b].sums = IF bench[b].pc = "gpu"
                        THEN [@ EXCEPT !.gpu = @ + t, !.gpuRuns = @ + 1]
                        ELSE [@ EXCEPT !.cpu = @ + t, !.cpuRuns = @ + 1]]
  /\ UNCHANGED <<detector, prefer, performanceCache, exec, tried>>

TurnToCpu(b) ==
  /\ bench[b].pc = "gpu" /\ bench[b].runs = Iterations
  /\ bench' = [bench EXCEPT ![b].pc = "cpu", ![b].runs = 0]
  /\ UNCHANGED <<detector, prefer, performanceCache, exec, tried>>

Analyse(b) ==
  /\ bench[b].pc = "cpu" /\ bench[b].runs = Iterations
  /\ bench' = [bench EXCEPT ![b].pc = "done"]
  /\ performanceCache' = IF bench[b].sums.gpu > 0 /\ bench[b].sums.cpuRuns > 0
                         THEN bench[b].sums ELSE performanceCache
  /\ UNCHANGED <<detector, prefer, exec, tried>>

Settle(e) == Fulfilled(e) \/ Threw(e) \/ FallbackThrew(e)
Run(b) == Iterate(b) \/ TurnToCpu(b) \/ Analyse(b)

Next == \/ \E e \in Executions : Execute(e) \/ Settle(e)
        \/ \E b \in Benchmarks : Start(b) \/ Run(b)

Spec == Init /\ [][Next]_vars

-----------------------------------------------------------------------------
\* The metadata names the side whose result is handed out, whatever failed on
\* the way.  The caller sees a failure only after the CPU has been tried, and
\* when no call, on either side, gave a result that was recorded.  It does not
\* follow that the CPU's call failed: its result is lost, too, when recording
\* it throws.
OutcomeHonest ==
  \A e \in Executions :
    LET gpu == tried[e].gpu
        cpu == tried[e].cpu
    IN /\ exec[e].pc = "done" =>
            \/ exec[e].on = "GPU" /\ gpu = "returned" /\ cpu = "no"
            \/ exec[e].on = "CPU" /\ gpu = "no" /\ cpu = "returned"
            \/ exec[e].on = "CPU (fallback)" /\ gpu \in Failures /\ cpu = "returned"
       /\ exec[e].pc = "failed" => cpu \in Failures /\ gpu \in Failures \cup {"no"}
=============================================================================
