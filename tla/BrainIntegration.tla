------------------------- MODULE BrainIntegration -------------------------
(***************************************************************************)
(* The two services of brain-integration/ a caller talks to: the bridge    *)
(* with its cache, and the GPU executor.  A behaviour uses one of them.    *)
(***************************************************************************)
EXTENDS BrainBridge

CONSTANTS Executions, Benchmarks, Iterations, Times, Hosts

VARIABLES service, detector, prefer, performanceCache, exec, tried, bench

Gpu == INSTANCE GpuExecutor

gpuVars == <<detector, prefer, performanceCache, exec, tried, bench>>

IntegrationInit ==
  /\ service \in {"bridge", "executor"}
  /\ Init /\ Gpu!Init
  /\ service = "bridge" =>
       prefer /\ detector = [own |-> TRUE, host |-> [nvidia |-> <<>>, intel |-> FALSE]]

IntegrationNext ==
  \/ service = "bridge" /\ Next /\ UNCHANGED <<service, gpuVars>>
  \/ service = "executor" /\ Gpu!Next /\ UNCHANGED <<service, vars>>

IntegrationSpec == IntegrationInit /\ [][IntegrationNext]_<<service, vars, gpuVars>>

-----------------------------------------------------------------------------
\* The metadata of an execution names the side whose result is handed out,
\* whatever failed on the way, and the caller sees a failure only when the CPU
\* has failed.
OutcomeHonest == Gpu!OutcomeHonest
=============================================================================
