---------------------------- MODULE FieldRuntime ----------------------------
(***************************************************************************)
(* FieldExecutionEngine over its shard loader (field_execution_engine.h,   *)
(* dds_shard_loader.h): the routing phase of every step asks for the fold  *)
(* of its query to be HOT and goes on whatever becomes of that; manifests  *)
(* are loaded between steps; a restart loses the loader with the lane and  *)
(* keeps the session files.  The step, the lane and the files are those of *)
(* FieldEngine, registration and residency those of ShardLoader.           *)
(***************************************************************************)
EXTENDS FieldEngine

CONSTANTS MaxFold, Tile, Sizes, Manifests, MaxHeaps,
          MaxEvents  \* bound: ticks and manifests of a run together

ASSUME RuntimeAssumption ==
  /\ MaxFold \in Nat /\ Tile \in Nat \ {0} /\ Sizes \subseteq Nat \ {0}
  /\ Manifests \in Nat /\ MaxHeaps \in Nat /\ MaxEvents \in Nat
  /\ Folds = 0..MaxFold

VARIABLES device, size, hot, heap, buffer, mapped, made, manifests, left

Loader == INSTANCE ShardLoader

loaderVars == <<device, size, hot, heap, buffer, mapped, made, manifests, left>>

RuntimeInit == Init /\ Loader!Init

\* What the routing phase asks of the loader.  Its answer is not looked at: an
\* unknown fold, or a heap that cannot be created, stops nothing.
Route(fold) ==
  \/ device /\ Loader!Promote(fold)
  \/ /\ ~hot[fold] /\ buffer # Loader!Absent  \* CreateHeap failed
     /\ UNCHANGED loaderVars
  \/ /\ ~device \/ ~Loader!Known(fold) \/ hot[fold]
     /\ UNCHANGED loaderVars

Room == tick + manifests < MaxEvents

RuntimeStep(fold, query) == Room /\ Route(fold) /\ Step(fold, query)

\* The process dies and starts again.
RuntimeRestart ==
  /\ Restart
  /\ size' = [f \in Folds |-> Loader!Absent] /\ hot' = [f \in Folds |-> FALSE]
  /\ heap' = [f \in Folds |-> Loader!Absent] /\ buffer' = Loader!Absent
  /\ mapped' = [t \in DOMAIN mapped |-> Loader!Absent]
  /\ made' = 0 /\ manifests' = 0 /\ UNCHANGED device
  /\ left' = [folds |-> {}, tiles |-> {}]

Recover == /\ \E t \in DOMAIN disk : LoadFromDisk(t)
           /\ UNCHANGED loaderVars

\* load_manifest, and update_fold_residency(fold, false) by a host.
Register ==
  /\ \/ /\ Room
        /\ \E F \in SUBSET Folds :
             \E manifest \in [F -> Sizes], specialists \in SUBSET (Folds \ F) :
               Loader!LoadManifest(manifest, specialists)
     \/ \E f \in Folds : Loader!Demote(f)
  /\ UNCHANGED vars

RuntimeNext ==
  \/ \E fold \in Folds, query \in Queries : RuntimeStep(fold, query)
  \/ RuntimeRestart \/ Recover \/ Register

RuntimeSpec == RuntimeInit /\ [][RuntimeNext]_<<vars, loaderVars>>

-----------------------------------------------------------------------------
(* Properties.                                                             *)

\* Whatever manifests are loaded between the steps: only a HOT fold has a heap,
\* and every tile is mapped to the heap of the fold it belongs to, or to nothing
\* when that fold has none.  What a registration finds HOT is excepted until the
\* fold is promoted or demoted again, and so are the tiles of a fold behind the
\* end of the buffer; neither touches the tiles of another fold.
ResidencyExact == Loader!ResidencyExact
=============================================================================
