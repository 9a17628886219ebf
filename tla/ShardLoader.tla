---------------------------- MODULE ShardLoader -----------------------------
(***************************************************************************)
(* The fold shards of dds_shard_loader.h: registration by load_manifest of *)
(* FieldExecutionEngine, promotion to and demotion from HOT residency, and *)
(* the tiles of the reserved buffer that D3D12 maps to physical heaps.     *)
(* Sizes are counted in units of which Tile make a 64 KB tile.  Specialist *)
(* .xshard files reach no tile; of them only the residency flag matters.   *)
(***************************************************************************)
EXTENDS Naturals, FiniteSets, FiniteSetsExt

CONSTANTS
  MaxFold,   \* folds are 0..MaxFold
  Tile,      \* units of a tile
  Sizes,     \* sizes a shard may have
  Manifests, \* bound: manifests loaded
  MaxHeaps   \* bound: heaps created

FoldIds == 0..MaxFold
Absent == 0

VARIABLES
  device,    \* is there a D3D12 device
  size,      \* fold -> size in m_shards, Absent where it has no entry
  hot,       \* m_fold_residency
  heap,      \* m_physical_heaps, Absent where it has no entry
  buffer,    \* units of the reserved resource, Absent before it exists
  mapped,    \* tile -> heap it is mapped to by the queue, or Absent
  made,      \* heaps created so far
  manifests, \* manifests loaded so far
  left       \* history: what the last registration found and left as it was:
             \* [folds with a heap, mapped tiles], until they are dealt with

vars == <<device, size, hot, heap, buffer, mapped, made, manifests, left>>

\* Every tile a fold could reach.
TileSpace == 0..(Cardinality(FoldIds) * Max(Sizes))

TilesOf(n) == (n + Tile - 1) \div Tile

Init ==
  /\ device \in BOOLEAN
  /\ size = [f \in FoldIds |-> Absent]
  /\ hot = [f \in FoldIds |-> FALSE]
  /\ heap = [f \in FoldIds |-> Absent]
  /\ buffer = Absent /\ mapped = [t \in TileSpace |-> Absent]
  /\ made = 0 /\ manifests = 0
  /\ left = [folds |-> {}, tiles |-> {}]

-----------------------------------------------------------------------------
(* The layout of the folds in the buffer.                                  *)

\* calculate_start_tile; a fold that is not registered takes no tiles.
StartTile(f) ==
  LET start[i \in FoldIds] ==
        IF i = 0 THEN 0 ELSE start[i - 1] + TilesOf(size[i - 1])
  IN start[f]

Span(f) == StartTile(f)..(StartTile(f) + TilesOf(size[f]) - 1)

\* The layout rounds every fold up to whole tiles, the buffer the sum of their
\* sizes: the last folds may lie behind its end.
BufferTiles == 0..(TilesOf(buffer) - 1)
Inside(f) == Span(f) \subseteq BufferTiles

\* UpdateTileMappings of f's tiles.  It returns nothing; a region that is not
\* inside the resource is an error D3D12 may answer by dropping the call or by
\* mapping the tiles there are.
Mappings(f, to) ==
  LET there == Span(f) \cap BufferTiles
      done == [t \in TileSpace |-> IF t \in there THEN to ELSE mapped[t]]
  IN IF Inside(f) THEN {done} ELSE {done, mapped}

-----------------------------------------------------------------------------
(* Operations.                                                             *)

\* load_manifest: every shard and every specialist is registered - by a second
\* manifest some again, a HOT fold among them: its flag is cleared and its heap
\* kept.  The buffer is created for the sum of this manifest's shards; creating
\* it may fail, and has released the old one and its mappings by then.  Without
\* a device or shards, or after an exception, the buffer is as it was.
LoadManifest(manifest, specialists) ==
  /\ manifests < Manifests /\ manifests' = manifests + 1
  /\ size' = [f \in FoldIds |-> IF f \in DOMAIN manifest THEN manifest[f] ELSE size[f]]
  /\ hot' = [f \in FoldIds |-> f \notin DOMAIN manifest \cup specialists /\ hot[f]]
  /\ \/ /\ device
        /\ buffer' \in {MapThenSumSet(LAMBDA f : manifest[f], DOMAIN manifest), Absent}
        /\ mapped' = [t \in TileSpace |-> Absent]
     \/ UNCHANGED <<buffer, mapped>>
  /\ left' = [folds |-> {f \in FoldIds : heap[f] # Absent},
              tiles |-> {t \in TileSpace : mapped'[t] # Absent}]
  /\ UNCHANGED <<device, heap, made>>

Known(f) == size[f] # Absent

\* update_fold_residency without the hardware: the flag alone.
FlagOnly(f, to) ==
  /\ ~device \/ buffer = Absent
  /\ hot' = [hot EXCEPT ![f] = to]
  /\ UNCHANGED <<device, size, heap, buffer, mapped, made, manifests, left>>

DealtWith(f) == [folds |-> left.folds \ {f}, tiles |-> left.tiles \ Span(f)]

\* Promotion: a heap for the fold, and its tiles mapped to it.  CreateHeap may
\* fail: nothing changes.  A heap it replaces is released.
Promote(f) ==
  /\ Known(f) /\ ~hot[f]
  /\ \/ FlagOnly(f, TRUE)
     \/ /\ device /\ buffer # Absent /\ made < MaxHeaps
        /\ made' = made + 1
        /\ heap' = [heap EXCEPT ![f] = made']
        /\ mapped' \in Mappings(f, made')
        /\ hot' = [hot EXCEPT ![f] = TRUE]
        /\ left' = DealtWith(f)
        /\ UNCHANGED <<device, size, buffer, manifests>>

\* Variant: the heap is kept.
DemoteKeeping(f) ==
  /\ Known(f) /\ hot[f]
  /\ \/ FlagOnly(f, FALSE)
     \/ /\ device /\ buffer # Absent
        /\ mapped' \in Mappings(f, Absent)
        /\ hot' = [hot EXCEPT ![f] = FALSE]
        /\ left' = DealtWith(f)
        /\ UNCHANGED <<device, size, heap, buffer, made, manifests>>

\* Demotion: the null mapping, and the heap is released.
Demote(f) ==
  /\ Known(f) /\ hot[f]
  /\ \/ FlagOnly(f, FALSE)
     \/ /\ device /\ buffer # Absent
        /\ mapped' \in Mappings(f, Absent)
        /\ heap' = [heap EXCEPT ![f] = Absent]
        /\ hot' = [hot EXCEPT ![f] = FALSE]
        /\ left' = DealtWith(f)
        /\ UNCHANGED <<device, size, buffer, made, manifests>>

-----------------------------------------------------------------------------
Next ==
  \/ \E F \in SUBSET FoldIds :
       \E manifest \in [F -> Sizes], specialists \in SUBSET (FoldIds \ F) :
         LoadManifest(manifest, specialists)
  \/ \E f \in FoldIds : Promote(f) \/ Demote(f)

Spec == Init /\ [][Next]_vars

-----------------------------------------------------------------------------
(* Properties.                                                             *)

\* Whatever is registered, promoted and demoted in whatever order: only a HOT
\* fold has a heap, and every tile is mapped to the heap of the fold it belongs
\* to, or to nothing when that fold has none.  Two things are left out, both by
\* the code (README, section 7): what a registration finds HOT or mapped is not
\* taken back, and stays in left until that fold is promoted or demoted; and
\* nothing is said of the tiles of a fold behind the end of the buffer.  No
\* other fold suffers from either.
ResidencyExact ==
  /\ \A f \in FoldIds \ left.folds : heap[f] # Absent => hot[f]
  /\ LET behind == UNION {Span(f) : f \in {g \in FoldIds : ~Inside(g)}}
     IN \A t \in TileSpace \ (left.tiles \cup behind) :
          mapped[t] = LET owner == {f \in FoldIds \ left.folds :
                                      heap[f] # Absent /\ t \in Span(f)}
                      IN IF owner = {} THEN Absent ELSE heap[CHOOSE f \in owner : TRUE]
=============================================================================
