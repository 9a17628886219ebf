----------------------------- MODULE MCTraining -----------------------------
(* The values of Training's constants.                                     *)
EXTENDS Training, TLC

MCConfigs == [gpu : BOOLEAN, suffix : BOOLEAN, trainable : SUBSET (0 .. NSeq - 1)]

Biases == {"gravity", "fold", "think"}

\* Every combination of the score biases, one or two sequences, each path.
MCModes ==
  [full : BOOLEAN, bias : SUBSET Biases, S : {2}, n : {1, 2}]
  \cup [full : BOOLEAN, bias : {{}, Biases}, S : {3}, n : {2}]

Shard(f, q, n) == [fold |-> f, f32 |-> q, size |-> n]

\* Shards of one fold and of two, an integer shard, lengths that differ.
MCModels == {
  (0 :> Shard("Pop", TRUE, 2)) @@ (1 :> Shard("Sek", TRUE, 1)) @@ (2 :> Shard("Sek", FALSE, 1)),
  (0 :> Shard("Sek", FALSE, 1)) @@ (1 :> Shard("Chen", TRUE, 1)) @@ (2 :> Shard("Chen", TRUE, 2)),
  (0 :> Shard("Chen", TRUE, 1)) @@ (1 :> Shard("Chen", TRUE, 1))}

\* A fold of three shards behind another shard: the records of a file made for
\* it stand one position before their shards.
MCFoldModels == {
  (0 :> Shard("Pop", TRUE, 2)) @@ (1 :> Shard("Sek", TRUE, 1))
  @@ (2 :> Shard("Sek", TRUE, 1)) @@ (3 :> Shard("Sek", TRUE, 1))}

\* Two offsets of one to five digits.
MCLengths == 1 .. 12000
=============================================================================
