----------------------------- MODULE MCDrivers -----------------------------
EXTENDS Drivers

SeqsUpTo(S, n) == UNION {[1..m -> S] : m \in 0..n}

MCId == 1..4

\* For dag: all lists of three tasks with up to two dependencies each,
\* repeated, cyclic and self-dependencies included; four tasks with at most
\* one dependency; a list with a missing dependency and one with an id that is
\* there twice.
MCTaskLists ==
  { << [id |-> 2, dependsOn |-> x], [id |-> 3, dependsOn |-> y],
       [id |-> 1, dependsOn |-> z] >> : x, y, z \in SeqsUpTo(1..3, 2) }
  \cup { << [id |-> 4, dependsOn |-> w], [id |-> 2, dependsOn |-> x],
            [id |-> 3, dependsOn |-> y], [id |-> 1, dependsOn |-> z] >> :
           w, x, y, z \in SeqsUpTo(1..4, 1) }
  \cup { << [id |-> 1, dependsOn |-> <<>>], [id |-> i, dependsOn |-> <<4>>] >> :
           i \in 1..2 }

MCKdTasks(id) == [id : {id}, provider : {"wasm", "gpu"},
                dependsOn : SUBSET {"a", "b", "c"}]

\* For kd: every list of the tasks a, b, c, cyclic ones included, some lists
\* with a dependency that is missing, an id that is there twice or a provider
\* nobody registered, and the empty list.
MCKdLists ==
  { <<x, y, z>> : x \in MCKdTasks("c"), y \in MCKdTasks("a"), z \in MCKdTasks("b") }
  \cup { << [id |-> "a", provider |-> p, dependsOn |-> d],
            [id |-> b, provider |-> "wasm", dependsOn |-> {"a"}] >> :
         p \in {"wasm", "mcp"}, d \in {{}, {"x"}}, b \in {"a", "b"} }
  \cup { <<>> }

\* gpu is registered and not available; no provider at all gives wasm.
MCKdProviders == { [p \in {"wasm", "gpu"} |-> p = "wasm"], [p \in {} |-> TRUE] }
=============================================================================
