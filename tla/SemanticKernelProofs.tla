------------------------ MODULE SemanticKernelProofs ------------------------
(***************************************************************************)
(* Proofs about the commands of the semantic kernel, for any number of     *)
(* workers and any programs.  In this order: what the recursive functions  *)
(* of the models compute; the pool under the executor; the shape of the    *)
(* shared context; emits; programs without races; the two executors        *)
(* compared; the compiler's buffer, symbols and nodes; fusion; meaning.    *)
(***************************************************************************)
EXTENDS SemanticKernel, FiniteSetTheorems, SequenceTheorems,
        WellFoundedInduction, TLAPS

-----------------------------------------------------------------------------
(* Numbers, and functions defined by recursion on them.                    *)

\* A set of numbers has a least one: what stands in for an induction.
LEMMA NatMin ==
  ASSUME NEW T, T \subseteq Nat, T # {}
  PROVE  \E x \in T : \A y \in T : x <= y
<1> DEFINE R == {ss \in Nat \X Nat : ss[1] < ss[2]}
<1>1. R = OpToRel(<, Nat)
  BY Zenon DEF OpToRel
<1>2. IsWellFoundedOn(R, Nat)
  BY <1>1, NatLessThanWellFounded, Zenon
<1>3. \A x, y \in Nat : x < y => <<x, y>> \in R
  OBVIOUS
<1> HIDE DEF R
<1>4. PICK x \in T : \A y \in T : ~(<<y, x>> \in R)
  BY <1>2, WFMin
<1>5. \A y \in T : ~(y < x)
  BY <1>3, <1>4
<1> QED
  BY <1>5

\* The same in the form the proofs below use: a set that holds 0, and with a
\* number the next one, holds every number up to n.
LEMMA UpTo ==
  ASSUME NEW n \in Nat, NEW S, 0 \in S,
         \A i \in 1..n : i - 1 \in S => i \in S
  PROVE  \A i \in 0..n : i \in S
<1> DEFINE T == {i \in 0..n : i \notin S}
<1> SUFFICES ASSUME T # {} PROVE FALSE
  OBVIOUS
<1>1. PICK i \in T : \A k \in T : i <= k
  <2>1. T \subseteq Nat
    OBVIOUS
  <2> HIDE DEF T
  <2> QED
    BY <2>1, NatMin
<1>2. i \in 1..n /\ i - 1 \in 0..n /\ ~(i <= i - 1)
  BY <1>1
<1>3. i - 1 \notin T
  BY <1>1, <1>2
<1> QED
  BY <1>1, <1>2, <1>3

IsRun(f, n, c, F) == f = [i \in 0..n |-> IF i = 0 THEN c ELSE F[i][f[i - 1]]]

\* There is a function that starts with c and goes on by F.
LEMMA RunExists ==
  ASSUME NEW c, NEW F, NEW n \in Nat
  PROVE  \E f : IsRun(f, n, c, F)
<1> DEFINE S == {m \in 0..n : \E f : IsRun(f, m, c, F)}
<1>1. 0 \in S
  <2> DEFINE f == [i \in 0..0 |-> c]
  <2>1. IsRun(f, 0, c, F)
    BY DEF IsRun
  <2> QED
    BY <2>1
<1>2. ASSUME NEW m \in 1..n, m - 1 \in S PROVE m \in S
  <2>1. PICK f : IsRun(f, m - 1, c, F)
    BY <1>2
  <2> DEFINE g == [i \in 0..m |-> IF i < m THEN f[i] ELSE F[m][f[m - 1]]]
             h == [i \in 0..m |-> IF i = 0 THEN c ELSE F[i][g[i - 1]]]
  <2>2. ASSUME NEW i \in 0..m PROVE g[i] = h[i]
    <3>1. CASE i < m
      <4>1. i \in 0..(m - 1) /\ g[i] = f[i]
        BY <3>1
      <4>2. f[i] = IF i = 0 THEN c ELSE F[i][f[i - 1]]
        BY <2>1, <4>1 DEF IsRun
      <4>3. i # 0 => i - 1 \in 0..m /\ i - 1 < m
        BY <3>1
      <4> QED
        BY <4>1, <4>2, <4>3
    <3>2. CASE ~(i < m)
      <4>1. i = m /\ i - 1 \in 0..m /\ i - 1 < m /\ i # 0
        BY <1>2, <3>2
      <4> QED
        BY <4>1
    <3> QED
      BY <3>1, <3>2
  <2>3. g = h
    BY <2>2
  <2>4. IsRun(g, m, c, F)
    BY <2>3 DEF IsRun
  <2> QED
    BY <1>2, <2>4
<1>3. n \in S
  <2> HIDE DEF S
  <2> QED
    BY <1>1, <1>2, UpTo
<1> QED
  BY <1>3

\* Two that start alike and go on alike are alike.
LEMMA RunUnique ==
  ASSUME NEW f, NEW g, NEW m \in Nat, f[0] = g[0],
         \A i \in 1..m : f[i - 1] = g[i - 1] => f[i] = g[i]
  PROVE  \A i \in 0..m : f[i] = g[i]
<1> DEFINE S == {i \in 0..m : f[i] = g[i]}
<1>1. 0 \in S
  OBVIOUS
<1>2. \A i \in 1..m : i - 1 \in S => i \in S
  OBVIOUS
<1>3. \A i \in 0..m : i \in S
  <2> HIDE DEF S
  <2> QED
    BY <1>1, <1>2, UpTo
<1> QED
  BY <1>3

\* Its values are where the steps lead.
LEMMA RunTyped ==
  ASSUME NEW c, NEW F, NEW n \in Nat, NEW f, IsRun(f, n, c, F), NEW T, c \in T[0],
         \A i \in 1..n : \A x \in T[i - 1] : F[i][x] \in T[i]
  PROVE  \A i \in 0..n : f[i] \in T[i]
<1> DEFINE S == {i \in 0..n : f[i] \in T[i]}
<1>1. 0 \in S
  BY DEF IsRun
<1>2. ASSUME NEW i \in 1..n, i - 1 \in S PROVE i \in S
  <2>1. i \in 0..n /\ f[i] = F[i][f[i - 1]]
    BY DEF IsRun
  <2> QED
    BY <1>2, <2>1
<1>3. \A i \in 0..n : i \in S
  <2> HIDE DEF S
  <2> QED
    BY <1>1, <1>2, UpTo
<1> QED
  BY <1>3

Steps(n, c, F, T) ==
  c \in T[0] /\ \A i \in 1..n : \A x \in T[i - 1] : F[i][x] \in T[i]

Follows(f, n, c, F, T) ==
  /\ f = [i \in 0..n |-> f[i]]
  /\ f[0] = c
  /\ \A i \in 1..n : f[i] = F[i][f[i - 1]]
  /\ \A i \in 0..n : f[i] \in T[i]

LEMMA Recursion ==
  ASSUME NEW c, NEW F, NEW n \in Nat, NEW T, Steps(n, c, F, T)
  PROVE  \E f : Follows(f, n, c, F, T)
<1> USE DEF Steps, Follows
<1>1. PICK f : IsRun(f, n, c, F)
  BY RunExists
<1>2. \A i \in 0..n : f[i] \in T[i]
  BY <1>1, RunTyped
<1>3. f = [i \in 0..n |-> f[i]] /\ f[0] = c
  BY <1>1 DEF IsRun
<1>4. \A i \in 1..n : f[i] = F[i][f[i - 1]]
  BY <1>1 DEF IsRun
<1> QED
  BY <1>2, <1>3, <1>4

\* What satisfies the equations of such a function is one.
LEMMA IsFunction ==
  ASSUME NEW n, NEW f, NEW g, f = [i \in 0..n |-> f[i]],
         g = [i \in 0..n |-> g[i]], \A i \in 0..n : f[i] = g[i]
  PROVE  f = g
OBVIOUS

-----------------------------------------------------------------------------
(* The elements of a sequence that are in a set.                           *)

Taken(s, S, f, i) == IF s[i] \in S THEN Append(f[i - 1], s[i]) ELSE f[i - 1]

IsTaking(s, S, f) ==
  f = [i \in 0..Len(s) |-> IF i = 0 THEN <<>> ELSE Taken(s, S, f, i)]

OnlyUpTo(f, s, S, X) ==
  /\ Only(s, S) = f[Len(s)]
  /\ f[0] = <<>>
  /\ \A i \in 1..Len(s) : f[i] = Taken(s, S, f, i)
  /\ \A i \in 0..Len(s) : f[i] \in Seq(X)

LEMMA OnlyRun ==
  ASSUME NEW X, NEW s \in Seq(X), NEW S
  PROVE  \E f : OnlyUpTo(f, s, S, X)
<1> DEFINE n == Len(s)
           F == [i \in 1..n |-> [x \in Seq(X) |->
                   IF s[i] \in S THEN Append(x, s[i]) ELSE x]]
           T == [i \in 0..n |-> Seq(X)]
<1>1. n \in Nat /\ <<>> \in Seq(X) /\ \A i \in 1..n : s[i] \in X
  OBVIOUS
<1>2. \A i \in 1..n : \A x \in Seq(X) : F[i][x] \in Seq(X)
  BY <1>1
<1>t. \A i \in 0..n : T[i] = Seq(X)
  OBVIOUS
<1>3. PICK f : /\ f = [i \in 0..n |-> f[i]] /\ f[0] = <<>>
               /\ \A i \in 1..n : f[i] = F[i][f[i - 1]]
               /\ \A i \in 0..n : f[i] \in T[i]
  <2>0. 0 \in 0..n /\ \A i \in 1..n : i \in 0..n /\ i - 1 \in 0..n
    BY <1>1
  <2> HIDE DEF T, F, n
  <2>1. Steps(n, <<>>, F, T)
    BY <1>1, <1>2, <1>t, <2>0 DEF Steps
  <2>2. \E f : Follows(f, n, <<>>, F, T)
    BY <1>1, <2>1, Recursion
  <2> QED
    BY <2>2 DEF Follows
<1>4. \A i \in 0..n : f[i] \in Seq(X)
  BY <1>3, <1>t
<1>5. \A i \in 1..n : f[i] = Taken(s, S, f, i)
  <2> TAKE i \in 1..n
  <2>1. i - 1 \in 0..n
    BY <1>1
  <2>2. f[i] = F[i][f[i - 1]] /\ f[i - 1] \in Seq(X)
    BY <1>3, <1>4, <2>1
  <2> QED
    BY <2>2 DEF Taken
<1>6. IsTaking(s, S, f)
  <2> DEFINE h == [i \in 0..n |-> IF i = 0 THEN <<>> ELSE Taken(s, S, f, i)]
  <2>1. \A i \in 0..n : h[i] = IF i = 0 THEN <<>> ELSE Taken(s, S, f, i)
    OBVIOUS
  <2>2. h = [i \in 0..n |-> h[i]]
    OBVIOUS
  <2>3. \A i \in 0..n : i = 0 \/ i \in 1..n
    BY <1>1
  <2> HIDE DEF h
  <2>4. \A i \in 0..n : f[i] = h[i]
    BY <1>3, <1>5, <2>1, <2>3
  <2>5. f = h
    BY <1>3, <2>2, <2>4, IsFunction
  <2> QED
    BY <2>5 DEF IsTaking, h
<1> DEFINE g == CHOOSE h : IsTaking(s, S, h)
<1>7. IsTaking(s, S, g)
  BY <1>6
<1>8. Only(s, S) = g[n]
  BY DEF Only, IsTaking, Taken
<1> HIDE DEF F, T, n, g
<1>9. \A i \in 0..n : g[i] = f[i]
  <2>1. g[0] = f[0] /\ \A i \in 1..n : g[i] = Taken(s, S, g, i)
    <3>0. 0 \in 0..n /\ \A i \in 1..n : i \in 0..n /\ i # 0
      BY <1>1
    <3>1. g = [i \in 0..n |-> IF i = 0 THEN <<>> ELSE Taken(s, S, g, i)]
      BY <1>7 DEF IsTaking, n
    <3> DEFINE h == [i \in 0..n |-> IF i = 0 THEN <<>> ELSE Taken(s, S, g, i)]
    <3>2. \A i \in 0..n : h[i] = IF i = 0 THEN <<>> ELSE Taken(s, S, g, i)
      OBVIOUS
    <3>3. g = h
      BY <3>1
    <3> HIDE DEF h
    <3> QED
      BY <1>3, <3>0, <3>2, <3>3
  <2>2. \A i \in 1..n : g[i - 1] = f[i - 1] => g[i] = f[i]
    BY <1>5, <2>1 DEF Taken
  <2> QED
    BY <1>1, <2>1, <2>2, RunUnique
<1> QED
  BY <1>1, <1>3, <1>4, <1>5, <1>8, <1>9 DEF n, OnlyUpTo

\* Whatever is taken like this, it is those elements.
LEMMA OnlyIs ==
  ASSUME NEW X, NEW s \in Seq(X), NEW S, NEW f, f[0] = <<>>,
         \A i \in 1..Len(s) : f[i] = Taken(s, S, f, i)
  PROVE  Only(s, S) = f[Len(s)]
<1>1. PICK g : OnlyUpTo(g, s, S, X)
  BY OnlyRun
<1> USE DEF OnlyUpTo
<1>2. \A i \in 1..Len(s) : g[i - 1] = f[i - 1] => g[i] = f[i]
  BY <1>1 DEF Taken
<1>3. Len(s) \in Nat /\ g[0] = f[0]
  BY <1>1
<1>4. \A i \in 0..Len(s) : g[i] = f[i]
  BY <1>2, <1>3, RunUnique
<1> QED
  BY <1>1, <1>3, <1>4

LEMMA OnlyType ==
  ASSUME NEW X, NEW s \in Seq(X), NEW S
  PROVE  Only(s, S) \in Seq(X)
BY OnlyRun DEF OnlyUpTo

LEMMA OnlyEmpty ==
  ASSUME NEW X, NEW s \in Seq(X), NEW S, Len(s) = 0
  PROVE  Only(s, S) = <<>>
BY OnlyRun DEF OnlyUpTo

\* Only the membership of the elements counts.
LEMMA OnlySame ==
  ASSUME NEW X, NEW s \in Seq(X), NEW S, NEW R,
         \A i \in 1..Len(s) : s[i] \in S <=> s[i] \in R
  PROVE  Only(s, S) = Only(s, R)
<1>1. PICK g : OnlyUpTo(g, s, S, X)
  BY OnlyRun
<1> USE DEF OnlyUpTo
<1>2. \A i \in 1..Len(s) : g[i] = Taken(s, R, g, i)
  BY <1>1 DEF Taken
<1> QED
  BY <1>1, <1>2, OnlyIs

LEMMA OnlyAppend ==
  ASSUME NEW X, NEW s \in Seq(X), NEW e \in X, NEW S
  PROVE  Only(Append(s, e), S) =
           IF e \in S THEN Append(Only(s, S), e) ELSE Only(s, S)
<1> DEFINE t == Append(s, e)
<1>1. /\ t \in Seq(X) /\ Len(s) \in Nat /\ Len(t) = Len(s) + 1 /\ t[Len(t)] = e
      /\ \A i \in 1..Len(s) : t[i] = s[i]
  OBVIOUS
<1> HIDE DEF t
<1>2. PICK f : OnlyUpTo(f, t, S, X)
  BY <1>1, OnlyRun
<1> USE DEF OnlyUpTo
<1>3. \A i \in 1..Len(s) : f[i] = Taken(s, S, f, i)
  BY <1>1, <1>2 DEF Taken
<1>4. Only(s, S) = f[Len(s)]
  BY <1>2, <1>3, OnlyIs
<1>5. f[Len(t)] = IF e \in S THEN Append(f[Len(s)], e) ELSE f[Len(s)]
  BY <1>1, <1>2 DEF Taken
<1> QED
  BY <1>2, <1>4, <1>5 DEF t

\* A run can be continued by one value.
Continues(g, f, m, v) == g[m] = v /\ \A i \in 0..(m - 1) : g[i] = f[i]

LEMMA Continued ==
  ASSUME NEW m \in Nat, NEW f, NEW v
  PROVE  \E g : Continues(g, f, m, v)
<1> DEFINE g == [i \in 0..m |-> IF i < m THEN f[i] ELSE v]
<1>1. g[m] = v
  OBVIOUS
<1>2. \A i \in 0..(m - 1) : g[i] = f[i]
  OBVIOUS
<1> QED
  BY <1>1, <1>2 DEF Continues

-----------------------------------------------------------------------------
(* The functions the executors are defined by, each as the run of its      *)
(* steps.                                                                  *)

ExecutedUpTo(nds, c, f, m) ==
  f[0] = c /\ \A i \in 1..m : f[i] = Execute(nds[i], f[i - 1])

LEMMA ExecutedRun ==
  ASSUME NEW nds, NEW c, Len(nds) \in Nat
  PROVE  \E f : ExecutedUpTo(nds, c, f, Len(nds)) /\ Executed(nds, c) = f[Len(nds)]
<1> DEFINE n == Len(nds)
           S == {m \in 0..n : \E f : ExecutedUpTo(nds, c, f, m)}
<1>0. n \in Nat
  OBVIOUS
<1> HIDE DEF n
<1>1. 0 \in S
  <2> DEFINE f == [i \in {0} |-> c]
  <2>1. ExecutedUpTo(nds, c, f, 0)
    BY DEF ExecutedUpTo
  <2> HIDE DEF f
  <2> QED
    BY <1>0, <2>1
<1>2. ASSUME NEW m \in 1..n, m - 1 \in S PROVE m \in S
  <2>1. PICK f : ExecutedUpTo(nds, c, f, m - 1)
    BY <1>2
  <2>m. m \in Nat
    BY <1>0
  <2>2. PICK g : Continues(g, f, m, Execute(nds[m], f[m - 1]))
    BY ONLY <2>m, Continued, Zenon
  <2>3. /\ 0 \in 0..(m - 1) /\ m - 1 \in 0..(m - 1)
        /\ \A i \in 1..m : i = m \/ i \in 1..(m - 1)
        /\ \A i \in 1..(m - 1) : i \in 0..(m - 1) /\ i - 1 \in 0..(m - 1)
    BY <1>0
  <2>4. \A i \in 1..m : g[i] = Execute(nds[i], g[i - 1])
    BY <2>1, <2>2, <2>3 DEF ExecutedUpTo, Continues
  <2>5. ExecutedUpTo(nds, c, g, m)
    BY <2>1, <2>2, <2>3, <2>4 DEF ExecutedUpTo, Continues
  <2>6. m \in 0..n
    BY <1>0
  <2> QED
    BY <2>5, <2>6
<1>3. PICK f : ExecutedUpTo(nds, c, f, n)
  <2> HIDE DEF S
  <2>1. n \in S
    BY <1>0, <1>1, <1>2, UpTo
  <2> QED
    BY <2>1 DEF S
<1> DEFINE Is(h) == h = [i \in 0..n |-> IF i = 0 THEN c ELSE Execute(nds[i], h[i - 1])]
           g == [i \in 0..n |-> f[i]]
           k == [i \in 0..n |-> IF i = 0 THEN c ELSE Execute(nds[i], g[i - 1])]
           run == CHOOSE h : Is(h)
<1>4. Is(g)
  <2>1. ASSUME NEW i \in 0..n PROVE g[i] = k[i]
    <3>1. CASE i = 0
      BY <1>3, <3>1 DEF ExecutedUpTo
    <3>2. CASE i # 0
      <4>1. i \in 1..n /\ i - 1 \in 0..n
        BY <1>0, <3>2
      <4> QED
        BY <1>3, <3>2, <4>1 DEF ExecutedUpTo
    <3> QED
      BY <3>1, <3>2
  <2> QED
    BY <2>1
<1>5. Is(run)
  BY <1>4
<1>6. Executed(nds, c) = run[n]
  BY DEF Executed, n
<1>7. ExecutedUpTo(nds, c, run, n)
  <2>1. \A i \in 0..n : run[i] = IF i = 0 THEN c ELSE Execute(nds[i], run[i - 1])
    <3> DEFINE r == [i \in 0..n |-> IF i = 0 THEN c ELSE Execute(nds[i], run[i - 1])]
    <3>1. \A i \in 0..n : r[i] = IF i = 0 THEN c ELSE Execute(nds[i], run[i - 1])
      OBVIOUS
    <3>2. run = r
      BY <1>5
    <3> HIDE DEF r, run
    <3> QED
      BY <3>1, <3>2
  <2>2. 0 \in 0..n /\ \A i \in 1..n : i \in 0..n /\ i # 0
    BY <1>0
  <2> HIDE DEF run
  <2> QED
    BY <2>1, <2>2 DEF ExecutedUpTo
<1> QED
  BY <1>6, <1>7 DEF n

LEMMA ExecutedIs ==
  ASSUME NEW nds, NEW c, Len(nds) \in Nat, NEW f,
         ExecutedUpTo(nds, c, f, Len(nds))
  PROVE  Executed(nds, c) = f[Len(nds)]
<1>0. Len(nds) \in Nat
  OBVIOUS
<1>1. PICK g : ExecutedUpTo(nds, c, g, Len(nds)) /\ Executed(nds, c) = g[Len(nds)]
  BY ExecutedRun
<1>2. \A i \in 0..Len(nds) : g[i] = f[i]
  <2>1. g[0] = f[0]
        /\ \A i \in 1..Len(nds) : g[i - 1] = f[i - 1] => g[i] = f[i]
    BY <1>1 DEF ExecutedUpTo
  <2> QED
    BY <1>0, <2>1, RunUnique
<1> QED
  BY <1>0, <1>1, <1>2

AfterUpTo(prog, f, m) ==
  f[0] = EmptyContext /\ \A i \in 1..m : f[i] = MergePhase(Executed(PhaseNodes(prog, Phases[i]), f[i - 1]))

LEMMA AfterRun ==
  ASSUME NEW prog, NEW q \in Nat
  PROVE  \E f : AfterUpTo(prog, f, q) /\ After(prog, q) = f[q]
<1> DEFINE n == q
           S == {m \in 0..n : \E f : AfterUpTo(prog, f, m)}
<1>0. n \in Nat
  OBVIOUS
<1> HIDE DEF n
<1>1. 0 \in S
  <2> DEFINE f == [i \in {0} |-> EmptyContext]
  <2>1. AfterUpTo(prog, f, 0)
    BY DEF AfterUpTo
  <2> HIDE DEF f
  <2> QED
    BY <1>0, <2>1
<1>2. ASSUME NEW m \in 1..n, m - 1 \in S PROVE m \in S
  <2>1. PICK f : AfterUpTo(prog, f, m - 1)
    BY <1>2
  <2>m. m \in Nat
    BY <1>0
  <2>2. PICK g : Continues(g, f, m, MergePhase(Executed(PhaseNodes(prog, Phases[m]), f[m - 1])))
    BY ONLY <2>m, Continued, Zenon
  <2>3. /\ 0 \in 0..(m - 1) /\ m - 1 \in 0..(m - 1)
        /\ \A i \in 1..m : i = m \/ i \in 1..(m - 1)
        /\ \A i \in 1..(m - 1) : i \in 0..(m - 1) /\ i - 1 \in 0..(m - 1)
    BY <1>0
  <2>4. \A i \in 1..m : g[i] = MergePhase(Executed(PhaseNodes(prog, Phases[i]), g[i - 1]))
    BY <2>1, <2>2, <2>3 DEF AfterUpTo, Continues
  <2>5. AfterUpTo(prog, g, m)
    BY <2>1, <2>2, <2>3, <2>4 DEF AfterUpTo, Continues
  <2>6. m \in 0..n
    BY <1>0
  <2> QED
    BY <2>5, <2>6
<1>3. PICK f : AfterUpTo(prog, f, n)
  <2> HIDE DEF S
  <2>1. n \in S
    BY <1>0, <1>1, <1>2, UpTo
  <2> QED
    BY <2>1 DEF S
<1> DEFINE Is(h) == h = [i \in 0..n |-> IF i = 0 THEN EmptyContext ELSE MergePhase(Executed(PhaseNodes(prog, Phases[i]), h[i - 1]))]
           g == [i \in 0..n |-> f[i]]
           k == [i \in 0..n |-> IF i = 0 THEN EmptyContext ELSE MergePhase(Executed(PhaseNodes(prog, Phases[i]), g[i - 1]))]
           run == CHOOSE h : Is(h)
<1>4. Is(g)
  <2>1. ASSUME NEW i \in 0..n PROVE g[i] = k[i]
    <3>1. CASE i = 0
      BY <1>3, <3>1 DEF AfterUpTo
    <3>2. CASE i # 0
      <4>1. i \in 1..n /\ i - 1 \in 0..n
        BY <1>0, <3>2
      <4> QED
        BY <1>3, <3>2, <4>1 DEF AfterUpTo
    <3> QED
      BY <3>1, <3>2
  <2> QED
    BY <2>1
<1>5. Is(run)
  BY <1>4
<1>6. After(prog, q) = run[n]
  BY DEF After, n
<1>7. AfterUpTo(prog, run, n)
  <2>1. \A i \in 0..n : run[i] = IF i = 0 THEN EmptyContext ELSE MergePhase(Executed(PhaseNodes(prog, Phases[i]), run[i - 1]))
    <3> DEFINE r == [i \in 0..n |-> IF i = 0 THEN EmptyContext ELSE MergePhase(Executed(PhaseNodes(prog, Phases[i]), run[i - 1]))]
    <3>1. \A i \in 0..n : r[i] = IF i = 0 THEN EmptyContext ELSE MergePhase(Executed(PhaseNodes(prog, Phases[i]), run[i - 1]))
      OBVIOUS
    <3>2. run = r
      BY <1>5
    <3> HIDE DEF r, run
    <3> QED
      BY <3>1, <3>2
  <2>2. 0 \in 0..n /\ \A i \in 1..n : i \in 0..n /\ i # 0
    BY <1>0
  <2> HIDE DEF run
  <2> QED
    BY <2>1, <2>2 DEF AfterUpTo
<1> QED
  BY <1>6, <1>7 DEF n

LEMMA AfterIs ==
  ASSUME NEW prog, NEW q \in Nat, NEW f,
         AfterUpTo(prog, f, q)
  PROVE  After(prog, q) = f[q]
<1>0. q \in Nat
  OBVIOUS
<1>1. PICK g : AfterUpTo(prog, g, q) /\ After(prog, q) = g[q]
  BY AfterRun
<1>2. \A i \in 0..q : g[i] = f[i]
  <2>1. g[0] = f[0]
        /\ \A i \in 1..q : g[i - 1] = f[i - 1] => g[i] = f[i]
    BY <1>1 DEF AfterUpTo
  <2> QED
    BY <1>0, <2>1, RunUnique
<1> QED
  BY <1>0, <1>1, <1>2

Laned(node, c) ==
  IF ~Vectorised(node) THEN c
  ELSE [c EXCEPT !.phaseBuffer =
          Merged(@, [k \in {BufferKey(node)} |-> LaneResult(node)])]

ScatterUpTo(nds, c, f, m) ==
  f[0] = c /\ \A i \in 1..m : f[i] = Laned(nds[i], f[i - 1])

LEMMA ScatterRun ==
  ASSUME NEW nds, NEW c, Len(nds) \in Nat
  PROVE  \E f : ScatterUpTo(nds, c, f, Len(nds)) /\ Scatter(nds, c) = f[Len(nds)]
<1> DEFINE n == Len(nds)
           S == {m \in 0..n : \E f : ScatterUpTo(nds, c, f, m)}
<1>0. n \in Nat
  OBVIOUS
<1> HIDE DEF n
<1>1. 0 \in S
  <2> DEFINE f == [i \in {0} |-> c]
  <2>1. ScatterUpTo(nds, c, f, 0)
    BY DEF ScatterUpTo
  <2> HIDE DEF f
  <2> QED
    BY <1>0, <2>1
<1>2. ASSUME NEW m \in 1..n, m - 1 \in S PROVE m \in S
  <2>1. PICK f : ScatterUpTo(nds, c, f, m - 1)
    BY <1>2
  <2>m. m \in Nat
    BY <1>0
  <2>2. PICK g : Continues(g, f, m, Laned(nds[m], f[m - 1]))
    BY ONLY <2>m, Continued, Zenon
  <2>3. /\ 0 \in 0..(m - 1) /\ m - 1 \in 0..(m - 1)
        /\ \A i \in 1..m : i = m \/ i \in 1..(m - 1)
        /\ \A i \in 1..(m - 1) : i \in 0..(m - 1) /\ i - 1 \in 0..(m - 1)
    BY <1>0
  <2>4. \A i \in 1..m : g[i] = Laned(nds[i], g[i - 1])
    BY <2>1, <2>2, <2>3 DEF ScatterUpTo, Continues
  <2>5. ScatterUpTo(nds, c, g, m)
    BY <2>1, <2>2, <2>3, <2>4 DEF ScatterUpTo, Continues
  <2>6. m \in 0..n
    BY <1>0
  <2> QED
    BY <2>5, <2>6
<1>3. PICK f : ScatterUpTo(nds, c, f, n)
  <2> HIDE DEF S
  <2>1. n \in S
    BY <1>0, <1>1, <1>2, UpTo
  <2> QED
    BY <2>1 DEF S
<1> DEFINE Is(h) == h = [i \in 0..n |-> IF i = 0 THEN c ELSE Laned(nds[i], h[i - 1])]
           g == [i \in 0..n |-> f[i]]
           k == [i \in 0..n |-> IF i = 0 THEN c ELSE Laned(nds[i], g[i - 1])]
           run == CHOOSE h : Is(h)
<1>4. Is(g)
  <2>1. ASSUME NEW i \in 0..n PROVE g[i] = k[i]
    <3>1. CASE i = 0
      BY <1>3, <3>1 DEF ScatterUpTo
    <3>2. CASE i # 0
      <4>1. i \in 1..n /\ i - 1 \in 0..n
        BY <1>0, <3>2
      <4> QED
        BY <1>3, <3>2, <4>1 DEF ScatterUpTo
    <3> QED
      BY <3>1, <3>2
  <2> QED
    BY <2>1
<1>5. Is(run)
  BY <1>4
<1>6. Scatter(nds, c) = run[n]
  BY DEF Scatter, Laned, n
<1>7. ScatterUpTo(nds, c, run, n)
  <2>1. \A i \in 0..n : run[i] = IF i = 0 THEN c ELSE Laned(nds[i], run[i - 1])
    <3> DEFINE r == [i \in 0..n |-> IF i = 0 THEN c ELSE Laned(nds[i], run[i - 1])]
    <3>1. \A i \in 0..n : r[i] = IF i = 0 THEN c ELSE Laned(nds[i], run[i - 1])
      OBVIOUS
    <3>2. run = r
      BY <1>5
    <3> HIDE DEF r, run
    <3> QED
      BY <3>1, <3>2
  <2>2. 0 \in 0..n /\ \A i \in 1..n : i \in 0..n /\ i # 0
    BY <1>0
  <2> HIDE DEF run
  <2> QED
    BY <2>1, <2>2 DEF ScatterUpTo
<1> QED
  BY <1>6, <1>7 DEF n

LEMMA ScatterIs ==
  ASSUME NEW nds, NEW c, Len(nds) \in Nat, NEW f,
         ScatterUpTo(nds, c, f, Len(nds))
  PROVE  Scatter(nds, c) = f[Len(nds)]
<1>0. Len(nds) \in Nat
  OBVIOUS
<1>1. PICK g : ScatterUpTo(nds, c, g, Len(nds)) /\ Scatter(nds, c) = g[Len(nds)]
  BY ScatterRun
<1>2. \A i \in 0..Len(nds) : g[i] = f[i]
  <2>1. g[0] = f[0]
        /\ \A i \in 1..Len(nds) : g[i - 1] = f[i - 1] => g[i] = f[i]
    BY <1>1 DEF ScatterUpTo
  <2> QED
    BY <1>0, <2>1, RunUnique
<1> QED
  BY <1>0, <1>1, <1>2

BatchedAfterUpTo(prog, f, m) ==
  f[0] = EmptyContext /\ \A i \in 1..m : f[i] = BatchedPhase(PhaseNodes(prog, Phases[i]), f[i - 1])

LEMMA BatchedAfterRun ==
  ASSUME NEW prog, NEW q \in Nat
  PROVE  \E f : BatchedAfterUpTo(prog, f, q) /\ BatchedAfter(prog, q) = f[q]
<1> DEFINE n == q
           S == {m \in 0..n : \E f : BatchedAfterUpTo(prog, f, m)}
<1>0. n \in Nat
  OBVIOUS
<1> HIDE DEF n
<1>1. 0 \in S
  <2> DEFINE f == [i \in {0} |-> EmptyContext]
  <2>1. BatchedAfterUpTo(prog, f, 0)
    BY DEF BatchedAfterUpTo
  <2> HIDE DEF f
  <2> QED
    BY <1>0, <2>1
<1>2. ASSUME NEW m \in 1..n, m - 1 \in S PROVE m \in S
  <2>1. PICK f : BatchedAfterUpTo(prog, f, m - 1)
    BY <1>2
  <2>m. m \in Nat
    BY <1>0
  <2>2. PICK g : Continues(g, f, m, BatchedPhase(PhaseNodes(prog, Phases[m]), f[m - 1]))
    BY ONLY <2>m, Continued, Zenon
  <2>3. /\ 0 \in 0..(m - 1) /\ m - 1 \in 0..(m - 1)
        /\ \A i \in 1..m : i = m \/ i \in 1..(m - 1)
        /\ \A i \in 1..(m - 1) : i \in 0..(m - 1) /\ i - 1 \in 0..(m - 1)
    BY <1>0
  <2>4. \A i \in 1..m : g[i] = BatchedPhase(PhaseNodes(prog, Phases[i]), g[i - 1])
    BY <2>1, <2>2, <2>3 DEF BatchedAfterUpTo, Continues
  <2>5. BatchedAfterUpTo(prog, g, m)
    BY <2>1, <2>2, <2>3, <2>4 DEF BatchedAfterUpTo, Continues
  <2>6. m \in 0..n
    BY <1>0
  <2> QED
    BY <2>5, <2>6
<1>3. PICK f : BatchedAfterUpTo(prog, f, n)
  <2> HIDE DEF S
  <2>1. n \in S
    BY <1>0, <1>1, <1>2, UpTo
  <2> QED
    BY <2>1 DEF S
<1> DEFINE Is(h) == h = [i \in 0..n |-> IF i = 0 THEN EmptyContext ELSE BatchedPhase(PhaseNodes(prog, Phases[i]), h[i - 1])]
           g == [i \in 0..n |-> f[i]]
           k == [i \in 0..n |-> IF i = 0 THEN EmptyContext ELSE BatchedPhase(PhaseNodes(prog, Phases[i]), g[i - 1])]
           run == CHOOSE h : Is(h)
<1>4. Is(g)
  <2>1. ASSUME NEW i \in 0..n PROVE g[i] = k[i]
    <3>1. CASE i = 0
      BY <1>3, <3>1 DEF BatchedAfterUpTo
    <3>2. CASE i # 0
      <4>1. i \in 1..n /\ i - 1 \in 0..n
        BY <1>0, <3>2
      <4> QED
        BY <1>3, <3>2, <4>1 DEF BatchedAfterUpTo
    <3> QED
      BY <3>1, <3>2
  <2> QED
    BY <2>1
<1>5. Is(run)
  BY <1>4
<1>6. BatchedAfter(prog, q) = run[n]
  BY DEF BatchedAfter, n
<1>7. BatchedAfterUpTo(prog, run, n)
  <2>1. \A i \in 0..n : run[i] = IF i = 0 THEN EmptyContext ELSE BatchedPhase(PhaseNodes(prog, Phases[i]), run[i - 1])
    <3> DEFINE r == [i \in 0..n |-> IF i = 0 THEN EmptyContext ELSE BatchedPhase(PhaseNodes(prog, Phases[i]), run[i - 1])]
    <3>1. \A i \in 0..n : r[i] = IF i = 0 THEN EmptyContext ELSE BatchedPhase(PhaseNodes(prog, Phases[i]), run[i - 1])
      OBVIOUS
    <3>2. run = r
      BY <1>5
    <3> HIDE DEF r, run
    <3> QED
      BY <3>1, <3>2
  <2>2. 0 \in 0..n /\ \A i \in 1..n : i \in 0..n /\ i # 0
    BY <1>0
  <2> HIDE DEF run
  <2> QED
    BY <2>1, <2>2 DEF BatchedAfterUpTo
<1> QED
  BY <1>6, <1>7 DEF n

LEMMA BatchedAfterIs ==
  ASSUME NEW prog, NEW q \in Nat, NEW f,
         BatchedAfterUpTo(prog, f, q)
  PROVE  BatchedAfter(prog, q) = f[q]
<1>0. q \in Nat
  OBVIOUS
<1>1. PICK g : BatchedAfterUpTo(prog, g, q) /\ BatchedAfter(prog, q) = g[q]
  BY BatchedAfterRun
<1>2. \A i \in 0..q : g[i] = f[i]
  <2>1. g[0] = f[0]
        /\ \A i \in 1..q : g[i - 1] = f[i - 1] => g[i] = f[i]
    BY <1>1 DEF BatchedAfterUpTo
  <2> QED
    BY <1>0, <2>1, RunUnique
<1> QED
  BY <1>0, <1>1, <1>2

-----------------------------------------------------------------------------
(* More about the elements of a sequence that are in a set: they come from *)
(* increasing positions of it, and concatenation can be taken apart.       *)

Selects(g, o, s, S, n) ==
  \A k \in 1..Len(o) : /\ g[k] \in 1..n /\ o[k] = s[g[k]] /\ o[k] \in S
                       /\ \A l \in 1..(k - 1) : g[l] < g[k]

LEMMA OnlySelects ==
  ASSUME NEW X, NEW s \in Seq(X), NEW S
  PROVE  \E g : Selects(g, Only(s, S), s, S, Len(s))
<1>1. PICK f : OnlyUpTo(f, s, S, X)
  BY OnlyRun
<1> USE DEF OnlyUpTo
<1> DEFINE n == Len(s)
           R == {i \in 0..n : \E g : Selects(g, f[i], s, S, i)}
<1>0. n \in Nat
  OBVIOUS
<1>2. 0 \in R
  <2>1. Len(f[0]) = 0
    BY <1>1
  <2>2. Selects(f, f[0], s, S, 0)
    BY <2>1 DEF Selects
  <2> QED
    BY <1>0, <2>2
<1>3. ASSUME NEW i \in 1..n, i - 1 \in R PROVE i \in R
  <2>1. PICK g : Selects(g, f[i - 1], s, S, i - 1)
    BY <1>3
  <2>2. /\ i \in 0..n /\ i - 1 \in 0..n /\ f[i] = Taken(s, S, f, i)
        /\ f[i - 1] \in Seq(X) /\ s[i] \in X
    BY <1>0, <1>1
  <2> DEFINE m == Len(f[i - 1])
  <2>3. CASE s[i] \notin S
    <3>1. f[i] = f[i - 1]
      BY <2>2, <2>3 DEF Taken
    <3>2. Selects(g, f[i], s, S, i)
      BY <2>1, <3>1, <1>0 DEF Selects
    <3> QED
      BY <2>2, <3>2
  <2>4. CASE s[i] \in S
    <3>1. f[i] = Append(f[i - 1], s[i])
      BY <2>2, <2>4 DEF Taken
    <3>2. /\ Len(f[i]) = m + 1 /\ m \in Nat /\ f[i][m + 1] = s[i]
          /\ \A k \in 1..m : f[i][k] = f[i - 1][k]
      BY <2>2, <3>1
    <3>m. m + 1 \in Nat
      BY <3>2
    <3>3. PICK h : Continues(h, g, m + 1, i)
      BY ONLY <3>m, Continued, Zenon
    <3>4. h[m + 1] = i /\ \A k \in 1..m : h[k] = g[k]
      BY <3>2, <3>3 DEF Continues
    <3>5. \A k \in 1..m : /\ g[k] \in 1..(i - 1) /\ f[i - 1][k] = s[g[k]]
                          /\ f[i - 1][k] \in S
                          /\ \A l \in 1..(k - 1) : g[l] < g[k]
      BY <2>1 DEF Selects
    <3> HIDE DEF m, R
    <3>6. ASSUME NEW k \in 1..(m + 1)
          PROVE  /\ h[k] \in 1..i /\ f[i][k] = s[h[k]] /\ f[i][k] \in S
                 /\ \A l \in 1..(k - 1) : h[l] < h[k]
      <4>1. CASE k = m + 1
        <5>1. \A l \in 1..(k - 1) : l \in 1..m
          BY <4>1, <3>2
        <5>2. i \in 1..i
          BY <1>0
        <5> QED
          BY <4>1, <3>2, <3>4, <3>5, <5>1, <5>2, <2>4
      <4>2. CASE k # m + 1
        <5>1. k \in 1..m
          BY <4>2, <3>2
        <5>2. \A l \in 1..(k - 1) : l \in 1..m
          BY <5>1, <3>2
        <5>3. \A j \in 1..(i - 1) : j \in 1..i
          BY <1>0
        <5> QED
          BY <5>1, <5>2, <5>3, <3>2, <3>4, <3>5
      <4> QED
        BY <4>1, <4>2
    <3>7. Selects(h, f[i], s, S, i)
      BY <3>2, <3>6 DEF Selects
    <3> QED
      BY <2>2, <3>7 DEF R
  <2> QED
    BY <2>3, <2>4
<1>4. n \in R
  <2> HIDE DEF R, n
  <2>1. \A i \in 1..n : i - 1 \in R => i \in R
    BY <1>3
  <2>2. \A i \in 0..n : i \in R
    BY ONLY <1>0, <1>2, <2>1, UpTo, Zenon
  <2> QED
    BY <1>0, <2>2
<1> QED
  BY <1>1, <1>4

LEMMA OnlyConcat ==
  ASSUME NEW X, NEW s \in Seq(X), NEW t \in Seq(X), NEW S
  PROVE  Only(s \o t, S) = Only(s, S) \o Only(t, S)
<1> DEFINE u == s \o t
           n == Len(s)
           m == Len(t)
<1>1. /\ u \in Seq(X) /\ n \in Nat /\ m \in Nat /\ Len(u) = n + m
      /\ \A i \in 1..n : u[i] = s[i]
      /\ \A i \in 1..m : u[n + i] = t[i]
  OBVIOUS
<1> HIDE DEF u
<1>2. PICK f : OnlyUpTo(f, u, S, X)
  BY <1>1, OnlyRun
<1>3. PICK g : OnlyUpTo(g, t, S, X)
  BY ONLY OnlyRun, t \in Seq(X)
<1> USE DEF OnlyUpTo
<1>4. f[n] = Only(s, S)
  <2>1. \A i \in 1..n : i \in 1..Len(u)
    BY <1>1
  <2>2. \A i \in 1..n : f[i] = Taken(s, S, f, i)
    BY <1>1, <1>2, <2>1 DEF Taken
  <2> QED
    BY <1>2, <2>2, OnlyIs
<1>5. f[n] \in Seq(X)
  BY <1>4, OnlyType
<1> DEFINE h == [i \in 0..m |-> f[n + i]]
           k == [i \in 0..m |-> f[n] \o g[i]]
<1>6. \A i \in 0..m : h[i] = f[n + i] /\ k[i] = f[n] \o g[i]
  OBVIOUS
<1> HIDE DEF h, k, n, m
<1>7. h[0] = k[0]
  <2>1. 0 \in 0..m /\ n + 0 = n
    BY <1>1
  <2>2. f[n] \o <<>> = f[n]
    BY <1>5, ConcatEmptySeq
  <2> QED
    BY <1>3, <1>6, <2>1, <2>2
<1>8. ASSUME NEW i \in 1..m, h[i - 1] = k[i - 1] PROVE h[i] = k[i]
  <2>1. /\ i \in 0..m /\ i - 1 \in 0..m /\ n + i \in 1..Len(u)
        /\ (n + i) - 1 = n + (i - 1)
    BY <1>1
  <2>2. u[n + i] = t[i] /\ g[i] = Taken(t, S, g, i) /\ t[i] \in X
    <3>1. u[n + i] = t[i]
      BY <1>1
    <3>2. g[i] = Taken(t, S, g, i)
      BY <1>3 DEF m
    <3> QED
      BY <3>1, <3>2 DEF m
  <2>3. f[n + i] = Taken(u, S, f, n + i)
    BY <1>2, <2>1
  <2>4. g[i - 1] \in Seq(X)
    BY <1>3, <2>1 DEF m
  <2>5. f[n] \o Append(g[i - 1], t[i]) = Append(f[n] \o g[i - 1], t[i])
    <3>1. \A x, y \in Seq(X) : \A e \in X : x \o Append(y, e) = Append(x \o y, e)
      OBVIOUS
    <3> QED
      BY <1>5, <2>2, <2>4, <3>1
  <2> QED
    <3>1. h[i] = Taken(u, S, f, n + i) /\ k[i] = f[n] \o Taken(t, S, g, i)
      BY <1>6, <2>1, <2>2, <2>3
    <3>2. f[n + (i - 1)] = f[n] \o g[i - 1]
      BY <1>6, <1>8, <2>1
    <3>3. Taken(u, S, f, n + i) =
            IF t[i] \in S THEN Append(f[n + (i - 1)], t[i]) ELSE f[n + (i - 1)]
      BY <2>1, <2>2 DEF Taken
    <3>4. Taken(t, S, g, i) =
            IF t[i] \in S THEN Append(g[i - 1], t[i]) ELSE g[i - 1]
      BY DEF Taken
    <3>5. CASE t[i] \in S
      BY <3>1, <3>2, <3>3, <3>4, <3>5, <2>5
    <3>6. CASE t[i] \notin S
      BY <3>1, <3>2, <3>3, <3>4, <3>6
    <3> QED
      BY <3>5, <3>6
<1>9. \A i \in 0..m : h[i] = k[i]
  <2>1. \A i \in 1..m : h[i - 1] = k[i - 1] => h[i] = k[i]
    BY <1>8
  <2>2. m \in Nat
    BY <1>1
  <2> QED
    BY ONLY <1>7, <2>1, <2>2, RunUnique, Zenon
<1> QED
  <2>1. m \in 0..m
    BY <1>1
  <2> QED
    BY <1>1, <1>2, <1>3, <1>4, <1>6, <1>9, <2>1 DEF u, m

\* Nothing is taken from a sequence without elements of the set.
LEMMA OnlyNone ==
  ASSUME NEW X, NEW s \in Seq(X), NEW S, \A i \in 1..Len(s) : s[i] \notin S
  PROVE  Only(s, S) = <<>>
<1>1. PICK g : Selects(g, Only(s, S), s, S, Len(s))
  BY OnlySelects
<1>2. Only(s, S) \in Seq(X) /\ Len(Only(s, S)) \in Nat
  BY OnlyType
<1>3. Len(Only(s, S)) = 0
  BY <1>1, <1>2 DEF Selects
<1> QED
  BY <1>2, <1>3

-----------------------------------------------------------------------------
(* Maps, logs and contexts.                                                *)

IsMap(m) == m = [k \in DOMAIN m |-> m[k]]
IsSeq(s) == s \in Seq(Range(s))

IsContext(c) ==
  /\ c = [global |-> c.global, phaseBuffer |-> c.phaseBuffer, logs |-> c.logs]
  /\ IsMap(c.phaseBuffer)
  /\ IsSeq(c.logs)

IsNode(node) == IsFiniteSet(DOMAIN node.state) /\ IsMap(node.state)

LEMMA SeqIsSeq ==
  ASSUME NEW X, NEW s \in Seq(X)
  PROVE  IsSeq(s)
BY SeqOfRange DEF IsSeq

LEMMA Common ==
  ASSUME NEW s, NEW t, IsSeq(s), IsSeq(t)
  PROVE  \E X : s \in Seq(X) /\ t \in Seq(X)
<1> DEFINE A == Range(s)
           B == Range(t)
           X == A \cup B
<1>1. s \in Seq(A) /\ t \in Seq(B)
  BY DEF IsSeq
<1> HIDE DEF A, B
<1>2. A \subseteq X /\ B \subseteq X
  OBVIOUS
<1> HIDE DEF X
<1>3. s \in Seq(X)
  BY <1>1, <1>2, SeqMonotonic
<1>4. t \in Seq(X)
  BY <1>1, <1>2, SeqMonotonic
<1> QED
  BY <1>3, <1>4

LEMMA ConcatIsSeq ==
  ASSUME NEW s, NEW t, IsSeq(s), IsSeq(t)
  PROVE  IsSeq(s \o t)
<1>1. PICK X : s \in Seq(X) /\ t \in Seq(X)
  BY Common
<1>2. s \o t \in Seq(X)
  BY <1>1
<1> QED
  BY <1>2, SeqIsSeq

LEMMA MergedIsMap ==
  ASSUME NEW a, NEW b
  PROVE  /\ IsMap(Merged(a, b))
         /\ DOMAIN Merged(a, b) = DOMAIN a \cup DOMAIN b
         /\ \A k \in DOMAIN a \cup DOMAIN b :
              Merged(a, b)[k] = IF k \in DOMAIN b THEN b[k] ELSE a[k]
<1> DEFINE f == [k \in DOMAIN a \cup DOMAIN b |-> IF k \in DOMAIN b THEN b[k] ELSE a[k]]
<1>1. Merged(a, b) = f
  BY DEF Merged
<1>2. f = [k \in DOMAIN f |-> f[k]] /\ DOMAIN f = DOMAIN a \cup DOMAIN b
  OBVIOUS
<1>3. \A k \in DOMAIN a \cup DOMAIN b : f[k] = IF k \in DOMAIN b THEN b[k] ELSE a[k]
  OBVIOUS
<1> HIDE DEF f
<1> QED
  BY <1>1, <1>2, <1>3 DEF IsMap

LEMMA MapsEqual ==
  ASSUME NEW a, NEW b, IsMap(a), IsMap(b), DOMAIN a = DOMAIN b,
         \A k \in DOMAIN a : a[k] = b[k]
  PROVE  a = b
BY DEF IsMap

LEMMA MergedEmpty ==
  ASSUME NEW a, IsMap(a)
  PROVE  Merged(a, EmptyState) = a
<1>1. DOMAIN EmptyState = {}
  BY DEF EmptyState
<1> DEFINE e == EmptyState
<1> HIDE DEF e
<1>2. /\ IsMap(Merged(a, e))
      /\ DOMAIN Merged(a, e) = DOMAIN a \cup DOMAIN e
      /\ \A k \in DOMAIN a \cup DOMAIN e :
           Merged(a, e)[k] = IF k \in DOMAIN e THEN e[k] ELSE a[k]
  BY MergedIsMap
<1>3. DOMAIN e = {}
  BY <1>1 DEF e
<1>4. /\ DOMAIN Merged(a, e) = DOMAIN a
      /\ \A k \in DOMAIN a : Merged(a, e)[k] = a[k]
  BY <1>2, <1>3
<1> QED
  BY <1>2, <1>4, MapsEqual DEF e

LEMMA EmptyIsMap == IsMap(EmptyState)
<1> DEFINE e == [k \in {} |-> 0]
<1>1. e = [k \in DOMAIN e |-> e[k]]
  OBVIOUS
<1> QED
  BY <1>1 DEF EmptyState, IsMap

LEMMA EmptyIsContext == IsContext(EmptyContext)
<1>1. IsSeq(<<>>)
  <2>1. <<>> \in Seq({})
    OBVIOUS
  <2> QED
    BY <2>1, SeqIsSeq
<1> QED
  BY <1>1, EmptyIsMap DEF EmptyContext, IsContext

LEMMA ContextsEqual ==
  ASSUME NEW c, NEW d, IsContext(c), IsContext(d), c.global = d.global,
         c.phaseBuffer = d.phaseBuffer, c.logs = d.logs
  PROVE  c = d
BY DEF IsContext

\* The logs an assign makes are those of its keys, in some order.
LEMMA SetToSeqIs ==
  ASSUME NEW S, IsFiniteSet(S)
  PROVE  SetToSeq(S) \in Seq(S)
<1>1. Cardinality(S) \in Nat /\ ExistsBijection(1..Cardinality(S), S)
  BY FS_CardinalityType
<1>2. \E f \in [1..Cardinality(S) -> S] : IsInjective(f)
  BY <1>1 DEF ExistsBijection, Bijection, Injection
<1>3. SetToSeq(S) \in [1..Cardinality(S) -> S]
  BY <1>2 DEF SetToSeq
<1> QED
  BY <1>1, <1>3

LEMMA LoggedIs ==
  ASSUME NEW node, IsNode(node), NEW g
  PROVE  /\ IsSeq(Logged(node, g))
         /\ node.op # "emit" => \A i \in 1..Len(Logged(node, g)) :
                                  Logged(node, g)[i][1] # "result"
         /\ node.op = "none" => Logged(node, g) = <<>>
<1>1. CASE node.op = "assign"
  <2> DEFINE K == DOMAIN node.state
             S == {<<"set", k>> : k \in K}
             f == [k \in K |-> <<"set", k>>]
  <2>1. f \in Surjection(K, S)
    BY DEF Surjection
  <2>2. IsFiniteSet(S)
    <3>1. IsFiniteSet(K)
      BY DEF IsNode
    <3> HIDE DEF K, S, f
    <3> QED
      BY <2>1, <3>1, FS_Surjection
  <2>3. Logged(node, g) = SetToSeq(S)
    BY <1>1 DEF Logged
  <2>4. \A e \in S : e[1] # "result"
    OBVIOUS
  <2> HIDE DEF S
  <2>5. Logged(node, g) \in Seq(S)
    BY <2>2, <2>3, SetToSeqIs
  <2>6. \A i \in 1..Len(Logged(node, g)) : Logged(node, g)[i] \in S
    BY <2>5
  <2> QED
    BY <1>1, <2>4, <2>5, <2>6, SeqIsSeq
<1>2. CASE node.op = "emit"
  <2> DEFINE e == <<"result", {g[k] : k \in {"result"} \cap DOMAIN g}>>
  <2>1. Logged(node, g) = <<e>>
    BY <1>2 DEF Logged
  <2> HIDE DEF e
  <2>2. <<e>> \in Seq({e})
    OBVIOUS
  <2> QED
    BY <1>2, <2>1, <2>2, SeqIsSeq
<1>3. CASE node.op = "none"
  <2>1. Logged(node, g) = <<>>
    BY <1>3 DEF Logged
  <2>2. <<>> \in Seq({}) /\ Len(<<>>) = 0
    OBVIOUS
  <2>3. IsSeq(<<>>)
    BY <2>2, SeqIsSeq
  <2>4. \A i \in 1..Len(Logged(node, g)) : FALSE
    BY <2>1, <2>2
  <2> QED
    BY <2>1, <2>3, <2>4, Zenon
<1>4. CASE node.op \notin {"assign", "emit", "none"}
  <2> DEFINE e == <<"ran", node.op>>
  <2>1. Logged(node, g) = <<e>>
    BY <1>4 DEF Logged
  <2>2. e[1] # "result"
    OBVIOUS
  <2> HIDE DEF e
  <2>3. <<e>> \in Seq({e}) /\ Len(<<e>>) = 1 /\ <<e>>[1] = e
    OBVIOUS
  <2>4. \A i \in 1..Len(Logged(node, g)) : Logged(node, g)[i] = e
    BY <2>1, <2>3
  <2> QED
    BY <1>4, <2>1, <2>2, <2>3, <2>4, SeqIsSeq
<1> QED
  BY <1>1, <1>2, <1>3, <1>4

LEMMA ExecuteIs ==
  ASSUME NEW node, IsNode(node), NEW c, IsContext(c)
  PROVE  /\ IsContext(Execute(node, c))
         /\ Execute(node, c).global = c.global
         /\ Execute(node, c).phaseBuffer = Merged(c.phaseBuffer, Writes(node))
         /\ Execute(node, c).logs = c.logs \o Logged(node, c.global)
         /\ node.op = "none" => Execute(node, c) = c
<1> DEFINE b == Merged(c.phaseBuffer, Writes(node))
           l == c.logs \o Logged(node, c.global)
<1>1. Execute(node, c) = [global |-> c.global, phaseBuffer |-> b, logs |-> l]
  <2>1. PICK x, y, z : c = [global |-> x, phaseBuffer |-> y, logs |-> z]
    BY DEF IsContext
  <2>2. /\ c.global = x /\ c.phaseBuffer = y /\ c.logs = z
        /\ Execute(node, c) = [c EXCEPT !.phaseBuffer = b, !.logs = l]
    BY <2>1 DEF Execute
  <2> HIDE DEF b, l
  <2> QED
    BY <2>1, <2>2
<1>2. IsMap(b)
  BY MergedIsMap
<1>3. IsSeq(l)
  BY LoggedIs, ConcatIsSeq DEF IsContext
<1>4. ASSUME node.op = "none" PROVE b = c.phaseBuffer /\ l = c.logs
  <2>1. Writes(node) = EmptyState /\ Logged(node, c.global) = <<>>
    BY <1>4 DEF Writes, Logged
  <2>2. c.logs \o <<>> = c.logs
    BY ConcatEmptySeq DEF IsContext, IsSeq
  <2> QED
    BY <2>1, <2>2, MergedEmpty DEF IsContext
<1> HIDE DEF b, l
<1>5. IsContext(Execute(node, c))
  BY <1>1, <1>2, <1>3 DEF IsContext
<1>6. ASSUME node.op = "none" PROVE Execute(node, c) = c
  BY <1>1, <1>4, <1>6 DEF IsContext
<1>7. /\ Execute(node, c).global = c.global
      /\ Execute(node, c).phaseBuffer = b
      /\ Execute(node, c).logs = l
  BY <1>1
<1> QED
  BY <1>5, <1>6, <1>7 DEF b, l

LEMMA MergePhaseIs ==
  ASSUME NEW c, IsContext(c)
  PROVE  /\ IsContext(MergePhase(c))
         /\ MergePhase(c).global = Merged(c.global, c.phaseBuffer)
         /\ MergePhase(c).phaseBuffer = EmptyState
         /\ MergePhase(c).logs = c.logs
<1>1. MergePhase(c) = [global |-> Merged(c.global, c.phaseBuffer),
                       phaseBuffer |-> EmptyState, logs |-> c.logs]
  <2>1. PICK x, y, z : c = [global |-> x, phaseBuffer |-> y, logs |-> z]
    BY DEF IsContext
  <2> DEFINE m == Merged(c.global, c.phaseBuffer)
  <2>2. /\ c.global = x /\ c.phaseBuffer = y /\ c.logs = z
        /\ MergePhase(c) = [c EXCEPT !.global = m, !.phaseBuffer = EmptyState]
    BY <2>1 DEF MergePhase
  <2> HIDE DEF m
  <2>3. MergePhase(c) = [global |-> m, phaseBuffer |-> EmptyState, logs |-> c.logs]
    BY <2>1, <2>2
  <2> QED
    BY <2>3 DEF m
<1>2. IsContext(MergePhase(c))
  BY <1>1, EmptyIsMap DEF IsContext
<1> QED
  BY <1>1, <1>2

-----------------------------------------------------------------------------
(* Nodes executed one after the other: what becomes of the context.        *)

AreNodes(nds) == IsSeq(nds) /\ \A i \in 1..Len(nds) : IsNode(nds[i])

Passes(nds, c, f) ==
  /\ Executed(nds, c) = f[Len(nds)]
  /\ f[0] = c
  /\ \A i \in 1..Len(nds) : f[i] = Execute(nds[i], f[i - 1])
  /\ \A i \in 0..Len(nds) : IsContext(f[i]) /\ f[i].global = c.global

LEMMA ExecutedPasses ==
  ASSUME NEW nds, AreNodes(nds), NEW c, IsContext(c)
  PROVE  \E f : Passes(nds, c, f)
<1> DEFINE n == Len(nds)
<1>0. n \in Nat
  BY DEF AreNodes, IsSeq
<1>1. PICK f : ExecutedUpTo(nds, c, f, n) /\ Executed(nds, c) = f[n]
  BY <1>0, ExecutedRun
<1>2. f[0] = c /\ \A i \in 1..n : f[i] = Execute(nds[i], f[i - 1])
  BY <1>1 DEF ExecutedUpTo
<1> DEFINE S == {i \in 0..n : IsContext(f[i]) /\ f[i].global = c.global}
<1>3. 0 \in S
  BY <1>0, <1>2
<1>4. \A i \in 1..n : i - 1 \in S => i \in S
  <2> SUFFICES ASSUME NEW i \in 1..n, i - 1 \in S PROVE i \in S
    OBVIOUS
  <2>1. IsNode(nds[i]) /\ IsContext(f[i - 1]) /\ f[i - 1].global = c.global
    BY DEF AreNodes
  <2>e. f[i] = Execute(nds[i], f[i - 1])
    BY <1>2
  <2>2. IsContext(f[i]) /\ f[i].global = c.global
    <3> DEFINE d == f[i - 1]
               node == nds[i]
    <3> HIDE DEF d, node
    <3>1. IsContext(Execute(node, d)) /\ Execute(node, d).global = d.global
      BY <2>1, ExecuteIs DEF d, node
    <3> QED
      BY <2>e, <2>1, <3>1 DEF d, node
  <2>3. i \in 0..n
    BY <1>0
  <2> QED
    BY <2>2, <2>3
<1>5. \A i \in 0..n : i \in S
  <2> HIDE DEF n, S
  <2> QED
    BY ONLY <1>0, <1>3, <1>4, UpTo, Zenon
<1>6. \A i \in 0..n : IsContext(f[i]) /\ f[i].global = c.global
  BY <1>5
<1> QED
  BY <1>1, <1>2, <1>6 DEF Passes

LEMMA ExecutedIsContext ==
  ASSUME NEW nds, AreNodes(nds), NEW c, IsContext(c)
  PROVE  IsContext(Executed(nds, c)) /\ Executed(nds, c).global = c.global
<1>1. PICK f : Passes(nds, c, f)
  BY ExecutedPasses
<1>2. Len(nds) \in Nat
  BY DEF AreNodes, IsSeq
<1> QED
  BY <1>1, <1>2 DEF Passes

\* Nodes without an op do nothing.
LEMMA QuietNodes ==
  ASSUME NEW nds, AreNodes(nds), NEW c, IsContext(c),
         \A i \in 1..Len(nds) : nds[i].op = "none"
  PROVE  Executed(nds, c) = c
<1> DEFINE n == Len(nds)
<1>0. n \in Nat
  BY DEF AreNodes, IsSeq
<1>1. PICK f : Passes(nds, c, f)
  BY ExecutedPasses
<1> DEFINE S == {i \in 0..n : f[i] = c}
<1>2. 0 \in S
  BY <1>0, <1>1 DEF Passes
<1>3. \A i \in 1..n : i - 1 \in S => i \in S
  <2> SUFFICES ASSUME NEW i \in 1..n, i - 1 \in S PROVE i \in S
    OBVIOUS
  <2>1. IsNode(nds[i]) /\ f[i - 1] = c /\ nds[i].op = "none"
    BY DEF AreNodes
  <2>2. f[i] = Execute(nds[i], c)
    BY <1>1, <2>1 DEF Passes
  <2>3. f[i] = c
    BY <2>1, <2>2, ExecuteIs
  <2> QED
    BY <1>0, <2>3
<1>4. \A i \in 0..n : i \in S
  <2> HIDE DEF n, S
  <2> QED
    BY ONLY <1>0, <1>2, <1>3, UpTo, Zenon
<1> QED
  BY <1>0, <1>1, <1>4 DEF Passes

\* One node among them is all that counts.
LEMMA OneLoudNode ==
  ASSUME NEW nds, AreNodes(nds), NEW c, IsContext(c), NEW k \in 1..Len(nds),
         \A i \in 1..Len(nds) : i # k => nds[i].op = "none"
  PROVE  Executed(nds, c) = Execute(nds[k], c)
<1> DEFINE n == Len(nds)
           d == Execute(nds[k], c)
<1>0. n \in Nat
  BY DEF AreNodes, IsSeq
<1>1. PICK f : Passes(nds, c, f)
  BY ExecutedPasses
<1>d. IsContext(d)
  BY ExecuteIs DEF AreNodes
<1> DEFINE S == {i \in 0..n : f[i] = IF i < k THEN c ELSE d}
<1>2. 0 \in S
  BY <1>0, <1>1 DEF Passes
<1>3. \A i \in 1..n : i - 1 \in S => i \in S
  <2> SUFFICES ASSUME NEW i \in 1..n, i - 1 \in S PROVE i \in S
    OBVIOUS
  <2>1. IsNode(nds[i]) /\ f[i - 1] = IF i - 1 < k THEN c ELSE d
    BY DEF AreNodes
  <2>2. f[i] = Execute(nds[i], f[i - 1])
    BY <1>1 DEF Passes
  <2>3. i \in 0..n
    BY <1>0
  <2>4. CASE i = k
    <3>1. f[i - 1] = c /\ ~(i < k)
      BY <2>1, <2>4, <1>0
    <3> QED
      BY <2>2, <2>3, <2>4, <3>1
  <2>5. CASE i # k
    <3>1. nds[i].op = "none" /\ IsContext(f[i - 1])
      BY <2>1, <2>5, <1>d
    <3>2. f[i] = f[i - 1]
      BY <2>1, <2>2, <3>1, ExecuteIs
    <3>3. i - 1 < k <=> i < k
      BY <2>5, <1>0
    <3> HIDE DEF d
    <3> QED
      BY <2>1, <2>3, <3>2, <3>3
  <2> QED
    BY <2>4, <2>5
<1>4. \A i \in 0..n : i \in S
  <2> HIDE DEF n, S
  <2> QED
    BY ONLY <1>0, <1>2, <1>3, UpTo, Zenon
<1>5. n \in 0..n /\ ~(n < k)
  BY <1>0
<1> HIDE DEF d
<1>6. f[n] = d
  BY <1>4, <1>5
<1> QED
  BY <1>1, <1>6 DEF Passes, d

LEMMA ExecutedAppend ==
  ASSUME NEW X, NEW nds \in Seq(X), NEW e \in X, NEW c
  PROVE  Executed(Append(nds, e), c) = Execute(e, Executed(nds, c))
<1> DEFINE t == Append(nds, e)
           n == Len(nds)
<1>1. /\ n \in Nat /\ Len(t) = n + 1 /\ t[n + 1] = e /\ Len(t) \in Nat
      /\ \A i \in 1..n : t[i] = nds[i]
  OBVIOUS
<1> HIDE DEF t
<1>2. PICK f : ExecutedUpTo(t, c, f, Len(t)) /\ Executed(t, c) = f[Len(t)]
  BY <1>1, ExecutedRun
<1>3. ExecutedUpTo(nds, c, f, n)
  BY <1>1, <1>2 DEF ExecutedUpTo
<1>4. Executed(nds, c) = f[n]
  BY <1>1, <1>3, ExecutedIs
<1>5. f[n + 1] = Execute(t[n + 1], f[n])
  <2>1. n + 1 \in 1..Len(t) /\ (n + 1) - 1 = n
    BY <1>1
  <2> QED
    BY <1>2, <2>1 DEF ExecutedUpTo
<1> QED
  BY <1>1, <1>2, <1>4, <1>5 DEF t

-----------------------------------------------------------------------------
(* The phases of a tree, one after the other.                              *)

IsTree(p) == p \in Seq(Range(p)) /\ \A node \in Range(p) : IsNode(node)

LEMMA ProgramsAreTrees ==
  ASSUME NEW p \in Programs
  PROVE  IsTree(p)
<1>1. ASSUME NEW node \in Range(p) PROVE IsNode(node)
  <2>1. node.state \in [DOMAIN node.state -> Int \cup {Text}]
    BY ExecutorAssumption
  <2> QED
    BY <2>1, ExecutorAssumption DEF IsNode, IsMap
<1> QED
  BY <1>1, ExecutorAssumption DEF IsTree

LEMMA PhaseNodesAre ==
  ASSUME NEW p, IsTree(p), NEW ph
  PROVE  /\ PhaseNodes(p, ph) \in Seq(Range(p))
         /\ AreNodes(PhaseNodes(p, ph))
         /\ \A i \in 1..Len(PhaseNodes(p, ph)) :
              PhaseNodes(p, ph)[i] \in Range(p) /\ PhaseNodes(p, ph)[i].phase = ph
<1> DEFINE N == PhaseNodes(p, ph)
           S == {node \in Range(p) : node.phase = ph}
<1>1. N \in Seq(Range(p)) /\ N = Only(p, S)
  BY OnlyType DEF PhaseNodes, IsTree
<1>2. PICK g : Selects(g, Only(p, S), p, S, Len(p))
  <2> HIDE DEF S
  <2> QED
    BY OnlySelects DEF IsTree
<1>3. \A i \in 1..Len(N) : N[i] \in S
  BY <1>1, <1>2 DEF Selects
<1>4. IsSeq(N)
  BY <1>1, SeqIsSeq
<1> HIDE DEF N
<1>5. \A i \in 1..Len(N) : N[i] \in Range(p) /\ N[i].phase = ph
  BY <1>3
<1>6. AreNodes(N)
  BY <1>4, <1>5 DEF AreNodes, IsTree
<1> QED
  BY <1>1, <1>5, <1>6 DEF N

LEMMA AfterPhases ==
  ASSUME NEW p, IsTree(p), NEW q \in Nat
  PROVE  /\ IsContext(After(p, q))
         /\ After(p, 0) = EmptyContext
         /\ q # 0 => After(p, q) =
              MergePhase(Executed(PhaseNodes(p, Phases[q]), After(p, q - 1)))
<1>1. PICK f : AfterUpTo(p, f, q) /\ After(p, q) = f[q]
  BY AfterRun
<1>2. /\ f[0] = EmptyContext
      /\ \A i \in 1..q : f[i] = MergePhase(Executed(PhaseNodes(p, Phases[i]), f[i - 1]))
  BY <1>1 DEF AfterUpTo
<1> DEFINE S == {i \in 0..q : IsContext(f[i])}
<1>3. 0 \in S
  BY <1>2, EmptyIsContext
<1>4. \A i \in 1..q : i - 1 \in S => i \in S
  <2> SUFFICES ASSUME NEW i \in 1..q, i - 1 \in S PROVE i \in S
    OBVIOUS
  <2> DEFINE e == Executed(PhaseNodes(p, Phases[i]), f[i - 1])
  <2>1. IsContext(e)
    BY PhaseNodesAre, ExecutedIsContext
  <2>2. f[i] = MergePhase(e)
    BY <1>2
  <2> HIDE DEF e
  <2>3. IsContext(f[i])
    BY <2>1, <2>2, MergePhaseIs
  <2> QED
    BY <2>3
<1>5. \A i \in 0..q : i \in S
  <2> HIDE DEF S
  <2> QED
    BY ONLY <1>3, <1>4, UpTo, q \in Nat, Zenon
<1>6. After(p, 0) = EmptyContext
  BY AfterRun DEF AfterUpTo
<1>7. ASSUME q # 0
      PROVE  After(p, q) =
               MergePhase(Executed(PhaseNodes(p, Phases[q]), After(p, q - 1)))
  <2>1. q - 1 \in Nat /\ q \in 1..q /\ \A i \in 1..(q - 1) : i \in 1..q
    BY <1>7
  <2>2. AfterUpTo(p, f, q - 1)
    BY <1>1, <2>1 DEF AfterUpTo
  <2>3. After(p, q - 1) = f[q - 1]
    BY <2>1, <2>2, AfterIs
  <2> QED
    BY <1>1, <1>2, <2>1, <2>3
<1> QED
  BY <1>1, <1>5, <1>6, <1>7
-----------------------------------------------------------------------------
(* The pool under the executor: its barrier holds for these batches too.   *)

Nodes == UNION {Range(p) : p \in Programs}

PoolProofs == INSTANCE ThreadPoolProofs WITH
                Task <- Nodes,
                BatchLists <- {Batches(p) : p \in Programs},
                batches <- Batches(program)

LEMMA BatchesAre ==
  ASSUME NEW p \in Programs
  PROVE  /\ Batches(p) \in Seq(Seq(Nodes)) /\ Len(Batches(p)) = 5
         /\ \A q \in 1..5 : /\ Batches(p)[q] = PhaseNodes(p, Phases[q])
                            /\ Batches(p)[q] \in Seq(Range(p))
<1>0. Len(Phases) = 5
  BY DEF Phases
<1>1. IsTree(p)
  BY ProgramsAreTrees
<1>2. \A q \in 1..5 : PhaseNodes(p, Phases[q]) \in Seq(Range(p))
  BY <1>1, PhaseNodesAre
<1>3. \A s \in Seq(Range(p)) : s \in Seq(Nodes)
  <2>1. Range(p) \subseteq Nodes
    BY DEF Nodes
  <2> QED
    BY <2>1, SeqMonotonic
<1> DEFINE b == [q \in 1..5 |-> PhaseNodes(p, Phases[q])]
<1>4. Batches(p) = b
  BY <1>0 DEF Batches
<1>5. \A q \in 1..5 : b[q] = PhaseNodes(p, Phases[q])
  OBVIOUS
<1>6. b \in [1..5 -> Seq(Nodes)]
  BY <1>2, <1>3
<1> HIDE DEF b
<1>7. b \in Seq(Seq(Nodes)) /\ Len(b) = 5
  <2> DEFINE T == Seq(Nodes)
  <2> HIDE DEF T
  <2>1. b \in [1..5 -> T]
    BY <1>6 DEF T
  <2>2. b \in Seq(T)
    BY <2>1, SeqDef
  <2>3. DOMAIN b = 1..5 /\ DOMAIN b = 1..Len(b) /\ Len(b) \in Nat
    <3>1. DOMAIN b = 1..5
      BY <2>1
    <3>2. DOMAIN b = 1..Len(b) /\ Len(b) \in Nat
      BY <2>2, LenProperties
    <3> QED
      BY <3>1, <3>2
  <2>4. 5 \in 1..Len(b) /\ (Len(b) # 0 => Len(b) \in 1..5)
    BY <2>3
  <2> QED
    BY <2>2, <2>3, <2>4 DEF T
<1> QED
  BY <1>2, <1>4, <1>5, <1>7

LEMMA PoolAssumed == PoolProofs!PoolAssumption
<1>1. \A p \in Programs : NoTask \notin Range(p)
  BY ExecutorAssumption
<1>2. NoTask \notin Nodes
  BY <1>1 DEF Nodes
<1>3. \A p \in Programs : Batches(p) \in Seq(Seq(Nodes)) /\ Len(Batches(p)) > 0
  BY BatchesAre
<1>4. IsFiniteSet(Workers) /\ Workers # {}
  BY ExecutorAssumption
<1>5. /\ {Batches(p) : p \in Programs} \subseteq Seq(Seq(Nodes))
      /\ \A b \in {Batches(p) : p \in Programs} : Len(b) > 0
  BY <1>3
<1>6. PoolProofs!IsFiniteSet(Workers)
  BY <1>4 DEF IsFiniteSet, PoolProofs!IsFiniteSet
<1> QED
  BY <1>2, <1>4, <1>5, <1>6 DEF PoolProofs!PoolAssumption

\* The pool of the specification and that of the proofs are one.
LEMMA PoolStepsSame ==
  /\ Pool!MainStep => PoolProofs!MainStep
  /\ Pool!SpuriousWake => PoolProofs!SpuriousWake
  /\ \A w \in Workers : Pool!PoolStep(w) \/ Pool!RunTask(w)
                        => PoolProofs!PoolStep(w) \/ PoolProofs!RunTask(w)
<1> USE DEF Pool!MainAt, PoolProofs!MainAt, Pool!WorkerAt, PoolProofs!WorkerAt,
            Pool!mainVars, PoolProofs!mainVars, Pool!workerVars,
            PoolProofs!workerVars
<1>1. Pool!TaskStarted => PoolProofs!TaskStarted
  BY DEF Pool!TaskStarted, PoolProofs!TaskStarted
<1>2. Pool!Push => PoolProofs!Push
  BY DEF Pool!Push, PoolProofs!Push
<1>3. Pool!NotifyOne => PoolProofs!NotifyOne
  BY Zenon DEF Pool!NotifyOne, PoolProofs!NotifyOne
<1>4. Pool!EnterWait => PoolProofs!EnterWait
  BY DEF Pool!EnterWait, PoolProofs!EnterWait
<1>5. Pool!CheckActive => PoolProofs!CheckActive
  BY DEF Pool!CheckActive, PoolProofs!CheckActive
<1>6. Pool!CheckTasks => PoolProofs!CheckTasks
  BY DEF Pool!CheckTasks, PoolProofs!CheckTasks
<1>7. Pool!Block => PoolProofs!Block
  BY DEF Pool!Block, PoolProofs!Block
<1>8. Pool!NextPhase => PoolProofs!NextPhase
  BY DEF Pool!NextPhase, PoolProofs!NextPhase
<1>9. Pool!SetStop => PoolProofs!SetStop
  BY DEF Pool!SetStop, PoolProofs!SetStop
<1>10. Pool!NotifyAll => PoolProofs!NotifyAll
  BY DEF Pool!NotifyAll, PoolProofs!NotifyAll
<1>11. Pool!Join => PoolProofs!Join
  BY DEF Pool!Join, PoolProofs!Join
<1>12. Pool!SpuriousMainWake => PoolProofs!SpuriousMainWake
  BY DEF Pool!SpuriousMainWake, PoolProofs!SpuriousMainWake
<1>13. ASSUME NEW w \in Workers
       PROVE  /\ Pool!SpuriousWorkerWake(w) => PoolProofs!SpuriousWorkerWake(w)
              /\ Pool!PoolStep(w) => PoolProofs!PoolStep(w)
              /\ Pool!RunTask(w) => PoolProofs!RunTask(w)
  <2>1. Pool!SpuriousWorkerWake(w) => PoolProofs!SpuriousWorkerWake(w)
    BY DEF Pool!SpuriousWorkerWake, PoolProofs!SpuriousWorkerWake
  <2>2. Pool!Take(w) => PoolProofs!Take(w)
    BY DEF Pool!Take, PoolProofs!Take
  <2>3. Pool!Sleep(w) => PoolProofs!Sleep(w)
    BY DEF Pool!Sleep, PoolProofs!Sleep
  <2>4. Pool!Exit(w) => PoolProofs!Exit(w)
    BY DEF Pool!Exit, PoolProofs!Exit
  <2>5. Pool!CountDown(w) => PoolProofs!CountDown(w)
    BY DEF Pool!CountDown, PoolProofs!CountDown
  <2>6. Pool!CheckEmpty(w) => PoolProofs!CheckEmpty(w)
    BY DEF Pool!CheckEmpty, PoolProofs!CheckEmpty
  <2>7. Pool!NotifyDone(w) => PoolProofs!NotifyDone(w)
    BY DEF Pool!NotifyDone, PoolProofs!NotifyDone
  <2>8. Pool!RunTask(w) => PoolProofs!RunTask(w)
    BY DEF Pool!RunTask, PoolProofs!RunTask
  <2> QED
    BY <2>1, <2>2, <2>3, <2>4, <2>5, <2>6, <2>7, <2>8
    DEF Pool!PoolStep, PoolProofs!PoolStep
<1>14. Pool!MainStep => PoolProofs!MainStep
  BY <1>1, <1>2, <1>3, <1>4, <1>5, <1>6, <1>7, <1>8, <1>9, <1>10, <1>11
  DEF Pool!MainStep, PoolProofs!MainStep
<1>15. Pool!SpuriousWake => PoolProofs!SpuriousWake
  BY <1>12, <1>13 DEF Pool!SpuriousWake, PoolProofs!SpuriousWake
<1> QED
  BY <1>13, <1>14, <1>15

PoolMoves ==
  \/ Pool!MainStep \/ Pool!SpuriousWake
  \/ \E w \in Workers : Pool!PoolStep(w) \/ Pool!RunTask(w)
  \/ UNCHANGED <<program, poolVars>>

LEMMA PoolKept ==
  ASSUME PoolProofs!IInv, PoolMoves
  PROVE  PoolProofs!IInv'
<1>1. CASE Pool!MainStep
  BY <1>1, PoolStepsSame, PoolAssumed, PoolProofs!MainKeepsIInv
<1>2. CASE Pool!SpuriousWake
  BY <1>2, PoolStepsSame, PoolAssumed, PoolProofs!SpuriousKeepsIInv
<1>3. ASSUME NEW w \in Workers, Pool!PoolStep(w) \/ Pool!RunTask(w)
      PROVE  PoolProofs!IInv'
  <2>1. PoolProofs!PoolStep(w) \/ PoolProofs!RunTask(w)
    BY <1>3, PoolStepsSame
  <2> QED
    BY <2>1, PoolAssumed, PoolProofs!WorkerKeepsIInv
<1>4. CASE UNCHANGED <<program, poolVars>>
  <2>1. UNCHANGED PoolProofs!vars
    BY <1>4 DEF poolVars, PoolProofs!vars
  <2> QED
    BY <2>1, PoolAssumed, PoolProofs!StutterKeepsIInv
<1> QED
  BY <1>1, <1>2, <1>3, <1>4 DEF PoolMoves

\* Past wait() nothing is queued and nobody runs a task.
LEMMA PoolIdle ==
  ASSUME PoolProofs!IInv,
         main \in {"merge", "stop", "notify_all", "join", "done"}
  PROVE  /\ tasks = <<>>
         /\ \A w \in Workers : worker[w] \notin {"task", "count"}
<1>1. activeTasks = 0
  BY DEF PoolProofs!IInv, PoolProofs!Quiet, PoolProofs!AfterBarrier
<1>2. tasks = <<>> /\ PoolProofs!Busy = {}
  BY <1>1, PoolAssumed, PoolProofs!NothingLeft
<1> QED
  BY <1>2 DEF PoolProofs!Busy
-----------------------------------------------------------------------------
(* What holds of run_execution whatever its nodes race for.                *)

Batch == PhaseNodes(program, Phases[phase])

Ended == {"stop", "notify_all", "join", "done"}

\* Past the last push, every task of the phase has been pushed.
Dispatched ==
  main \in {"wait", "check_tasks", "block", "blocked", "merge"}
    => next = Len(Batch) + 1

\* What is queued or run is a task of the phase.
OfThePhase ==
  /\ \A i \in 1..Len(tasks) : \E k \in 1..Len(Batch) : tasks[i] = Batch[k]
  /\ \A w \in Workers : worker[w] = "task" =>
                          \E k \in 1..Len(Batch) : task[w] = Batch[k]

\* A handler that has started saw one context, and still runs.
SeenIsContext ==
  /\ seen = [w \in Workers |-> seen[w]]
  /\ \A w \in Workers : seen[w] # {} =>
       /\ worker[w] = "task"
       /\ \E s : seen[w] = {s} /\ IsMap(s.phaseBuffer) /\ IsSeq(s.logs)

Frame == /\ program \in Programs
         /\ PoolProofs!IInv
         /\ Dispatched /\ OfThePhase /\ SeenIsContext
         /\ IsContext(ctx)

LEMMA FrameTypes ==
  ASSUME Frame
  PROVE  /\ phase \in 1..5 /\ next \in 1..(Len(Batch) + 1) /\ Len(Batch) \in Nat
         /\ Batches(program)[phase] = Batch /\ Len(Batches(program)) = 5
         /\ tasks \in Seq(Nodes)
         /\ worker = [w \in Workers |-> worker[w]]
         /\ task = [w \in Workers |-> task[w]]
         /\ IsTree(program) /\ AreNodes(Batch)
<1>1. /\ program \in Programs
      /\ phase \in 1..Len(Batches(program))
      /\ next \in 1..(Len(Batches(program)[phase]) + 1)
      /\ tasks \in Seq(Nodes)
      /\ worker = [w \in Workers |-> worker[w]]
      /\ task = [w \in Workers |-> task[w]]
  BY DEF Frame, PoolProofs!IInv, PoolProofs!TypeOK
<1>2. /\ Len(Batches(program)) = 5
      /\ phase \in 1..5 => Batches(program)[phase] = Batch
  BY <1>1, BatchesAre DEF Batch
<1>3. IsTree(program)
  BY <1>1, ProgramsAreTrees
<1>4. AreNodes(Batch) /\ Len(Batch) \in Nat
  <2>1. AreNodes(Batch)
    BY <1>3, PhaseNodesAre DEF Batch
  <2> QED
    BY <2>1 DEF AreNodes, IsSeq
<1> QED
  BY <1>1, <1>2, <1>3, <1>4

\* The pool's steps that neither queue nor take a task.
Elsewhere ==
  /\ UNCHANGED <<phase, next, tasks, task>>
  /\ DOMAIN worker' = Workers
  /\ \A w \in Workers : worker'[w] = "task" <=> worker[w] = "task"
  /\ Dispatched'
  /\ main' \in Ended <=> main \in Ended

LEMMA ScheduleIs ==
  ASSUME Frame, Schedule, UNCHANGED program
  PROVE  \/ Pool!Push
         \/ \E w \in Workers : Pool!Take(w)
         \/ Elsewhere
<1>t. /\ next \in 1..(Len(Batch) + 1) /\ Len(Batch) \in Nat
      /\ Batches(program)[phase] = Batch
      /\ worker = [w \in Workers |-> worker[w]]
  BY FrameTypes
<1>d. Dispatched
  BY DEF Frame
<1>p. UNCHANGED phase => Batch' = Batch
  BY DEF Batch
<1> USE DEF Pool!MainAt, Pool!workerVars, Pool!mainVars, Pool!WorkerAt, Elsewhere,
            Dispatched, Ended
<1>w. ASSUME NEW w \in Workers, NEW to, to # "task", worker[w] # "task",
             worker' = [worker EXCEPT ![w] = to]
      PROVE  /\ DOMAIN worker' = Workers
             /\ \A v \in Workers : worker'[v] = "task" <=> worker[v] = "task"
  BY <1>t, <1>w
<1>u. UNCHANGED worker => /\ DOMAIN worker' = Workers
                          /\ \A w \in Workers : worker'[w] = "task" <=> worker[w] = "task"
  BY <1>t
<1> HIDE DEF Elsewhere
<1>1. CASE Pool!TaskStarted
  BY <1>1, <1>d, <1>p, <1>u DEF Pool!TaskStarted, Elsewhere
<1>2. CASE Pool!NotifyOne
  <2>1. CASE \E w \in Workers : worker[w] = "asleep"
    <3>1. PICK w \in Workers : worker[w] = "asleep" /\ worker' = [worker EXCEPT ![w] = "check"]
      BY <1>2, <2>1 DEF Pool!NotifyOne
    <3> QED
      BY <1>2, <1>w, <1>p, <3>1 DEF Pool!NotifyOne, Elsewhere
  <2>2. CASE ~\E w \in Workers : worker[w] = "asleep"
    BY <1>2, <1>u, <1>p, <2>2 DEF Pool!NotifyOne, Elsewhere
  <2> QED
    BY <2>1, <2>2
<1>3. CASE Pool!EnterWait
  <2>1. next = Len(Batch) + 1
    BY <1>3, <1>t DEF Pool!EnterWait
  <2> QED
    BY <1>3, <1>p, <1>u, <2>1 DEF Pool!EnterWait, Elsewhere
<1>4. CASE Pool!CheckActive
  BY <1>4, <1>d, <1>p, <1>u DEF Pool!CheckActive, Elsewhere
<1>5. CASE Pool!CheckTasks
  BY <1>5, <1>d, <1>p, <1>u DEF Pool!CheckTasks, Elsewhere
<1>6. CASE Pool!Block
  BY <1>6, <1>d, <1>p, <1>u DEF Pool!Block, Elsewhere
<1>7. CASE Pool!SetStop
  BY <1>7, <1>d, <1>p, <1>u DEF Pool!SetStop, Elsewhere
<1>8. CASE Pool!NotifyAll
  <2>1. /\ DOMAIN worker' = Workers
        /\ \A w \in Workers : worker'[w] = "task" <=> worker[w] = "task"
    BY <1>8, <1>t DEF Pool!NotifyAll
  <2> QED
    BY <1>8, <1>p, <2>1 DEF Pool!NotifyAll, Elsewhere
<1>9. CASE Pool!Join
  BY <1>9, <1>d, <1>p, <1>u DEF Pool!Join, Elsewhere
<1>10. CASE Pool!SpuriousWake
  <2>1. CASE Pool!SpuriousMainWake
    BY <2>1, <1>d, <1>p, <1>u DEF Pool!SpuriousMainWake, Elsewhere
  <2>2. ASSUME NEW w \in Workers, Pool!SpuriousWorkerWake(w)
        PROVE  Elsewhere
    BY <2>2, <1>d, <1>p, <1>w DEF Pool!SpuriousWorkerWake, Elsewhere
  <2> QED
    BY <1>10, <2>1, <2>2 DEF Pool!SpuriousWake
<1>11. ASSUME NEW w \in Workers, Pool!PoolStep(w)
       PROVE  Pool!Take(w) \/ Elsewhere
  <2>1. CASE Pool!Sleep(w)
    BY <2>1, <1>d, <1>p, <1>w DEF Pool!Sleep, Elsewhere
  <2>2. CASE Pool!Exit(w)
    BY <2>2, <1>d, <1>p, <1>w DEF Pool!Exit, Elsewhere
  <2>3. CASE Pool!CountDown(w)
    BY <2>3, <1>d, <1>p, <1>w DEF Pool!CountDown, Elsewhere
  <2>4. CASE Pool!CheckEmpty(w)
    BY <2>4, <1>d, <1>p, <1>w DEF Pool!CheckEmpty, Elsewhere
  <2>5. CASE Pool!NotifyDone(w)
    BY <2>5, <1>d, <1>p, <1>w DEF Pool!NotifyDone, Elsewhere
  <2> QED
    BY <1>11, <2>1, <2>2, <2>3, <2>4, <2>5 DEF Pool!PoolStep
<1> QED
  BY <1>1, <1>2, <1>3, <1>4, <1>5, <1>6, <1>7, <1>8, <1>9, <1>10, <1>11
  DEF Schedule

LEMMA SchedulePoolMoves ==
  ASSUME Schedule
  PROVE  PoolMoves
BY DEF Schedule, PoolMoves, Pool!MainStep

\* What a step does to the tasks, the handlers and the context.
LEMMA FinishIs ==
  ASSUME Frame, NEW w \in Workers, Finish(w), UNCHANGED program
  PROVE  /\ worker[w] = "task" /\ seen[w] # {}
         /\ \E k \in 1..Len(Batch) : task[w] = Batch[k]
         /\ IsNode(task[w])
         /\ \/ task[w].op = "none" /\ ctx' = ctx
            \/ \E b, l \in seen[w] \cup {Shared} :
                 /\ IsMap(b.phaseBuffer) /\ IsSeq(l.logs)
                 /\ IsContext([ctx EXCEPT !.phaseBuffer = b.phaseBuffer, !.logs = l.logs])
                 /\ ctx' = Execute(task[w], [ctx EXCEPT !.phaseBuffer = b.phaseBuffer,
                                                        !.logs = l.logs])
         /\ IsContext(ctx') /\ ctx'.global = ctx.global
         /\ worker' = [worker EXCEPT ![w] = "count"]
         /\ seen' = [seen EXCEPT ![w] = {}]
         /\ UNCHANGED <<main, phase, next, tasks, task>>
<1>1. /\ worker[w] = "task" /\ seen[w] # {}
      /\ worker' = [worker EXCEPT ![w] = "count"]
      /\ seen' = [seen EXCEPT ![w] = {}]
      /\ UNCHANGED <<main, phase, next, tasks, task>>
  BY DEF Finish, Pool!RunTask, Pool!WorkerAt, Pool!mainVars
<1>2. PICK k \in 1..Len(Batch) : task[w] = Batch[k]
  BY <1>1 DEF Frame, OfThePhase
<1>3. IsNode(task[w])
  BY <1>2, FrameTypes DEF AreNodes
<1>4. PICK s : seen[w] = {s} /\ IsMap(s.phaseBuffer) /\ IsSeq(s.logs)
  BY <1>1 DEF Frame, SeenIsContext
<1>5. IsContext(ctx)
  BY DEF Frame
<1>6. \A b \in seen[w] \cup {Shared} : IsMap(b.phaseBuffer) /\ IsSeq(b.logs)
  BY <1>4, <1>5 DEF Shared, IsContext
<1>7. ASSUME NEW b, IsMap(b), NEW l, IsSeq(l)
      PROVE  /\ IsContext([ctx EXCEPT !.phaseBuffer = b, !.logs = l])
             /\ [ctx EXCEPT !.phaseBuffer = b, !.logs = l].global = ctx.global
  <2>1. PICK x, y, z : ctx = [global |-> x, phaseBuffer |-> y, logs |-> z]
    BY <1>5 DEF IsContext
  <2>2. [ctx EXCEPT !.phaseBuffer = b, !.logs = l] =
          [global |-> x, phaseBuffer |-> b, logs |-> l]
    <3> DEFINE d == [ctx EXCEPT !.phaseBuffer = b, !.logs = l]
    <3>1. d = [ctx EXCEPT !.phaseBuffer = b, !.logs = l]
      OBVIOUS
    <3> HIDE DEF d
    <3>2. d = [global |-> x, phaseBuffer |-> b, logs |-> l]
      BY <2>1, <3>1
    <3> QED
      BY <3>2 DEF d
  <2> DEFINE c == [global |-> x, phaseBuffer |-> b, logs |-> l]
  <2>3. /\ c = [global |-> c.global, phaseBuffer |-> c.phaseBuffer, logs |-> c.logs]
        /\ c.global = x /\ c.phaseBuffer = b /\ c.logs = l
    OBVIOUS
  <2>4. ctx.global = x
    BY <2>1
  <2> HIDE DEF c
  <2>5. IsContext(c)
    BY <2>3, <1>7 DEF IsContext
  <2> QED
    BY <2>2, <2>3, <2>4, <2>5 DEF c
<1>8. CASE task[w].op = "none"
  <2>1. ctx' = ctx
    BY <1>8 DEF Finish
  <2> QED
    BY <1>1, <1>2, <1>3, <1>5, <1>8, <2>1
<1>9. CASE task[w].op # "none"
  <2>1. PICK b, l \in seen[w] \cup {Shared} :
          ctx' = Execute(task[w], [ctx EXCEPT !.phaseBuffer = b.phaseBuffer,
                                              !.logs = l.logs])
    BY <1>9 DEF Finish
  <2> DEFINE c == [ctx EXCEPT !.phaseBuffer = b.phaseBuffer, !.logs = l.logs]
  <2>2. IsMap(b.phaseBuffer) /\ IsSeq(l.logs)
    BY <1>6
  <2>3. IsContext(c) /\ c.global = ctx.global
    BY <1>7, <2>2
  <2>4. ctx' = Execute(task[w], c)
    BY <2>1
  <2>5. IsContext(ctx') /\ ctx'.global = ctx.global
    <3> HIDE DEF c
    <3> QED
      BY <1>3, <2>3, <2>4, ExecuteIs
  <2>6. \E b1, l1 \in seen[w] \cup {Shared} :
          /\ IsMap(b1.phaseBuffer) /\ IsSeq(l1.logs)
          /\ IsContext([ctx EXCEPT !.phaseBuffer = b1.phaseBuffer, !.logs = l1.logs])
          /\ ctx' = Execute(task[w], [ctx EXCEPT !.phaseBuffer = b1.phaseBuffer,
                                                 !.logs = l1.logs])
    BY <2>1, <2>2, <2>3, Zenon
  <2> QED
    BY <1>1, <1>2, <1>3, <2>5, <2>6
<1> QED
  BY <1>8, <1>9

LEMMA InitFrame == Init => Frame
<1> SUFFICES ASSUME Init PROVE Frame
  OBVIOUS
<1>1. /\ program \in Programs /\ ctx = EmptyContext /\ main = "dispatch"
      /\ seen = [w \in Workers |-> {}] /\ tasks = <<>>
      /\ worker = [w \in Workers |-> "check"]
  BY DEF Init, Pool!Init
<1>2. PoolProofs!IInv
  <2>1. PoolProofs!Init
    BY DEF Init, Pool!Init, PoolProofs!Init, Nodes
  <2> QED
    BY <2>1, PoolAssumed, PoolProofs!InitIInv
<1>3. Dispatched
  BY <1>1 DEF Dispatched
<1>4. OfThePhase
  <2>1. Len(tasks) = 0
    BY <1>1
  <2> QED
    BY <1>1, <2>1 DEF OfThePhase
<1>5. SeenIsContext
  BY <1>1 DEF SeenIsContext
<1> QED
  BY <1>1, <1>2, <1>3, <1>4, <1>5, EmptyIsContext DEF Frame

LEMMA PushIs ==
  ASSUME Frame, Pool!Push, UNCHANGED program
  PROVE  /\ next \in 1..Len(Batch) /\ Len(Batch) \in Nat
         /\ next' = next + 1 /\ tasks' = Append(tasks, Batch[next])
         /\ Len(tasks) \in Nat /\ Len(tasks') = Len(tasks) + 1
         /\ tasks'[Len(tasks) + 1] = Batch[next]
         /\ \A i \in 1..Len(tasks) : tasks'[i] = tasks[i]
         /\ main = "push" /\ main' = "notify"
         /\ UNCHANGED <<phase, worker, task, Batch>>
<1>1. /\ next' = next + 1 /\ tasks' = Append(tasks, Batches(program)[phase][next])
      /\ main = "push" /\ main' = "notify" /\ UNCHANGED <<phase, worker, task>>
  BY DEF Pool!Push, Pool!MainAt, Pool!workerVars
<1>2. next <= Len(Batches(program)[phase])
  BY <1>1 DEF Frame, PoolProofs!IInv, PoolProofs!InRange
<1>3. next \in 1..Len(Batch) /\ Len(Batch) \in Nat /\ Batches(program)[phase] = Batch
  BY <1>2, FrameTypes
<1>4. tasks \in Seq(Nodes)
  BY FrameTypes
<1>5. Batch' = Batch
  BY <1>1 DEF Batch
<1>6. /\ Len(tasks) \in Nat /\ Len(tasks') = Len(tasks) + 1
      /\ tasks'[Len(tasks) + 1] = Batch[next]
      /\ \A i \in 1..Len(tasks) : tasks'[i] = tasks[i]
  BY <1>1, <1>3, <1>4
<1> QED
  BY <1>1, <1>3, <1>5, <1>6

LEMMA TakeIs ==
  ASSUME Frame, NEW w \in Workers, Pool!Take(w), UNCHANGED program
  PROVE  /\ worker[w] = "check" /\ worker' = [worker EXCEPT ![w] = "task"]
         /\ Len(tasks) \in Nat /\ 1 \in 1..Len(tasks)
         /\ task' = [task EXCEPT ![w] = tasks[1]]
         /\ Len(tasks') = Len(tasks) - 1
         /\ \A i \in 1..Len(tasks') : i + 1 \in 1..Len(tasks) /\ tasks'[i] = tasks[i + 1]
         /\ UNCHANGED <<main, phase, next, Batch>>
<1>1. /\ worker[w] = "check" /\ worker' = [worker EXCEPT ![w] = "task"]
      /\ tasks # <<>> /\ tasks' = Tail(tasks)
      /\ task' = [task EXCEPT ![w] = Head(tasks)]
      /\ UNCHANGED <<main, phase, next>>
  BY DEF Pool!Take, Pool!WorkerAt, Pool!mainVars
<1>2. tasks \in Seq(Nodes)
  BY FrameTypes
<1>3. /\ Len(tasks) \in Nat /\ Len(tasks) # 0 /\ Head(tasks) = tasks[1]
      /\ Len(Tail(tasks)) = Len(tasks) - 1
      /\ \A i \in 1..Len(Tail(tasks)) : Tail(tasks)[i] = tasks[i + 1]
  BY <1>1, <1>2
<1>4. Batch' = Batch
  BY <1>1 DEF Batch
<1>5. 1 \in 1..Len(tasks) /\ \A i \in 1..Len(Tail(tasks)) : i + 1 \in 1..Len(tasks)
  BY <1>3
<1> QED
  BY <1>1, <1>3, <1>4, <1>5

LEMMA FrameKept ==
  ASSUME Frame, [Next]_vars
  PROVE  Frame'
<1>0. /\ program \in Programs /\ IsContext(ctx)
      /\ Dispatched /\ OfThePhase /\ SeenIsContext
  BY DEF Frame
<1>b. UNCHANGED <<program, phase>> => Batch' = Batch
  BY DEF Batch
<1>1. ASSUME Schedule, UNCHANGED program PROVE Frame'
  <2>1. PoolProofs!IInv'
    BY <1>1, SchedulePoolMoves, PoolKept DEF Frame
  <2>2. UNCHANGED <<ctx, seen>>
    BY <1>1 DEF Schedule
  <2>3. CASE Pool!Push
    <3>1. Dispatched'
      BY <1>1, <2>3, PushIs DEF Dispatched
    <3>2. OfThePhase'
      <4>1. ASSUME NEW i \in 1..Len(tasks')
            PROVE  \E k \in 1..Len(Batch) : tasks'[i] = Batch[k]
        <5>1. i \in 1..Len(tasks) \/ i = Len(tasks) + 1
          BY <1>1, <2>3, PushIs
        <5> QED
          BY <1>0, <1>1, <2>3, <5>1, PushIs DEF OfThePhase
      <4> QED
        BY <1>0, <1>1, <2>3, <4>1, PushIs DEF OfThePhase
    <3>3. SeenIsContext'
      BY <1>0, <1>1, <2>2, <2>3, PushIs DEF SeenIsContext
    <3> QED
      BY <1>0, <1>1, <2>1, <2>2, <3>1, <3>2, <3>3 DEF Frame
  <2>4. ASSUME NEW w \in Workers, Pool!Take(w) PROVE Frame'
    <3>0. /\ worker = [v \in Workers |-> worker[v]]
          /\ task = [v \in Workers |-> task[v]]
      BY FrameTypes
    <3>1. Dispatched'
      BY <1>0, <1>1, <2>4, TakeIs DEF Dispatched
    <3>2. OfThePhase'
      <4>1. \A i \in 1..Len(tasks') : \E k \in 1..Len(Batch) : tasks'[i] = Batch[k]
        BY <1>0, <1>1, <2>4, TakeIs DEF OfThePhase
      <4>2. ASSUME NEW v \in Workers, worker'[v] = "task"
            PROVE  \E k \in 1..Len(Batch) : task'[v] = Batch[k]
        <5>1. CASE v = w
          BY <1>0, <1>1, <2>4, <3>0, <5>1, TakeIs DEF OfThePhase
        <5>2. CASE v # w
          BY <1>0, <1>1, <2>4, <3>0, <4>2, <5>2, TakeIs DEF OfThePhase
        <5> QED
          BY <5>1, <5>2
      <4>3. Batch' = Batch
        BY <1>1, <2>4, TakeIs
      <4> QED
        BY <4>1, <4>2, <4>3 DEF OfThePhase
    <3>3. SeenIsContext'
      <4>1. \A v \in Workers : worker[v] = "task" => worker'[v] = "task"
        BY <1>1, <2>4, <3>0, TakeIs
      <4> QED
        BY <1>0, <2>2, <4>1 DEF SeenIsContext
    <3> QED
      BY <1>0, <1>1, <2>1, <2>2, <3>1, <3>2, <3>3 DEF Frame
  <2>5. CASE Elsewhere
    <3>1. /\ UNCHANGED <<phase, next, tasks, task>> /\ Dispatched'
          /\ \A w \in Workers : worker'[w] = "task" <=> worker[w] = "task"
      BY <2>5 DEF Elsewhere
    <3>2. Batch' = Batch
      BY <1>1, <1>b, <3>1
    <3>3. OfThePhase'
      BY <1>0, <3>1, <3>2 DEF OfThePhase
    <3>4. SeenIsContext'
      BY <1>0, <2>2, <3>1 DEF SeenIsContext
    <3> QED
      BY <1>0, <1>1, <2>1, <2>2, <3>1, <3>3, <3>4 DEF Frame
  <2> QED
    BY <1>1, <2>3, <2>4, <2>5, ScheduleIs
<1>2. ASSUME Merge, UNCHANGED program PROVE Frame'
  <2>1. /\ main = "merge" /\ ctx' = MergePhase(ctx)
        /\ main' \in {"dispatch", "stop"}
        /\ UNCHANGED <<tasks, worker, task, seen>>
    BY <1>2 DEF Merge, Pool!NextPhase, Pool!workerVars
  <2>2. PoolProofs!IInv'
    <3>1. PoolMoves
      BY <1>2 DEF Merge, PoolMoves, Pool!MainStep
    <3> QED
      BY <3>1, PoolKept DEF Frame
  <2>3. IsContext(ctx')
    BY <1>0, <2>1, MergePhaseIs
  <2>4. tasks = <<>> /\ \A w \in Workers : worker[w] \notin {"task", "count"}
    BY <2>1, PoolIdle DEF Frame
  <2>5. OfThePhase'
    <3>1. Len(tasks) = 0
      BY <2>4
    <3> QED
      BY <2>1, <2>4, <3>1 DEF OfThePhase
  <2>6. SeenIsContext'
    BY <1>0, <2>1 DEF SeenIsContext
  <2>7. Dispatched'
    BY <2>1 DEF Dispatched
  <2> QED
    BY <1>0, <1>2, <2>2, <2>3, <2>5, <2>6, <2>7 DEF Frame
<1>3. ASSUME NEW w \in Workers, Begin(w), UNCHANGED program PROVE Frame'
  <2>1. /\ worker[w] = "task" /\ seen' = [seen EXCEPT ![w] = {Shared}]
        /\ UNCHANGED <<ctx, poolVars>>
    BY <1>3 DEF Begin
  <2>2. PoolProofs!IInv'
    <3>1. PoolMoves
      BY <1>3, <2>1 DEF PoolMoves
    <3> QED
      BY <3>1, PoolKept DEF Frame
  <2>3. SeenIsContext'
    <3>1. IsMap(Shared.phaseBuffer) /\ IsSeq(Shared.logs)
      BY <1>0 DEF Shared, IsContext
    <3>2. UNCHANGED worker
      BY <2>1 DEF poolVars
    <3> HIDE DEF Shared
    <3>3. seen' = [v \in Workers |-> seen'[v]]
      BY <1>0, <2>1 DEF SeenIsContext
    <3>4. \A v \in Workers : seen'[v] = IF v = w THEN {Shared} ELSE seen[v]
      BY <1>0, <2>1 DEF SeenIsContext
    <3> QED
      BY <1>0, <2>1, <3>1, <3>2, <3>3, <3>4 DEF SeenIsContext
  <2>4. Dispatched' /\ OfThePhase'
    <3>1. UNCHANGED <<main, next, tasks, worker, task, Batch>>
      BY <1>3, <1>b, <2>1 DEF poolVars
    <3> QED
      BY <1>0, <3>1 DEF Dispatched, OfThePhase
  <2> QED
    BY <1>0, <1>3, <2>1, <2>2, <2>3, <2>4 DEF Frame
<1>4. ASSUME NEW w \in Workers, Finish(w), UNCHANGED program PROVE Frame'
  <2>1. /\ IsContext(ctx') /\ worker' = [worker EXCEPT ![w] = "count"]
        /\ seen' = [seen EXCEPT ![w] = {}]
        /\ UNCHANGED <<main, phase, next, tasks, task>>
    <3> HIDE DEF Shared
    <3> QED
      BY <1>4, FinishIs
  <2>2. PoolProofs!IInv'
    <3>1. PoolMoves
      BY <1>4 DEF PoolMoves, Finish
    <3> QED
      BY <3>1, PoolKept DEF Frame
  <2>3. /\ worker = [v \in Workers |-> worker[v]] /\ Batch' = Batch
    BY <1>4, <1>b, <2>1, FrameTypes
  <2>4. \A v \in Workers : worker'[v] = IF v = w THEN "count" ELSE worker[v]
    BY <2>1, <2>3
  <2>5. SeenIsContext'
    <3>1. seen' = [v \in Workers |-> seen'[v]]
      BY <1>0, <2>1 DEF SeenIsContext
    <3>2. \A v \in Workers : seen'[v] = IF v = w THEN {} ELSE seen[v]
      BY <1>0, <2>1 DEF SeenIsContext
    <3> QED
      BY <1>0, <2>4, <3>1, <3>2 DEF SeenIsContext
  <2>6. OfThePhase'
    BY <1>0, <2>1, <2>3, <2>4 DEF OfThePhase
  <2>7. Dispatched'
    BY <1>0, <2>1, <2>3 DEF Dispatched
  <2> QED
    BY <1>0, <1>4, <2>1, <2>2, <2>5, <2>6, <2>7 DEF Frame
<1>5. ASSUME UNCHANGED <<program, ctx, seen, poolVars>> PROVE Frame'
  <2>1. PoolProofs!IInv'
    <3>1. PoolMoves
      BY <1>5 DEF PoolMoves
    <3> QED
      BY <3>1, PoolKept DEF Frame
  <2>2. UNCHANGED <<program, ctx, seen, main, next, tasks, worker, task, Batch>>
    BY <1>5, <1>b DEF poolVars
  <2>3. Dispatched' /\ OfThePhase' /\ SeenIsContext'
    BY <1>0, <2>2 DEF Dispatched, OfThePhase, SeenIsContext
  <2> QED
    BY <1>0, <2>1, <2>2, <2>3 DEF Frame
<1>6. ASSUME NEW w \in Workers, Abort(w), UNCHANGED program PROVE Frame'
  BY <1>5, <1>6 DEF Abort
<1> QED
  BY <1>1, <1>2, <1>3, <1>4, <1>5, <1>6 DEF Next, vars
-----------------------------------------------------------------------------
(* The emits of a program.                                                 *)

Entry(g) == <<"result", {g[k] : k \in {"result"} \cap DOMAIN g}>>

HasEmit(q) == \E k \in 1..Len(PhaseNodes(program, Phases[q])) :
                 PhaseNodes(program, Phases[q])[k].op = "emit"

\* The logs a handler may still write to.
AllLogs == {ctx.logs} \cup {s.logs : s \in UNION {seen[w] : w \in Workers}}

NoResult(logs) == \A i \in 1..Len(logs) : logs[i][1] # "result"
Only1(logs, x) == \A i \in 1..Len(logs) : logs[i][1] = "result" => logs[i] = x

NoneReported == \A logs \in AllLogs : NoResult(logs)

\* Before the phase of the emits nothing is reported, in it the value that
\* global has, and after it nothing new.
Reported ==
  \E x : /\ \A logs \in AllLogs : Only1(logs, x)
         /\ main \notin Ended =>
              /\ HasEmit(phase) => x = Entry(ctx.global)
              /\ \A q \in 1..5 : q > phase => ~HasEmit(q)

EmitInv == NoneReported \/ Reported

OneEmitPhase == \A q, r \in 1..5 : HasEmit(q) /\ HasEmit(r) => q = r

LEMMA ConcatParts ==
  ASSUME NEW s, NEW t, IsSeq(s), IsSeq(t)
  PROVE  \A i \in 1..Len(s \o t) :
           \/ i \in 1..Len(s) /\ (s \o t)[i] = s[i]
           \/ \E j \in 1..Len(t) : (s \o t)[i] = t[j]
<1>1. PICK X : s \in Seq(X) /\ t \in Seq(X)
  BY Common
<1>2. SUFFICES ASSUME NEW i \in 1..Len(s \o t)
               PROVE  \/ i \in 1..Len(s) /\ (s \o t)[i] = s[i]
                      \/ \E j \in 1..Len(t) : (s \o t)[i] = t[j]
  OBVIOUS
<1>3. /\ Len(s) \in Nat /\ Len(t) \in Nat /\ Len(s \o t) = Len(s) + Len(t)
      /\ (s \o t)[i] = IF i <= Len(s) THEN s[i] ELSE t[i - Len(s)]
  BY <1>1
<1>4. CASE i <= Len(s)
  BY <1>3, <1>4
<1>5. CASE ~(i <= Len(s))
  <2>1. i - Len(s) \in 1..Len(t)
    BY <1>3, <1>5
  <2> QED
    BY <1>3, <1>5, <2>1
<1> QED
  BY <1>4, <1>5

LEMMA AtMostOne ==
  ASSUME NEW S, IsFiniteSet(S), Cardinality(S) <= 1, NEW a \in S, NEW b \in S
  PROVE  a = b
<1> SUFFICES ASSUME a # b PROVE FALSE
  OBVIOUS
<1> DEFINE T == {a}
<1>1. IsFiniteSet(T) /\ Cardinality(T) = 1
  BY FS_Singleton
<1>2. T \cup {b} \subseteq S /\ b \notin T
  OBVIOUS
<1> HIDE DEF T
<1>3. IsFiniteSet(T \cup {b}) /\ Cardinality(T \cup {b}) = Cardinality(T) + 1
  BY <1>1, <1>2, FS_AddElement
<1>4. Cardinality(T \cup {b}) <= Cardinality(S)
  BY <1>2, FS_Subset
<1>5. Cardinality(S) \in Nat
  BY FS_CardinalityType
<1> QED
  BY <1>1, <1>3, <1>4, <1>5

LEMMA PhasesDiffer ==
  ASSUME NEW q \in 1..5, NEW r \in 1..5, Phases[q] = Phases[r]
  PROVE  q = r
BY DEF Phases

LEMMA EmitsInOnePhase ==
  ASSUME program \in Programs, Cardinality(EmitPhases(program)) = 1
  PROVE  OneEmitPhase
<1> SUFFICES ASSUME NEW q \in 1..5, NEW r \in 1..5, HasEmit(q), HasEmit(r)
             PROVE  q = r
  BY DEF OneEmitPhase
<1> DEFINE E == EmitPhases(program)
           J == {j \in DOMAIN program : program[j].op = "emit"}
           f == [j \in J |-> program[j].phase]
<1>t. IsTree(program)
  BY ProgramsAreTrees
<1>1. IsFiniteSet(E)
  <2>1. IsFiniteSet(DOMAIN program)
    <3>1. DOMAIN program = 1..Len(program) /\ Len(program) \in Nat
      BY <1>t, LenProperties DEF IsTree
    <3> QED
      BY <3>1, FS_Interval
  <2>2. IsFiniteSet(J)
    <3>1. J \subseteq DOMAIN program
      OBVIOUS
    <3> HIDE DEF J
    <3> QED
      BY <2>1, <3>1, FS_Subset
  <2>3. f \in Surjection(J, E)
    BY DEF Surjection, EmitPhases
  <2> HIDE DEF f, E, J
  <2> QED
    BY <2>2, <2>3, FS_Surjection
<1>2. ASSUME NEW p \in 1..5, HasEmit(p) PROVE Phases[p] \in E
  <2> DEFINE N == PhaseNodes(program, Phases[p])
  <2>1. PICK k \in 1..Len(N) : N[k].op = "emit"
    BY <1>2 DEF HasEmit
  <2>2. N[k] \in Range(program) /\ N[k].phase = Phases[p]
    BY <1>t, PhaseNodesAre
  <2> HIDE DEF N
  <2>3. PICK j \in DOMAIN program : program[j] = N[k]
    BY <2>2 DEF Range
  <2> QED
    BY <2>1, <2>2, <2>3 DEF EmitPhases
<1> HIDE DEF E
<1>3. Phases[q] = Phases[r]
  BY <1>1, <1>2, AtMostOne DEF E
<1> QED
  BY <1>3, PhasesDiffer

\* What a handler adds to a log.
LEMMA LogGrows ==
  ASSUME NEW node, IsNode(node), NEW g, NEW s, IsSeq(s)
  PROVE  /\ node.op # "emit" => /\ NoResult(s) => NoResult(s \o Logged(node, g))
                                /\ \A x : Only1(s, x) => Only1(s \o Logged(node, g), x)
         /\ node.op = "emit" => /\ NoResult(s) => Only1(s \o Logged(node, g), Entry(g))
                                /\ Only1(s, Entry(g)) => Only1(s \o Logged(node, g), Entry(g))
<1> DEFINE t == Logged(node, g)
<1>1. IsSeq(t) /\ (node.op # "emit" => NoResult(t))
  BY LoggedIs DEF NoResult
<1>2. node.op = "emit" => t = <<Entry(g)>>
  BY DEF Logged, Entry
<1>3. node.op = "emit" => \A j \in 1..Len(t) : t[j] = Entry(g)
  <2> DEFINE e == Entry(g)
  <2>0. node.op = "emit" => t = <<e>>
    BY <1>2
  <2> HIDE DEF e, t
  <2>1. \A j \in 1..Len(<<e>>) : <<e>>[j] = e
    OBVIOUS
  <2>2. node.op = "emit" => \A j \in 1..Len(t) : t[j] = e
    BY <2>0, <2>1
  <2> QED
    BY <2>2 DEF e
<1> HIDE DEF t
<1>4. \A i \in 1..Len(s \o t) : \/ i \in 1..Len(s) /\ (s \o t)[i] = s[i]
                                \/ \E j \in 1..Len(t) : (s \o t)[i] = t[j]
  BY <1>1, ConcatParts
<1>5. CASE node.op # "emit"
  BY <1>1, <1>4, <1>5 DEF NoResult, Only1, t
<1>6. CASE node.op = "emit"
  BY <1>3, <1>4, <1>6 DEF NoResult, Only1, t
<1> QED
  BY <1>5, <1>6

\* A step that writes no log and leaves the phase alone.
LEMMA EmitIdle ==
  ASSUME EmitInv, AllLogs' \subseteq AllLogs, UNCHANGED <<program, phase>>,
         ctx'.global = ctx.global, main' \in Ended <=> main \in Ended
  PROVE  EmitInv'
<1>1. \A q : HasEmit(q)' = HasEmit(q)
  BY DEF HasEmit
<1>2. CASE NoneReported
  BY <1>2 DEF EmitInv, NoneReported
<1>3. CASE Reported
  BY <1>1, <1>3 DEF EmitInv, Reported
<1> QED
  BY <1>2, <1>3 DEF EmitInv

LEMMA EmitFinish ==
  ASSUME Frame, OneEmitPhase, EmitInv, NEW w \in Workers, Finish(w), UNCHANGED program
  PROVE  EmitInv'
<1> DEFINE node == task[w]
           e == Entry(ctx.global)
<1>1. /\ worker[w] = "task" /\ IsNode(node) /\ ctx'.global = ctx.global
      /\ seen' = [seen EXCEPT ![w] = {}]
      /\ UNCHANGED <<main, phase, next, tasks, task>>
  <2> HIDE DEF Shared
  <2> QED
    BY FinishIs
<1>2. main \notin Ended
  BY <1>1, PoolIdle DEF Frame, Ended
<1>3. node.op = "emit" => HasEmit(phase)
  <2>1. PICK k \in 1..Len(Batch) : task[w] = Batch[k]
    <3> HIDE DEF Shared
    <3> QED
      BY FinishIs
  <2> QED
    BY <2>1 DEF HasEmit, Batch
<1>4. phase \in 1..5
  BY FrameTypes
<1>5. \A q : HasEmit(q)' = HasEmit(q)
  BY <1>1 DEF HasEmit
<1>6. \A v \in Workers : seen'[v] \subseteq seen[v]
  BY <1>1 DEF Frame, SeenIsContext
<1>7. \A logs \in AllLogs' : logs \in AllLogs \/ logs = ctx'.logs
  BY <1>6 DEF AllLogs
<1>8. CASE ctx' = ctx
  <2>1. AllLogs' \subseteq AllLogs
    BY <1>7, <1>8 DEF AllLogs
  <2> QED
    BY <1>1, <2>1, EmitIdle
<1>9. CASE ctx' # ctx
  <2>1. PICK b, l \in seen[w] \cup {Shared} :
           /\ IsMap(b.phaseBuffer) /\ IsSeq(l.logs)
           /\ IsContext([ctx EXCEPT !.phaseBuffer = b.phaseBuffer, !.logs = l.logs])
           /\ ctx' = Execute(node, [ctx EXCEPT !.phaseBuffer = b.phaseBuffer,
                                               !.logs = l.logs])
    BY <1>9, FinishIs
  <2>2. l.logs \in AllLogs
    BY DEF AllLogs, Shared
  <2> DEFINE c == [ctx EXCEPT !.phaseBuffer = b.phaseBuffer, !.logs = l.logs]
  <2>3. c.logs = l.logs /\ c.global = ctx.global
    <3>1. PICK x, y, z : ctx = [global |-> x, phaseBuffer |-> y, logs |-> z]
      BY DEF Frame, IsContext
    <3> QED
      BY <3>1
  <2>4. IsContext(c) /\ ctx' = Execute(node, c)
    BY <2>1
  <2> HIDE DEF c
  <2> HIDE DEF node, e
  <2>5. ctx'.logs = l.logs \o Logged(node, ctx.global)
    <3>1. Execute(node, c).logs = c.logs \o Logged(node, c.global)
      BY <1>1, <2>4, ExecuteIs
    <3> QED
      BY <2>3, <2>4, <3>1
  <2>6. CASE NoneReported /\ node.op # "emit"
    <3>1. NoResult(ctx'.logs)
      BY <1>1, <2>1, <2>2, <2>5, <2>6, LogGrows DEF NoneReported
    <3> QED
      BY <1>7, <2>6, <3>1 DEF EmitInv, NoneReported
  <2>7. CASE NoneReported /\ node.op = "emit"
    <3>1. Only1(ctx'.logs, e)
      BY <1>1, <2>1, <2>2, <2>5, <2>7, LogGrows DEF NoneReported, e
    <3>2. \A logs \in AllLogs' : Only1(logs, e)
      BY <1>7, <2>7, <3>1 DEF NoneReported, NoResult, Only1
    <3>3. \A q \in 1..5 : q > phase => ~HasEmit(q)
      BY <1>3, <1>4, <2>7 DEF OneEmitPhase, node
    <3>4. Entry(ctx'.global) = e
      BY <1>1 DEF e
    <3> QED
      BY <1>1, <1>5, <3>2, <3>3, <3>4 DEF EmitInv, Reported
  <2>8. CASE Reported
    <3>1. PICK x : /\ \A logs \in AllLogs : Only1(logs, x)
                   /\ HasEmit(phase) => x = e
                   /\ \A q \in 1..5 : q > phase => ~HasEmit(q)
      BY <1>2, <2>8 DEF Reported, e
    <3>2. Only1(ctx'.logs, x)
      <4>1. CASE node.op # "emit"
        BY <1>1, <2>1, <2>2, <2>5, <3>1, <4>1, LogGrows
      <4>2. CASE node.op = "emit"
        <5>1. x = e
          BY <1>3, <3>1, <4>2 DEF node
        <5> QED
          BY <1>1, <2>1, <2>2, <2>5, <3>1, <4>2, <5>1, LogGrows DEF e
      <4> QED
        BY <4>1, <4>2
    <3>3. \A logs \in AllLogs' : Only1(logs, x)
      BY <1>7, <3>1, <3>2
    <3>4. Entry(ctx'.global) = e
      BY <1>1 DEF e
    <3> QED
      BY <1>1, <1>5, <3>1, <3>3, <3>4 DEF EmitInv, Reported
  <2> QED
    BY <2>6, <2>7, <2>8 DEF EmitInv
<1> QED
  BY <1>8, <1>9

LEMMA EmitMerge ==
  ASSUME Frame, EmitInv, Merge, UNCHANGED program
  PROVE  EmitInv'
<1>1. /\ main = "merge" /\ ctx' = MergePhase(ctx) /\ UNCHANGED seen
      /\ \/ main' = "dispatch" /\ phase' = phase + 1
         \/ main' = "stop"
  BY DEF Merge, Pool!NextPhase
<1>2. ctx'.logs = ctx.logs
  BY <1>1, MergePhaseIs DEF Frame
<1>3. AllLogs' = AllLogs
  BY <1>1, <1>2 DEF AllLogs
<1>4. CASE NoneReported
  BY <1>3, <1>4 DEF EmitInv, NoneReported
<1>5. CASE Reported
  <2>1. PICK x : /\ \A logs \in AllLogs : Only1(logs, x)
                 /\ \A q \in 1..5 : q > phase => ~HasEmit(q)
    BY <1>1, <1>5 DEF Reported, Ended
  <2>2. CASE main' = "stop"
    BY <1>3, <2>1, <2>2 DEF EmitInv, Reported, Ended
  <2>3. CASE main' = "dispatch" /\ phase' = phase + 1
    <3>1. \A q : HasEmit(q)' = HasEmit(q)
      BY DEF HasEmit
    <3>2. phase \in 1..5 /\ phase' \in 1..5
      <4>1. phase \in 1..5 /\ Len(Batches(program)) = 5
        BY FrameTypes
      <4>2. phase < Len(Batches(program))
        BY <1>1, <2>3 DEF Merge, Pool!NextPhase
      <4> QED
        BY <2>3, <4>1, <4>2
    <3>3. phase' > phase /\ \A q \in 1..5 : q > phase' => q > phase
      BY <2>3, <3>2
    <3>4. ~HasEmit(phase') /\ \A q \in 1..5 : q > phase' => ~HasEmit(q)
      BY <2>1, <3>2, <3>3
    <3>5. ~HasEmit(phase)'
      BY <3>4 DEF HasEmit
    <3> QED
      BY <1>3, <2>1, <3>1, <3>4, <3>5 DEF EmitInv, Reported
  <2> QED
    BY <1>1, <2>2, <2>3
<1> QED
  BY <1>4, <1>5 DEF EmitInv

LEMMA EmitKept ==
  ASSUME Frame, OneEmitPhase, EmitInv, [Next]_vars
  PROVE  EmitInv'
<1>1. ASSUME Schedule, UNCHANGED program PROVE EmitInv'
  <2>1. UNCHANGED <<ctx, seen>>
    BY <1>1 DEF Schedule
  <2>2. AllLogs' = AllLogs /\ ctx'.global = ctx.global
    BY <2>1 DEF AllLogs
  <2>3. UNCHANGED phase /\ (main' \in Ended <=> main \in Ended)
    <3>1. CASE Pool!Push
      BY <1>1, <3>1, PushIs DEF Ended
    <3>2. ASSUME NEW w \in Workers, Pool!Take(w)
          PROVE  UNCHANGED phase /\ (main' \in Ended <=> main \in Ended)
      BY <1>1, <3>2, TakeIs
    <3>3. CASE Elsewhere
      BY <3>3 DEF Elsewhere
    <3> QED
      BY <1>1, <3>1, <3>2, <3>3, ScheduleIs
  <2> QED
    BY <1>1, <2>2, <2>3, EmitIdle
<1>2. ASSUME NEW w \in Workers, Begin(w), UNCHANGED program PROVE EmitInv'
  <2>1. /\ seen' = [seen EXCEPT ![w] = {Shared}]
        /\ UNCHANGED <<ctx, main, phase>>
    BY <1>2 DEF Begin, poolVars
  <2>2. AllLogs' \subseteq AllLogs
    <3>1. Shared.logs = ctx.logs
      BY DEF Shared
    <3> HIDE DEF Shared
    <3>2. \A v \in Workers : seen'[v] \subseteq seen[v] \cup {Shared}
      BY <2>1 DEF Frame, SeenIsContext
    <3> QED
      BY <2>1, <3>1, <3>2 DEF AllLogs
  <2> QED
    BY <1>2, <2>1, <2>2, EmitIdle
<1>3. ASSUME UNCHANGED <<program, ctx, seen, poolVars>> PROVE EmitInv'
  <2>1. UNCHANGED <<ctx, seen, main, phase>>
    BY <1>3 DEF poolVars
  <2>2. AllLogs' \subseteq AllLogs
    BY <2>1 DEF AllLogs
  <2> QED
    BY <1>3, <2>1, <2>2, EmitIdle
<1>4. ASSUME NEW w \in Workers, Abort(w), UNCHANGED program PROVE EmitInv'
  BY <1>3, <1>4 DEF Abort
<1> QED
  BY <1>1, <1>2, <1>3, <1>4, EmitFinish, EmitMerge DEF Next, vars

LEMMA InitEmit == Init => EmitInv
<1> SUFFICES ASSUME Init PROVE EmitInv
  OBVIOUS
<1>1. ctx = EmptyContext /\ seen = [w \in Workers |-> {}]
  BY DEF Init
<1>2. ctx.logs = <<>>
  BY <1>1 DEF EmptyContext
<1>3. AllLogs = {<<>>}
  BY <1>1, <1>2 DEF AllLogs
<1>4. NoResult(<<>>)
  <2>1. Len(<<>>) = 0
    OBVIOUS
  <2> QED
    BY <2>1 DEF NoResult
<1> QED
  BY <1>3, <1>4 DEF EmitInv, NoneReported

LEMMA EmitInvAgrees ==
  ASSUME Frame, EmitInv
  PROVE  \A i, j \in DOMAIN ctx.logs :
           ctx.logs[i][1] = "result" /\ ctx.logs[j][1] = "result"
             => ctx.logs[i] = ctx.logs[j]
<1>1. DOMAIN ctx.logs = 1..Len(ctx.logs)
  BY LenProperties DEF Frame, IsContext, IsSeq
<1>2. ctx.logs \in AllLogs
  BY DEF AllLogs
<1>3. CASE NoneReported
  BY <1>1, <1>2, <1>3 DEF NoneReported, NoResult
<1>4. CASE Reported
  BY <1>1, <1>2, <1>4 DEF Reported, Only1
<1> QED
  BY <1>3, <1>4 DEF EmitInv
-----------------------------------------------------------------------------
(* The theorems about the execution command.                               *)

\* A process that compiles leaves the executor as it was made.
LEMMA KernelExecutes == KernelSpec => Spec
<1>1. KernelInit => Init
  BY DEF KernelInit
<1>2. [KernelNext]_<<command, vars, compilerVars>> => [Next]_vars
  BY DEF KernelNext, vars
<1> QED
  BY <1>1, <1>2, PTL DEF KernelSpec, Spec

\* The barrier and the shape of the shared state hold in every execution.
LEMMA FrameAlways == Spec => []Frame
<1>1. Init => Frame
  BY InitFrame
<1>2. Frame /\ [Next]_vars => Frame'
  BY FrameKept
<1> QED
  BY <1>1, <1>2, PTL DEF Spec

\* run_execution: whatever the handlers of a phase race for, all emits of a
\* program whose emits are in one phase report the same result.
THEOREM EmitsAlwaysAgree == KernelSpec => []EmitsAgree
<1> DEFINE One == Cardinality(EmitPhases(program)) = 1
           Inv == Frame /\ (One => EmitInv)
<1>1. Init => Inv
  BY InitFrame, InitEmit
<1>2. Inv /\ [Next]_vars => Inv'
  <2> SUFFICES ASSUME Inv, [Next]_vars PROVE Inv'
    OBVIOUS
  <2>1. Frame'
    BY FrameKept
  <2>2. UNCHANGED program
    BY DEF Next, vars
  <2>3. One' => One
    BY <2>2 DEF EmitPhases
  <2>4. One => OneEmitPhase
    BY EmitsInOnePhase DEF Frame
  <2>5. One => EmitInv'
    BY <2>4, EmitKept
  <2> QED
    BY <2>1, <2>3, <2>5
<1>3. Inv => EmitsAgree
  BY EmitInvAgrees DEF EmitsAgree
<1> QED
  BY <1>1, <1>2, <1>3, KernelExecutes, PTL DEF Spec

\* Every step of run_execution is a step of its thread pool, or leaves the
\* pool alone.
LEMMA StepOfPool ==
  ASSUME [Next]_vars
  PROVE  [Pool!Next]_(Pool!vars)
<1>1. ASSUME UNCHANGED <<program, poolVars>> PROVE UNCHANGED Pool!vars
  BY <1>1 DEF poolVars, Pool!vars
<1>2. CASE Schedule
  BY <1>2, Zenon DEF Schedule, Pool!Next, Pool!MainStep
<1>3. CASE Merge
  BY <1>3 DEF Merge, Pool!Next, Pool!MainStep
<1>4. ASSUME NEW w \in Workers, UNCHANGED program, Begin(w) \/ Finish(w) \/ Abort(w)
      PROVE  [Pool!Next]_(Pool!vars)
  <2>1. CASE Begin(w)
    BY <1>1, <1>4, <2>1 DEF Begin
  <2>2. CASE Finish(w)
    BY <2>2, Zenon DEF Finish, Pool!Next
  <2>3. CASE Abort(w)
    BY <1>1, <1>4, <2>3 DEF Abort
  <2> QED
    BY <1>4, <2>1, <2>2, <2>3
<1>5. CASE UNCHANGED vars
  BY <1>1, <1>5 DEF vars
<1> QED
  BY <1>2, <1>3, <1>4, <1>5 DEF Next

\* execute_ir implements the thread pool: whatever its handlers do to the
\* context, the pool under them behaves as the pool alone.
THEOREM ExecutorRunsThePool == KernelSpec => Pool!Spec
<1>1. Init => Pool!Init
  BY DEF Init
<1>2. [Next]_vars => [Pool!Next]_(Pool!vars)
  BY StepOfPool
<1> QED
  BY <1>1, <1>2, KernelExecutes, PTL DEF Spec, Pool!Spec

\* When wait() returns, no node of the phase is queued or running, so the
\* merge of phaseBuffer races with no handler.
THEOREM MergeAfterBarrier == KernelSpec => []Pool!Barrier
<1>1. Frame => Pool!Barrier
  <2> SUFFICES ASSUME Frame, main = "merge"
               PROVE  tasks = <<>> /\ Pool!Busy = {}
    BY DEF Pool!Barrier
  <2>1. tasks = <<>> /\ \A w \in Workers : worker[w] \notin {"task", "count"}
    BY PoolIdle DEF Frame
  <2> QED
    BY <2>1 DEF Pool!Busy
<1> QED
  BY <1>1, KernelExecutes, FrameAlways, PTL
-----------------------------------------------------------------------------
(* A program without races.  The one node of a phase that touches the      *)
(* context is ahead of the main thread, queued, at work, or done; it has   *)
(* run exactly when it is in none of the first three places.               *)

Loud(node) == node.op # "none"
LoudOnce(nds) == \A k, l \in 1..Len(nds) : Loud(nds[k]) /\ Loud(nds[l]) => k = l

AtWork(w) == worker[w] = "task" /\ Loud(task[w])
NobodyAtWork == \A w \in Workers : ~AtWork(w)
NoneQueued == \A i \in 1..Len(tasks) : ~Loud(tasks[i])
NoneAhead == \A k \in next..Len(Batch) : ~Loud(Batch[k])

\* There are not two of them.
OnePlace ==
  /\ ~NoneAhead => NoneQueued /\ NobodyAtWork
  /\ ~NoneQueued => NobodyAtWork
  /\ \A i, j \in 1..Len(tasks) : Loud(tasks[i]) /\ Loud(tasks[j]) => i = j
  /\ \A w, v \in Workers : AtWork(w) /\ AtWork(v) => w = v

Ran == NoneAhead /\ NoneQueued /\ NobodyAtWork

Base == After(program, phase - 1)

Progress ==
  IF main \in Ended THEN ctx = Sequential(program)
  ELSE ctx = IF Ran THEN Executed(Batch, Base) ELSE Base

\* The handler of that node saw what is still there.
SeenSame == \A w \in Workers : AtWork(w) /\ seen[w] # {} => seen[w] = {Shared}

RaceInv == OnePlace /\ Progress /\ SeenSame

LEMMA OneLoudNodePerPhase ==
  ASSUME NEW p \in Programs, RaceFree(p), NEW q \in 1..5
  PROVE  LoudOnce(PhaseNodes(p, Phases[q]))
<1> DEFINE N == PhaseNodes(p, Phases[q])
           S == {node \in Range(p) : node.phase = Phases[q]}
           I == {i \in DOMAIN p : /\ p[i].phase = Phases[q]
                                  /\ p[i].op # "none"}
<1>t. p \in Seq(Range(p)) /\ DOMAIN p = 1..Len(p) /\ Len(p) \in Nat
  <2>1. p \in Seq(Range(p))
    BY ProgramsAreTrees DEF IsTree
  <2> QED
    BY <2>1, LenProperties
<1>1. Cardinality(I) <= 1
  <2>1. q \in DOMAIN Phases
    BY DEF Phases
  <2> QED
    BY <2>1 DEF RaceFree
<1>2. IsFiniteSet(I)
  <2>1. IsFiniteSet(1..Len(p))
    BY <1>t, FS_Interval
  <2>2. I \subseteq 1..Len(p)
    BY <1>t
  <2> HIDE DEF I
  <2> QED
    BY <2>1, <2>2, FS_Subset
<1>3. N = Only(p, S)
  BY DEF PhaseNodes
<1>4. PICK g : Selects(g, N, p, S, Len(p))
  <2> HIDE DEF S, N
  <2> QED
    BY <1>t, <1>3, OnlySelects
<1>5. Len(N) \in Nat
  <2>1. IsTree(p)
    BY ProgramsAreTrees
  <2>2. N \in Seq(Range(p))
    BY <2>1, PhaseNodesAre
  <2> HIDE DEF N
  <2> QED
    BY <2>2
<1>6. ASSUME NEW k \in 1..Len(N), Loud(N[k]) PROVE g[k] \in I
  BY <1>t, <1>4, <1>6 DEF Selects, Loud
<1> HIDE DEF N, I
<1>7. ASSUME NEW k \in 1..Len(N), NEW l \in 1..Len(N), Loud(N[k]), Loud(N[l])
      PROVE  k = l
  <2>1. g[k] \in I /\ g[l] \in I
    BY <1>6, <1>7
  <2>2. g[k] = g[l]
    BY <1>1, <1>2, <2>1, AtMostOne
  <2>3. ~(k < l) /\ ~(l < k)
    <3>1. g[k] \in Int /\ g[l] \in Int
      BY <1>4 DEF Selects
    <3>2. (k < l => g[k] < g[l]) /\ (l < k => g[l] < g[k])
      <4>1. (k < l => k \in 1..(l - 1)) /\ (l < k => l \in 1..(k - 1))
        BY <1>5
      <4> QED
        BY <1>4, <4>1 DEF Selects
    <3> QED
      BY <2>2, <3>1, <3>2
  <2> QED
    BY <1>5, <2>3
<1> QED
  BY <1>7 DEF LoudOnce, N

\* A phase starts where the one before it ended.
LEMMA PhaseStarts ==
  ASSUME NEW nds, AreNodes(nds), NEW c, IsContext(c),
         \A k \in 1..Len(nds) : ~Loud(nds[k])
  PROVE  Executed(nds, c) = c
BY QuietNodes DEF Loud

LEMMA InitRace == Init => RaceInv
<1> SUFFICES ASSUME Init PROVE RaceInv
  OBVIOUS
<1>1. /\ ctx = EmptyContext /\ main = "dispatch" /\ phase = 1 /\ next = 1
      /\ seen = [w \in Workers |-> {}] /\ tasks = <<>>
      /\ worker = [w \in Workers |-> "check"]
  BY DEF Init, Pool!Init
<1>2. Frame
  BY InitFrame
<1>3. IsTree(program) /\ AreNodes(Batch)
  BY <1>2, FrameTypes
<1>4. Base = EmptyContext /\ IsContext(EmptyContext)
  BY <1>1, <1>3, AfterPhases, EmptyIsContext DEF Base
<1>5. NoneQueued /\ NobodyAtWork /\ Len(tasks) = 0
  <2>1. Len(tasks) = 0
    BY <1>1
  <2> QED
    BY <1>1, <2>1 DEF NoneQueued, NobodyAtWork, AtWork
<1>6. OnePlace
  BY <1>5 DEF OnePlace, NobodyAtWork
<1>7. Progress
  <2>1. ASSUME NoneAhead PROVE Executed(Batch, Base) = Base
    BY <1>1, <1>3, <1>4, <2>1, PhaseStarts DEF NoneAhead
  <2> QED
    BY <1>1, <1>4, <2>1 DEF Progress, Ran, Ended
<1>8. SeenSame
  BY <1>5 DEF SeenSame, NobodyAtWork
<1> QED
  BY <1>6, <1>7, <1>8 DEF RaceInv

LEMMA RacePush ==
  ASSUME Frame, LoudOnce(Batch), RaceInv, Pool!Push,
         UNCHANGED <<program, ctx, seen>>
  PROVE  RaceInv'
<1>1. /\ next \in 1..Len(Batch) /\ Len(Batch) \in Nat /\ next' = next + 1
      /\ Len(tasks) \in Nat /\ Len(tasks') = Len(tasks) + 1
      /\ tasks'[Len(tasks) + 1] = Batch[next]
      /\ \A i \in 1..Len(tasks) : tasks'[i] = tasks[i]
      /\ main = "push" /\ main' = "notify"
      /\ UNCHANGED <<phase, worker, task, Batch>>
  BY PushIs
<1>2. OnePlace /\ Progress /\ SeenSame
  BY DEF RaceInv
<1>3. \A w : AtWork(w)' <=> AtWork(w)
  BY <1>1 DEF AtWork
<1>4. NobodyAtWork' <=> NobodyAtWork
  BY <1>3 DEF NobodyAtWork
<1>5. \A i \in 1..Len(tasks') : i \in 1..Len(tasks) \/ i = Len(tasks) + 1
  BY <1>1
<1>6. \A k \in next..Len(Batch) : k = next \/ k \in next'..Len(Batch)
  BY <1>1
<1>7. next \in next..Len(Batch) /\ Len(tasks) + 1 \in 1..Len(tasks')
      /\ \A k \in next'..Len(Batch) : k \in next..Len(Batch) /\ k \in 1..Len(Batch) /\ k # next
      /\ \A i \in 1..Len(tasks) : i \in 1..Len(tasks')
  BY <1>1
<1>8. CASE Loud(Batch[next])
  <2>1. ~NoneAhead
    BY <1>7, <1>8 DEF NoneAhead
  <2>2. NoneQueued /\ NobodyAtWork
    BY <1>2, <2>1 DEF OnePlace
  <2>3. NoneAhead'
    BY <1>1, <1>7, <1>8 DEF NoneAhead, LoudOnce
  <2>4. ~NoneQueued'
    BY <1>1, <1>7, <1>8 DEF NoneQueued
  <2>5. \A i \in 1..Len(tasks') : Loud(tasks'[i]) => i = Len(tasks) + 1
    BY <1>1, <1>5, <2>2 DEF NoneQueued
  <2>6. OnePlace'
    BY <1>4, <2>2, <2>3, <2>5 DEF OnePlace, NobodyAtWork
  <2>7. Progress'
    <3>1. main \notin Ended /\ main' \notin Ended
      BY <1>1 DEF Ended
    <3>2. ~Ran /\ ~Ran'
      BY <2>1, <2>4 DEF Ran
    <3> QED
      BY <1>1, <1>2, <3>1, <3>2 DEF Progress, Base
  <2>8. SeenSame'
    BY <1>4, <2>2 DEF SeenSame, NobodyAtWork
  <2> QED
    BY <2>6, <2>7, <2>8 DEF RaceInv
<1>9. CASE ~Loud(Batch[next])
  <2>1. NoneAhead' <=> NoneAhead
    BY <1>1, <1>6, <1>7, <1>9 DEF NoneAhead
  <2>2. \A i \in 1..Len(tasks') : Loud(tasks'[i]) => i \in 1..Len(tasks) /\ Loud(tasks[i])
    BY <1>1, <1>5, <1>9
  <2>3. NoneQueued' <=> NoneQueued
    BY <1>1, <1>7, <2>2 DEF NoneQueued
  <2>4. OnePlace'
    BY <1>2, <1>3, <1>4, <2>1, <2>2, <2>3 DEF OnePlace
  <2>5. Progress'
    <3>1. main \notin Ended /\ main' \notin Ended
      BY <1>1 DEF Ended
    <3>2. Ran' <=> Ran
      BY <1>4, <2>1, <2>3 DEF Ran
    <3> QED
      BY <1>1, <1>2, <3>1, <3>2 DEF Progress, Base
  <2>6. SeenSame'
    BY <1>2, <1>3 DEF SeenSame, Shared
  <2> QED
    BY <2>4, <2>5, <2>6 DEF RaceInv
<1> QED
  BY <1>8, <1>9

LEMMA RaceTake ==
  ASSUME Frame, RaceInv, NEW w \in Workers, Pool!Take(w),
         UNCHANGED <<program, ctx, seen>>
  PROVE  RaceInv'
<1>1. /\ worker[w] = "check" /\ worker' = [worker EXCEPT ![w] = "task"]
      /\ Len(tasks) \in Nat /\ 1 \in 1..Len(tasks)
      /\ task' = [task EXCEPT ![w] = tasks[1]]
      /\ Len(tasks') = Len(tasks) - 1
      /\ \A i \in 1..Len(tasks') : i + 1 \in 1..Len(tasks) /\ tasks'[i] = tasks[i + 1]
      /\ UNCHANGED <<main, phase, next, Batch>>
  BY TakeIs
<1>2. OnePlace /\ Progress /\ SeenSame
  BY DEF RaceInv
<1>3. worker = [v \in Workers |-> worker[v]] /\ task = [v \in Workers |-> task[v]]
  BY FrameTypes
<1>4. \A v \in Workers : v # w => (AtWork(v)' <=> AtWork(v))
  BY <1>1, <1>3 DEF AtWork
<1>5. ~AtWork(w) /\ (AtWork(w)' <=> Loud(tasks[1]))
  BY <1>1, <1>3 DEF AtWork
<1>6. NoneAhead' <=> NoneAhead
  BY <1>1 DEF NoneAhead
<1>7. seen[w] = {}
  BY <1>1 DEF Frame, SeenIsContext
<1>8. SeenSame'
  BY <1>2, <1>4, <1>7 DEF SeenSame, Shared
<1>9. \A i \in 1..Len(tasks) : i = 1 \/ (i - 1 \in 1..Len(tasks') /\ tasks'[i - 1] = tasks[i])
  <2>1. \A i \in 1..Len(tasks) : i = 1 \/ (i - 1 \in 1..Len(tasks') /\ (i - 1) + 1 = i)
    BY <1>1
  <2> QED
    BY <1>1, <2>1
<1>10. Ran' <=> Ran
  <2>1. (NoneQueued' /\ NobodyAtWork') <=> (NoneQueued /\ NobodyAtWork)
    BY <1>1, <1>4, <1>5, <1>9 DEF NoneQueued, NobodyAtWork
  <2> QED
    BY <1>6, <2>1 DEF Ran
<1>11. Progress'
  BY <1>1, <1>2, <1>10 DEF Progress, Base
<1>12. CASE Loud(tasks[1])
  <2>1. ~NoneQueued
    BY <1>1, <1>12 DEF NoneQueued
  <2>2. NobodyAtWork /\ NoneAhead
    BY <1>2, <2>1 DEF OnePlace
  <2>3. \A v \in Workers : AtWork(v)' => v = w
    BY <1>4, <2>2 DEF NobodyAtWork
  <2>4. \A i \in 1..Len(tasks') : ~Loud(tasks'[i])
    <3>1. ASSUME NEW i \in 1..Len(tasks'), Loud(tasks'[i]) PROVE FALSE
      <4>1. i + 1 \in 1..Len(tasks) /\ Loud(tasks[i + 1]) /\ i + 1 # 1
        BY <1>1, <3>1
      <4> QED
        BY <1>1, <1>2, <1>12, <4>1 DEF OnePlace
    <3> QED
      BY <3>1
  <2>5. NoneQueued'
    BY <2>4 DEF NoneQueued
  <2>6. OnePlace'
    BY <1>6, <2>2, <2>3, <2>4, <2>5 DEF OnePlace
  <2> QED
    BY <1>8, <1>11, <2>6 DEF RaceInv
<1>13. CASE ~Loud(tasks[1])
  <2>1. \A v \in Workers : AtWork(v)' <=> AtWork(v)
    BY <1>4, <1>5, <1>13
  <2>2. NobodyAtWork' <=> NobodyAtWork
    BY <2>1 DEF NobodyAtWork
  <2>3. NoneQueued' <=> NoneQueued
    BY <1>1, <1>9, <1>13 DEF NoneQueued
  <2>4. ASSUME NEW i \in 1..Len(tasks'), NEW j \in 1..Len(tasks'),
               Loud(tasks'[i]), Loud(tasks'[j])
        PROVE  i = j
    <3>1. i + 1 \in 1..Len(tasks) /\ j + 1 \in 1..Len(tasks)
          /\ Loud(tasks[i + 1]) /\ Loud(tasks[j + 1])
      BY <1>1, <2>4
    <3>2. i + 1 = j + 1
      BY <1>2, <3>1 DEF OnePlace
    <3> QED
      BY <3>2
  <2>5. OnePlace'
    BY <1>2, <1>6, <2>1, <2>2, <2>3, <2>4 DEF OnePlace
  <2> QED
    BY <1>8, <1>11, <2>5 DEF RaceInv
<1> QED
  BY <1>12, <1>13

\* A step that neither queues nor takes a task and leaves the context alone.
LEMMA RaceIdle ==
  ASSUME RaceInv, UNCHANGED <<program, ctx, phase, next, tasks, task>>,
         main' \in Ended <=> main \in Ended,
         \A w \in Workers : worker'[w] = "task" <=> worker[w] = "task",
         \A w \in Workers : seen'[w] = seen[w] \/ seen'[w] = {Shared}
  PROVE  RaceInv'
<1>1. \A w \in Workers : AtWork(w)' <=> AtWork(w)
  BY DEF AtWork
<1>2. Batch' = Batch /\ Base' = Base /\ Shared' = Shared
  BY DEF Batch, Base, Shared
<1>3. NoneAhead' = NoneAhead /\ NoneQueued' = NoneQueued
  BY <1>2 DEF NoneAhead, NoneQueued
<1>4. NobodyAtWork' <=> NobodyAtWork
  BY <1>1 DEF NobodyAtWork
<1>5. OnePlace'
  BY <1>1, <1>3, <1>4 DEF RaceInv, OnePlace
<1>6. Progress'
  BY <1>2, <1>3, <1>4 DEF RaceInv, Progress, Ran
<1>7. SeenSame'
  BY <1>1, <1>2 DEF RaceInv, SeenSame
<1> QED
  BY <1>5, <1>6, <1>7 DEF RaceInv

LEMMA RaceFinish ==
  ASSUME Frame, LoudOnce(Batch), RaceInv, NEW w \in Workers, Finish(w),
         UNCHANGED program
  PROVE  RaceInv'
<1> DEFINE S == Shared
<1>0. S.phaseBuffer = ctx.phaseBuffer /\ S.logs = ctx.logs
  BY DEF Shared
<1>s. S = Shared
  OBVIOUS
<1> HIDE DEF S
<1>1. /\ worker[w] = "task" /\ seen[w] # {}
      /\ \E k \in 1..Len(Batch) : task[w] = Batch[k]
      /\ IsNode(task[w])
      /\ \/ task[w].op = "none" /\ ctx' = ctx
         \/ \E b, l \in seen[w] \cup {Shared} :
              ctx' = Execute(task[w], [ctx EXCEPT !.phaseBuffer = b.phaseBuffer,
                                                     !.logs = l.logs])
      /\ worker' = [worker EXCEPT ![w] = "count"]
      /\ seen' = [seen EXCEPT ![w] = {}]
      /\ UNCHANGED <<main, phase, next, tasks, task>>
  <2> HIDE DEF Shared
  <2>1. /\ worker[w] = "task" /\ seen[w] # {}
        /\ \E k \in 1..Len(Batch) : task[w] = Batch[k]
        /\ IsNode(task[w])
        /\ worker' = [worker EXCEPT ![w] = "count"]
        /\ seen' = [seen EXCEPT ![w] = {}]
        /\ UNCHANGED <<main, phase, next, tasks, task>>
    BY FinishIs
  <2>2. \/ task[w].op = "none" /\ ctx' = ctx
        \/ \E b, l \in seen[w] \cup {Shared} :
              ctx' = Execute(task[w], [ctx EXCEPT !.phaseBuffer = b.phaseBuffer,
                                                     !.logs = l.logs])
    BY DEF Finish
  <2> QED
    BY <2>1, <2>2
<1>2. OnePlace /\ Progress /\ SeenSame
  BY DEF RaceInv
<1>3. worker = [v \in Workers |-> worker[v]] /\ seen = [v \in Workers |-> seen[v]]
  BY FrameTypes DEF Frame, SeenIsContext
<1>4. \A v \in Workers : v # w => (AtWork(v)' <=> AtWork(v)) /\ seen'[v] = seen[v]
  BY <1>1, <1>3 DEF AtWork
<1>5. ~AtWork(w)'
  BY <1>1, <1>3 DEF AtWork
<1>6. Batch' = Batch /\ Base' = Base
  BY <1>1 DEF Batch, Base
<1>7. (NoneAhead' <=> NoneAhead) /\ (NoneQueued' <=> NoneQueued)
  BY <1>1, <1>6 DEF NoneAhead, NoneQueued
<1>8. main \notin Ended
  BY <1>1, PoolIdle DEF Frame, Ended
<1>9. OnePlace'
  <2>1. \A v \in Workers : AtWork(v)' => AtWork(v)
    BY <1>4, <1>5
  <2>2. NobodyAtWork => NobodyAtWork'
    BY <2>1 DEF NobodyAtWork
  <2>3. tasks' = tasks
    BY <1>1
  <2>4. \A u, v \in Workers : AtWork(u)' /\ AtWork(v)' => u = v
    BY <1>2, <2>1 DEF OnePlace
  <2>5. \A i, j \in 1..Len(tasks') : Loud(tasks'[i]) /\ Loud(tasks'[j]) => i = j
    BY <1>2, <2>3 DEF OnePlace
  <2>6. /\ ~NoneAhead' => NoneQueued' /\ NobodyAtWork'
        /\ ~NoneQueued' => NobodyAtWork'
    BY <1>2, <1>7, <2>2 DEF OnePlace
  <2> QED
    BY <2>4, <2>5, <2>6 DEF OnePlace
<1>10. CASE ~Loud(task[w])
  <2>1. ctx' = ctx
    BY <1>10 DEF Finish, Loud
  <2>2. \A v \in Workers : AtWork(v)' <=> AtWork(v)
    BY <1>4, <1>5, <1>10 DEF AtWork
  <2>3. Ran' <=> Ran
    BY <1>7, <2>2 DEF Ran, NobodyAtWork
  <2>4. Progress'
    BY <1>1, <1>2, <1>6, <1>8, <2>1, <2>3 DEF Progress
  <2>5. SeenSame'
    <3>1. Shared' = Shared
      BY <2>1 DEF Shared
    <3> HIDE DEF Shared
    <3> QED
      BY <1>2, <1>4, <1>5, <3>1 DEF SeenSame
  <2> QED
    BY <1>9, <2>4, <2>5 DEF RaceInv
<1>11. CASE Loud(task[w])
  <2>1. AtWork(w)
    BY <1>1, <1>11 DEF AtWork
  <2>2. NoneAhead /\ NoneQueued /\ ~Ran
    BY <1>2, <2>1 DEF OnePlace, NobodyAtWork, Ran
  <2>3. ctx = Base
    BY <1>2, <1>8, <2>2 DEF Progress
  <2>4. seen[w] = {S}
    BY <1>1, <1>2, <1>s, <2>1 DEF SeenSame
  <2>5. ctx' = Execute(task[w], ctx)
    <3>1. PICK b, l \in {S} :
              ctx' = Execute(task[w], [ctx EXCEPT !.phaseBuffer = b.phaseBuffer,
                                                     !.logs = l.logs])
      <4> HIDE DEF Shared
      <4> QED
        BY <1>1, <1>11, <1>s, <2>4 DEF Loud
    <3>2. b.phaseBuffer = ctx.phaseBuffer /\ l.logs = ctx.logs
      BY <1>0
    <3> DEFINE c == [ctx EXCEPT !.phaseBuffer = b.phaseBuffer, !.logs = l.logs]
    <3>3. c = ctx
      <4>1. PICK x, y, z : ctx = [global |-> x, phaseBuffer |-> y, logs |-> z]
        BY DEF Frame, IsContext
      <4> QED
        BY <3>2, <4>1
    <3>4. ctx' = Execute(task[w], c)
      BY <3>1
    <3> HIDE DEF c
    <3> QED
      BY <3>3, <3>4
  <2>6. PICK k \in 1..Len(Batch) : task[w] = Batch[k]
    BY <1>1
  <2>7. Executed(Batch, ctx) = Execute(Batch[k], ctx)
    <3>1. \A i \in 1..Len(Batch) : i # k => Batch[i].op = "none"
      BY <1>11, <2>6 DEF LoudOnce, Loud
    <3>2. AreNodes(Batch) /\ IsContext(ctx)
      BY FrameTypes DEF Frame
    <3> QED
      BY <3>1, <3>2, OneLoudNode
  <2>8. ctx' = Executed(Batch', Base')
    BY <1>6, <2>3, <2>5, <2>6, <2>7
  <2>9. NobodyAtWork'
    BY <1>2, <1>4, <1>5, <2>1 DEF OnePlace, NobodyAtWork
  <2>10. Ran'
    BY <1>7, <2>2, <2>9 DEF Ran
  <2>11. Progress'
    BY <1>1, <1>8, <2>8, <2>10 DEF Progress
  <2>12. SeenSame'
    BY <2>9 DEF SeenSame, NobodyAtWork
  <2> QED
    BY <1>9, <2>11, <2>12 DEF RaceInv
<1> QED
  BY <1>10, <1>11

LEMMA RaceMerge ==
  ASSUME Frame, RaceInv, Merge, UNCHANGED program
  PROVE  RaceInv'
<1>1. /\ main = "merge" /\ ctx' = MergePhase(ctx)
      /\ UNCHANGED <<seen, tasks, worker, task>>
      /\ \/ /\ phase < Len(Batches(program)) /\ main' = "dispatch"
            /\ phase' = phase + 1 /\ next' = 1
         \/ /\ ~(phase < Len(Batches(program))) /\ main' = "stop"
            /\ UNCHANGED <<phase, next>>
  BY DEF Merge, Pool!NextPhase, Pool!workerVars
<1>2. /\ phase \in 1..5 /\ Len(Batches(program)) = 5 /\ IsTree(program)
      /\ Len(Batch) \in Nat
  BY FrameTypes
<1>3. tasks = <<>> /\ \A w \in Workers : worker[w] # "task"
  BY <1>1, PoolIdle DEF Frame
<1>4. Len(tasks) = 0
  BY <1>3
<1>5. NoneQueued /\ NobodyAtWork /\ NoneQueued' /\ NobodyAtWork'
  BY <1>1, <1>3, <1>4 DEF NoneQueued, NobodyAtWork, AtWork
<1>6. NoneAhead
  <2>1. next = Len(Batch) + 1
    BY <1>1 DEF Frame, Dispatched
  <2> QED
    BY <1>2, <2>1 DEF NoneAhead
<1>7. ctx = Executed(Batch, Base)
  BY <1>1, <1>5, <1>6 DEF RaceInv, Progress, Ran, Ended
<1>8. ctx' = After(program, phase)
  <2>1. phase \in Nat /\ phase # 0
    BY <1>2
  <2> QED
    BY <1>1, <1>2, <1>7, <2>1, AfterPhases DEF Batch, Base
<1>9. OnePlace'
  BY <1>1, <1>4, <1>5 DEF OnePlace, NobodyAtWork
<1>10. SeenSame'
  BY <1>5 DEF SeenSame, NobodyAtWork
<1>11. Progress'
  <2>1. CASE phase < 5
    <3>1. main' = "dispatch" /\ phase' = phase + 1 /\ next' = 1
      BY <1>1, <1>2, <2>1
    <3>2. Base' = ctx'
      <4>1. phase' - 1 = phase
        BY <1>2, <3>1
      <4> QED
        BY <1>8, <4>1 DEF Base
    <3>3. AreNodes(PhaseNodes(program, Phases[phase']))
      BY <1>2, PhaseNodesAre
    <3>4. IsContext(ctx')
      <4>1. phase \in Nat
        BY <1>2
      <4> QED
        BY <1>2, <1>8, <4>1, AfterPhases
    <3>5. ASSUME NoneAhead' PROVE Executed(Batch', ctx') = ctx'
      <4>1. Batch' = PhaseNodes(program, Phases[phase'])
        BY DEF Batch
      <4>2. \A k \in 1..Len(Batch') : ~Loud(Batch'[k])
        BY <3>1, <3>5 DEF NoneAhead
      <4> QED
        BY <3>3, <3>4, <4>1, <4>2, PhaseStarts
    <3> QED
      BY <3>1, <3>2, <3>5 DEF Progress, Ran, Ended
  <2>2. CASE ~(phase < 5)
    <3>1. phase = 5 /\ main' = "stop"
      BY <1>1, <1>2, <2>2
    <3>2. Len(Phases) = 5
      BY DEF Phases
    <3>3. ctx' = Sequential(program)'
      BY <1>8, <3>1, <3>2 DEF Sequential
    <3> QED
      BY <3>1, <3>3 DEF Progress, Ended
  <2> QED
    BY <2>1, <2>2
<1> QED
  BY <1>9, <1>10, <1>11 DEF RaceInv

LEMMA RaceKept ==
  ASSUME Frame, RaceFree(program), RaceInv, [Next]_vars
  PROVE  RaceInv'
<1>1. LoudOnce(Batch)
  <2>1. phase \in 1..5 /\ program \in Programs
    BY FrameTypes DEF Frame
  <2> QED
    BY <2>1, OneLoudNodePerPhase DEF Batch
<1>2. ASSUME Schedule, UNCHANGED program PROVE RaceInv'
  <2>1. UNCHANGED <<ctx, seen>>
    BY <1>2 DEF Schedule
  <2>2. CASE Pool!Push
    BY <1>1, <1>2, <2>1, <2>2, RacePush
  <2>3. ASSUME NEW w \in Workers, Pool!Take(w) PROVE RaceInv'
    BY <1>2, <2>1, <2>3, RaceTake
  <2>4. CASE Elsewhere
    BY <1>2, <2>1, <2>4, RaceIdle DEF Elsewhere
  <2> QED
    BY <1>2, <2>2, <2>3, <2>4, ScheduleIs
<1>3. ASSUME NEW w \in Workers, Begin(w), UNCHANGED program PROVE RaceInv'
  <2>1. /\ seen' = [seen EXCEPT ![w] = {Shared}]
        /\ UNCHANGED <<ctx, main, phase, next, tasks, worker, task>>
    BY <1>3 DEF Begin, poolVars
  <2>2. \A v \in Workers : seen'[v] = seen[v] \/ seen'[v] = {Shared}
    <3> HIDE DEF Shared
    <3> QED
      BY <2>1 DEF Frame, SeenIsContext
  <2> QED
    BY <1>3, <2>1, <2>2, RaceIdle
<1>4. ASSUME UNCHANGED <<program, ctx, seen, poolVars>> PROVE RaceInv'
  BY <1>4, RaceIdle DEF poolVars
<1>5. ASSUME NEW w \in Workers, Abort(w), UNCHANGED program PROVE RaceInv'
  BY <1>4, <1>5 DEF Abort
<1>6. ASSUME NEW w \in Workers, Finish(w), UNCHANGED program PROVE RaceInv'
  BY <1>1, <1>6, RaceFinish
<1> QED
  BY <1>2, <1>3, <1>4, <1>5, <1>6, RaceMerge DEF Next, vars

LEMMA RaceInvAlways == Spec => [](Frame /\ (RaceFree(program) => RaceInv))
<1> DEFINE Inv == Frame /\ (RaceFree(program) => RaceInv)
<1>1. Init => Inv
  BY InitFrame, InitRace
<1>2. Inv /\ [Next]_vars => Inv'
  <2> SUFFICES ASSUME Inv, [Next]_vars PROVE Inv'
    OBVIOUS
  <2>1. Frame'
    BY FrameKept
  <2>2. UNCHANGED program
    BY DEF Next, vars
  <2>3. RaceFree(program)' => RaceFree(program)
    BY <2>2 DEF RaceFree
  <2>4. RaceFree(program) => RaceInv'
    BY RaceKept
  <2> QED
    BY <2>1, <2>3, <2>4
<1> QED
  BY <1>1, <1>2, PTL DEF Spec

\* run_execution: when no phase has two nodes that touch the context, the
\* pool computes and logs what the nodes executed one by one would.
THEOREM RaceFreeIsSequential == KernelSpec => []RaceFreeResult
<1> DEFINE Inv == Frame /\ (RaceFree(program) => RaceInv)
<1>1. Inv => RaceFreeResult
  BY DEF RaceInv, Progress, RaceFreeResult, Ended
<1>2. Spec => []Inv
  BY RaceInvAlways
<1> QED
  BY <1>1, <1>2, KernelExecutes, PTL
-----------------------------------------------------------------------------
(* The two executors compared, phase by phase and node by node.            *)

LEMMA EmittedIs ==
  ASSUME NEW X, NEW s \in Seq(X)
  PROVE  /\ Emitted(s) = Only(s, {e \in X : e[1] = "result"})
         /\ Emitted(s) \in Seq(X)
<1> DEFINE S == {e \in Range(s) : e[1] = "result"}
           R == {e \in X : e[1] = "result"}
<1>1. \A i \in 1..Len(s) : s[i] \in Range(s) /\ s[i] \in X
  <2>1. DOMAIN s = 1..Len(s)
    BY LenProperties
  <2> QED
    BY <2>1 DEF Range
<1>2. \A i \in 1..Len(s) : s[i] \in S <=> s[i] \in R
  BY <1>1
<1>3. Emitted(s) = Only(s, S)
  BY DEF Emitted
<1> HIDE DEF S, R
<1>4. Only(s, S) = Only(s, R) /\ Only(s, S) \in Seq(X)
  BY <1>2, OnlySame, OnlyType
<1> QED
  BY <1>3, <1>4 DEF R

LEMMA EmittedConcat ==
  ASSUME NEW s, NEW t, IsSeq(s), IsSeq(t)
  PROVE  Emitted(s \o t) = Emitted(s) \o Emitted(t)
<1>1. PICK X : s \in Seq(X) /\ t \in Seq(X)
  BY Common
<1> DEFINE R == {e \in X : e[1] = "result"}
           u == s \o t
<1>2. u \in Seq(X)
  BY <1>1
<1>3. /\ Emitted(s) = Only(s, R) /\ Emitted(t) = Only(t, R)
      /\ Emitted(u) = Only(u, R)
  <2> HIDE DEF u
  <2> QED
    BY <1>1, <1>2, EmittedIs
<1> HIDE DEF R
<1>4. Only(u, R) = Only(s, R) \o Only(t, R)
  BY <1>1, OnlyConcat
<1> QED
  BY <1>3, <1>4

\* Entries that report no result are not emitted.
LEMMA EmittedSkips ==
  ASSUME NEW s, NEW t, IsSeq(s), IsSeq(t), NoResult(t)
  PROVE  Emitted(s \o t) = Emitted(s)
<1>1. PICK X : s \in Seq(X) /\ t \in Seq(X)
  BY Common
<1> DEFINE R == {e \in X : e[1] = "result"}
<1>2. Emitted(t) = Only(t, R) /\ Emitted(s) \in Seq(X)
  BY <1>1, EmittedIs
<1>3. \A i \in 1..Len(t) : t[i] \notin R
  BY DEF NoResult
<1> HIDE DEF R
<1>4. Only(t, R) = <<>>
  BY <1>1, <1>3, OnlyNone
<1>5. Emitted(s) \o <<>> = Emitted(s)
  BY <1>2, ConcatEmptySeq
<1> QED
  BY <1>2, <1>4, <1>5, EmittedConcat

\* Writes to different keys may be swapped.
LEMMA MergedSwap ==
  ASSUME NEW a, NEW r, NEW x, DOMAIN r \cap DOMAIN x = {}
  PROVE  Merged(Merged(a, r), x) = Merged(Merged(a, x), r)
<1> DEFINE ar == Merged(a, r)
           ax == Merged(a, x)
           m == Merged(ar, x)
           n == Merged(ax, r)
<1>1. /\ DOMAIN ar = DOMAIN a \cup DOMAIN r
      /\ \A k \in DOMAIN a \cup DOMAIN r :
           ar[k] = IF k \in DOMAIN r THEN r[k] ELSE a[k]
  BY MergedIsMap
<1>2. /\ DOMAIN ax = DOMAIN a \cup DOMAIN x
      /\ \A k \in DOMAIN a \cup DOMAIN x :
           ax[k] = IF k \in DOMAIN x THEN x[k] ELSE a[k]
  BY MergedIsMap
<1> HIDE DEF ar, ax
<1>3. /\ IsMap(m) /\ DOMAIN m = DOMAIN ar \cup DOMAIN x
      /\ \A k \in DOMAIN ar \cup DOMAIN x :
           m[k] = IF k \in DOMAIN x THEN x[k] ELSE ar[k]
  BY MergedIsMap
<1>4. /\ IsMap(n) /\ DOMAIN n = DOMAIN ax \cup DOMAIN r
      /\ \A k \in DOMAIN ax \cup DOMAIN r :
           n[k] = IF k \in DOMAIN r THEN r[k] ELSE ax[k]
  BY MergedIsMap
<1> HIDE DEF m, n
<1>5. DOMAIN m = DOMAIN n
  BY <1>1, <1>2, <1>3, <1>4
<1>6. ASSUME NEW k \in DOMAIN m PROVE m[k] = n[k]
  BY <1>1, <1>2, <1>3, <1>4, <1>6
<1> QED
  BY <1>3, <1>4, <1>5, <1>6, MapsEqual DEF m, n, ar, ax

\* A buffer entry the nodes do not write can be put there after them.
Shifted(c, d, r) ==
  /\ IsContext(c) /\ IsContext(d)
  /\ d.global = c.global /\ d.logs = c.logs
  /\ d.phaseBuffer = Merged(c.phaseBuffer, r)

LEMMA ExecutedShifts ==
  ASSUME NEW nds, AreNodes(nds), NEW c, NEW d, NEW r, Shifted(c, d, r),
         \A i \in 1..Len(nds) : DOMAIN r \cap DOMAIN Writes(nds[i]) = {}
  PROVE  Shifted(Executed(nds, c), Executed(nds, d), r)
<1> DEFINE n == Len(nds)
<1>0. n \in Nat
  BY DEF AreNodes, IsSeq
<1>1. PICK f : Passes(nds, c, f)
  BY ExecutedPasses DEF Shifted
<1>2. PICK g : Passes(nds, d, g)
  BY ExecutedPasses DEF Shifted
<1> DEFINE S == {i \in 0..n : Shifted(f[i], g[i], r)}
<1>3. 0 \in S
  BY <1>0, <1>1, <1>2 DEF Passes
<1>4. \A i \in 1..n : i - 1 \in S => i \in S
  <2> SUFFICES ASSUME NEW i \in 1..n, i - 1 \in S PROVE i \in S
    OBVIOUS
  <2> DEFINE node == nds[i]
             x == f[i - 1]
             y == g[i - 1]
             w == Writes(node)
  <2>1. IsNode(node) /\ Shifted(x, y, r) /\ DOMAIN r \cap DOMAIN w = {}
    BY DEF AreNodes
  <2>2. f[i] = Execute(node, x) /\ g[i] = Execute(node, y)
    BY <1>1, <1>2 DEF Passes
  <2> HIDE DEF node, x, y
  <2>c. IsContext(x) /\ IsContext(y)
    BY <2>1 DEF Shifted
  <2>3. /\ IsContext(Execute(node, x)) /\ Execute(node, x).global = x.global
        /\ Execute(node, x).phaseBuffer = Merged(x.phaseBuffer, w)
        /\ Execute(node, x).logs = x.logs \o Logged(node, x.global)
    BY <2>1, <2>c, ExecuteIs
  <2>4. /\ IsContext(Execute(node, y)) /\ Execute(node, y).global = y.global
        /\ Execute(node, y).phaseBuffer = Merged(y.phaseBuffer, w)
        /\ Execute(node, y).logs = y.logs \o Logged(node, y.global)
    BY <2>1, <2>c, ExecuteIs
  <2> HIDE DEF w
  <2>5. Merged(Merged(x.phaseBuffer, r), w) = Merged(Merged(x.phaseBuffer, w), r)
    BY <2>1, MergedSwap
  <2>6. Shifted(f[i], g[i], r)
    BY <2>1, <2>2, <2>3, <2>4, <2>5 DEF Shifted
  <2> QED
    BY <1>0, <2>6
<1>5. \A i \in 0..n : i \in S
  <2> HIDE DEF n, S
  <2> QED
    BY ONLY <1>0, <1>3, <1>4, UpTo, Zenon
<1> QED
  BY <1>0, <1>1, <1>2, <1>5 DEF Passes

\* What the two executors agree on after the same nodes.
Agree(b, c) ==
  /\ IsContext(b) /\ IsContext(c)
  /\ b.global = c.global /\ b.phaseBuffer = c.phaseBuffer
  /\ Emitted(b.logs) = Emitted(c.logs)

Known(node) == node.op \notin Geometric /\ ~Throws(node)
AddsFirst(nds) ==
  \A j, i \in 1..Len(nds) :
    j < i /\ nds[i].op = "add"
      => ~(nds[j].op = "assign" /\ "result" \in DOMAIN nds[j].state)

\* A lane computes the sum.
LEMMA LaneSum ==
  ASSUME NEW node, node.op = "add", ~Throws(node)
  PROVE  LaneResult(node) = Sum(node)
<1>1. \A k \in {"a", "b"} : LaneOperand(node, k) = Operand(node, k)
  BY DEF Throws, LaneOperand, Operand
<1> QED
  BY <1>1 DEF LaneResult, Sum

\* The scalar nodes among the first i, and what they may write.
Scalars(o, nds, i) ==
  /\ AreNodes(o)
  /\ \A k \in 1..Len(o) : \E j \in 1..i : o[k] = nds[j] /\ ~Vectorised(nds[j])

LEMMA ScalarAdded ==
  ASSUME NEW nds, NEW i \in Nat, i # 0, NEW o, Scalars(o, nds, i - 1),
         IsNode(nds[i]), ~Vectorised(nds[i])
  PROVE  Scalars(Append(o, nds[i]), nds, i)
<1> DEFINE e == nds[i]
           X == Range(o) \cup {e}
           t == Append(o, e)
<1>1. o \in Seq(X) /\ e \in X
  <2>1. o \in Seq(Range(o))
    BY DEF Scalars, AreNodes, IsSeq
  <2> DEFINE A == Range(o)
  <2>2. A \subseteq X
    OBVIOUS
  <2> HIDE DEF A, X
  <2>3. o \in Seq(X)
    BY <2>1, <2>2, SeqMonotonic DEF A
  <2> QED
    BY <2>3 DEF X
<1> HIDE DEF X
<1>2. /\ t \in Seq(X) /\ Len(t) = Len(o) + 1 /\ Len(o) \in Nat
      /\ t[Len(o) + 1] = e /\ \A k \in 1..Len(o) : t[k] = o[k]
  BY <1>1
<1>3. \A k \in 1..Len(t) : k \in 1..Len(o) \/ k = Len(o) + 1
  BY <1>2
<1>4. i \in 1..i /\ \A j \in 1..(i - 1) : j \in 1..i
  OBVIOUS
<1>5. IsSeq(t)
  BY <1>2, SeqIsSeq
<1> HIDE DEF t, e
<1>6. AreNodes(t)
  BY <1>2, <1>3, <1>5 DEF AreNodes, Scalars, e
<1>7. \A k \in 1..Len(t) : \E j \in 1..i : t[k] = nds[j] /\ ~Vectorised(nds[j])
  BY <1>2, <1>3, <1>4 DEF Scalars, e
<1> QED
  BY <1>6, <1>7 DEF Scalars, t, e

LEMMA ScalarsSkip ==
  ASSUME NEW nds, NEW i \in Nat, i # 0, NEW o, Scalars(o, nds, i - 1)
  PROVE  Scalars(o, nds, i)
<1>1. \A j \in 1..(i - 1) : j \in 1..i
  OBVIOUS
<1> QED
  BY <1>1 DEF Scalars

\* An add put into the buffers first, a scalar node run last.
LEMMA AgreeAdd ==
  ASSUME NEW o, AreNodes(o), NEW d, IsContext(d), NEW c, Agree(Executed(o, d), c),
         NEW node, IsNode(node), node.op = "add", ~Throws(node),
         \A k \in 1..Len(o) : "result" \notin DOMAIN Writes(o[k])
  PROVE  /\ IsContext(Laned(node, d))
         /\ Agree(Executed(o, Laned(node, d)), Execute(node, c))
<1> DEFINE r == [k \in {"result"} |-> Sum(node)]
           l == Laned(node, d)
           b == Executed(o, d)
           x == Execute(node, c)
           t == Logged(node, c.global)
<1>1. Writes(node) = r /\ DOMAIN r = {"result"}
  BY DEF Writes
<1>2. l = [global |-> d.global, phaseBuffer |-> Merged(d.phaseBuffer, r),
           logs |-> d.logs]
  <2>1. l = [d EXCEPT !.phaseBuffer = Merged(@, r)]
    BY LaneSum DEF Laned, Vectorised, BufferKey
  <2> DEFINE m == Merged(d.phaseBuffer, r)
  <2>2. l = [d EXCEPT !.phaseBuffer = m]
    BY <2>1
  <2>3. PICK u, v, z : d = [global |-> u, phaseBuffer |-> v, logs |-> z]
    BY DEF IsContext
  <2>4. d.global = u /\ d.logs = z
    BY <2>3
  <2> HIDE DEF m, l
  <2>5. l = [global |-> d.global, phaseBuffer |-> m, logs |-> d.logs]
    BY <2>2, <2>3, <2>4
  <2> QED
    BY <2>5 DEF m
<1>3. IsMap(Merged(d.phaseBuffer, r))
  BY MergedIsMap
<1> HIDE DEF r, l
<1>4. Shifted(d, l, r)
  BY <1>2, <1>3 DEF Shifted, IsContext
<1>5. \A k \in 1..Len(o) : DOMAIN r \cap DOMAIN Writes(o[k]) = {}
  BY <1>1
<1>6. Shifted(b, Executed(o, l), r)
  BY <1>4, <1>5, ExecutedShifts
<1>7. /\ IsContext(c) /\ b.global = c.global /\ b.phaseBuffer = c.phaseBuffer
      /\ Emitted(b.logs) = Emitted(c.logs)
  BY DEF Agree
<1>8. /\ IsContext(x) /\ x.global = c.global
      /\ x.phaseBuffer = Merged(c.phaseBuffer, Writes(node))
      /\ x.logs = c.logs \o t
  BY <1>7, ExecuteIs
<1>9. Emitted(c.logs \o t) = Emitted(c.logs)
  <2>1. IsSeq(t) /\ NoResult(t)
    BY LoggedIs DEF NoResult
  <2>2. IsSeq(c.logs)
    BY <1>7 DEF IsContext
  <2> HIDE DEF t
  <2> QED
    BY <2>1, <2>2, EmittedSkips
<1> HIDE DEF b, x, t
<1> QED
  BY <1>1, <1>4, <1>6, <1>7, <1>8, <1>9 DEF Agree, Shifted, l, x

LEMMA AgreeScalar ==
  ASSUME NEW b, NEW c, Agree(b, c), NEW node, IsNode(node)
  PROVE  Agree(Execute(node, b), Execute(node, c))
<1> DEFINE t == Logged(node, c.global)
<1>1. IsContext(b) /\ IsContext(c) /\ b.global = c.global
      /\ b.phaseBuffer = c.phaseBuffer /\ Emitted(b.logs) = Emitted(c.logs)
  BY DEF Agree
<1>2. /\ IsContext(Execute(node, c)) /\ Execute(node, c).global = c.global
      /\ Execute(node, c).phaseBuffer = Merged(c.phaseBuffer, Writes(node))
      /\ Execute(node, c).logs = c.logs \o t
  BY <1>1, ExecuteIs
<1>3. /\ IsContext(Execute(node, b)) /\ Execute(node, b).global = b.global
      /\ Execute(node, b).phaseBuffer = Merged(b.phaseBuffer, Writes(node))
      /\ Execute(node, b).logs = b.logs \o Logged(node, b.global)
  BY <1>1, ExecuteIs
<1>4. IsSeq(t)
  BY LoggedIs
<1>t. Logged(node, b.global) = t
  BY <1>1
<1> HIDE DEF t
<1>5. IsSeq(b.logs) /\ IsSeq(c.logs)
  BY <1>1 DEF IsContext
<1>6. Emitted(b.logs \o t) = Emitted(b.logs) \o Emitted(t)
      /\ Emitted(c.logs \o t) = Emitted(c.logs) \o Emitted(t)
  BY <1>4, <1>5, EmittedConcat
<1>7. Emitted(b.logs \o t) = Emitted(c.logs \o t)
  BY <1>1, <1>6
<1> QED
  BY <1>1, <1>2, <1>3, <1>t, <1>7 DEF Agree

LEMMA ScalarsNoResult ==
  ASSUME NEW nds, AddsFirst(nds), NEW i \in 1..Len(nds), Len(nds) \in Nat,
         nds[i].op = "add", NEW o, Scalars(o, nds, i - 1)
  PROVE  \A k \in 1..Len(o) : "result" \notin DOMAIN Writes(o[k])
<1> SUFFICES ASSUME NEW k \in 1..Len(o) PROVE "result" \notin DOMAIN Writes(o[k])
  OBVIOUS
<1>1. PICK j \in 1..(i - 1) : o[k] = nds[j] /\ ~Vectorised(nds[j])
  BY DEF Scalars
<1>2. j \in 1..Len(nds) /\ j < i
  OBVIOUS
<1>3. ~(nds[j].op = "assign" /\ "result" \in DOMAIN nds[j].state)
  BY <1>2 DEF AddsFirst
<1>4. nds[j].op # "add"
  BY <1>1 DEF Vectorised
<1>5. CASE nds[j].op = "assign"
  BY <1>1, <1>3, <1>5 DEF Writes
<1>6. CASE nds[j].op # "assign"
  <2>1. Writes(nds[j]) = EmptyState
    BY <1>4, <1>6 DEF Writes
  <2>2. DOMAIN EmptyState = {}
    BY DEF EmptyState
  <2> QED
    BY <1>1, <2>1, <2>2
<1> QED
  BY <1>5, <1>6

LEMMA NoNodes == AreNodes(<<>>) /\ \A nds, i : Scalars(<<>>, nds, i)
<1>1. Len(<<>>) = 0 /\ <<>> \in Seq({})
  OBVIOUS
<1>2. IsSeq(<<>>)
  BY <1>1, SeqIsSeq
<1> QED
  BY <1>1, <1>2 DEF AreNodes, Scalars

LEMMA PhaseAgrees ==
  ASSUME NEW nds, AreNodes(nds), AddsFirst(nds), \A i \in 1..Len(nds) : Known(nds[i]),
         NEW d, NEW c, Agree(d, c)
  PROVE  Agree(RunScalars(nds, Scatter(nds, d)), Executed(nds, c))
<1> DEFINE n == Len(nds)
           X == Range(nds)
           NV == {node \in X : ~Vectorised(node)}
<1>0. n \in Nat /\ nds \in Seq(X) /\ \A i \in 1..n : nds[i] \in X
  <2>1. nds \in Seq(X)
    BY DEF AreNodes, IsSeq
  <2> HIDE DEF X
  <2> QED
    BY <2>1
<1>1. PICK f : Passes(nds, c, f)
  BY ExecutedPasses DEF Agree
<1>2. PICK g : ScatterUpTo(nds, d, g, n) /\ Scatter(nds, d) = g[n]
  BY <1>0, ScatterRun
<1>3. PICK o : OnlyUpTo(o, nds, NV, X)
  <2> HIDE DEF X, NV
  <2> QED
    BY <1>0, OnlyRun
<1>f. f[0] = c /\ \A i \in 1..n : f[i] = Execute(nds[i], f[i - 1])
  BY <1>1 DEF Passes
<1>g. g[0] = d /\ \A i \in 1..n : g[i] = Laned(nds[i], g[i - 1])
  BY <1>2 DEF ScatterUpTo
<1>o. /\ o[0] = <<>> /\ Only(nds, NV) = o[n]
      /\ \A i \in 1..n :
           o[i] = IF Vectorised(nds[i]) THEN o[i - 1] ELSE Append(o[i - 1], nds[i])
      /\ \A i \in 0..n : o[i] \in Seq(X)
  <2>1. \A i \in 1..n : o[i] = Taken(nds, NV, o, i)
    BY <1>3 DEF OnlyUpTo
  <2>2. \A i \in 1..n : nds[i] \in NV <=> ~Vectorised(nds[i])
    BY <1>0
  <2> HIDE DEF NV, X, n
  <2>3. \A i \in 1..n :
           o[i] = IF Vectorised(nds[i]) THEN o[i - 1] ELSE Append(o[i - 1], nds[i])
    BY <2>1, <2>2 DEF Taken
  <2> QED
    BY <1>3, <2>3 DEF OnlyUpTo, n
<1>r. RunScalars(nds, Scatter(nds, d)) = Executed(o[n], g[n])
  BY <1>2, <1>o DEF RunScalars
<1> DEFINE S == {i \in 0..n : /\ Scalars(o[i], nds, i) /\ IsContext(g[i])
                              /\ Agree(Executed(o[i], g[i]), f[i])}
<1>4. 0 \in S
  <2>1. Scalars(<<>>, nds, 0) /\ AreNodes(<<>>) /\ Len(<<>>) = 0
    BY NoNodes
  <2>2. IsContext(d)
    BY DEF Agree
  <2> DEFINE z == <<>>
  <2> HIDE DEF z
  <2>3. Executed(z, d) = d
    <3>1. AreNodes(z) /\ \A i \in 1..Len(z) : z[i].op = "none"
      BY <2>1 DEF z
    <3> QED
      BY <2>2, <3>1, QuietNodes
  <2> QED
    BY <1>0, <1>f, <1>g, <1>o, <2>1, <2>2, <2>3 DEF z
<1>5. \A i \in 1..n : i - 1 \in S => i \in S
  <2> SUFFICES ASSUME NEW i \in 1..n, i - 1 \in S PROVE i \in S
    OBVIOUS
  <2> DEFINE node == nds[i]
             q == o[i - 1]
             e == g[i - 1]
             x == f[i - 1]
  <2>1. /\ IsNode(node) /\ Known(node) /\ node \in X
        /\ Scalars(q, nds, i - 1) /\ IsContext(e) /\ Agree(Executed(q, e), x)
        /\ f[i] = Execute(node, x) /\ g[i] = Laned(node, e)
        /\ i \in Nat /\ i # 0 /\ i \in 0..n /\ i - 1 \in 0..n
    BY <1>0, <1>f, <1>g DEF AreNodes
  <2>2. CASE Vectorised(node)
    <3>1. node.op = "add" /\ ~Throws(node) /\ o[i] = q
      BY <1>o, <2>1, <2>2 DEF Known, Vectorised
    <3>2. \A k \in 1..Len(q) : "result" \notin DOMAIN Writes(q[k])
      BY <1>0, <2>1, <3>1, ScalarsNoResult
    <3>3. AreNodes(q) /\ Scalars(q, nds, i)
      BY <2>1, ScalarsSkip DEF Scalars
    <3> HIDE DEF node, q, e, x
    <3>4. IsContext(Laned(node, e)) /\ Agree(Executed(q, Laned(node, e)), Execute(node, x))
      BY <2>1, <3>1, <3>2, <3>3, AgreeAdd
    <3> QED
      BY <2>1, <3>1, <3>3, <3>4
  <2>3. CASE ~Vectorised(node)
    <3>1. o[i] = Append(q, node) /\ g[i] = e
      BY <1>o, <2>1, <2>3 DEF Laned
    <3>2. Scalars(o[i], nds, i)
      BY <2>1, <2>3, <3>1, ScalarAdded
    <3>3. q \in Seq(X)
      BY <1>o, <2>1
    <3> HIDE DEF node, q, e, x, X
    <3>4. Executed(Append(q, node), e) = Execute(node, Executed(q, e))
      BY <2>1, <3>3, ExecutedAppend
    <3>5. Agree(Execute(node, Executed(q, e)), Execute(node, x))
      BY <2>1, AgreeScalar
    <3> QED
      BY <2>1, <3>1, <3>2, <3>4, <3>5
  <2> QED
    BY <2>2, <2>3
<1>6. n \in S
  <2> HIDE DEF n, S
  <2>1. \A i \in 0..n : i \in S
    BY ONLY <1>0, <1>4, <1>5, UpTo, Zenon
  <2> QED
    BY <1>0, <2>1
<1> QED
  BY <1>1, <1>6, <1>r DEF Passes

\* The nodes of a phase keep the order they have in the tree.
LEMMA PhaseComparable ==
  ASSUME NEW p, IsTree(p), Comparable(p), AddsComeFirst(p), NEW ph
  PROVE  /\ AddsFirst(PhaseNodes(p, ph))
         /\ \A i \in 1..Len(PhaseNodes(p, ph)) : Known(PhaseNodes(p, ph)[i])
<1> DEFINE N == PhaseNodes(p, ph)
           S == {node \in Range(p) : node.phase = ph}
<1>t. p \in Seq(Range(p)) /\ DOMAIN p = 1..Len(p) /\ Len(p) \in Nat
  <2>1. p \in Seq(Range(p))
    BY DEF IsTree
  <2> QED
    BY <2>1, LenProperties
<1>1. PICK g : Selects(g, N, p, S, Len(p))
  <2>1. N = Only(p, S)
    BY DEF PhaseNodes
  <2> HIDE DEF S, N
  <2> QED
    BY <1>t, <2>1, OnlySelects
<1>2. \A i \in 1..Len(N) : N[i].phase = ph
  BY PhaseNodesAre
<1>3. \A k \in 1..Len(N) : /\ g[k] \in DOMAIN p /\ N[k] = p[g[k]]
                           /\ \A l \in 1..(k - 1) : g[l] < g[k]
  BY <1>t, <1>1 DEF Selects
<1>4. \A k \in 1..Len(N) : Known(N[k])
  BY <1>3 DEF Comparable, Known
<1>5. Len(N) \in Nat
  <2>1. AreNodes(N)
    BY PhaseNodesAre
  <2> HIDE DEF N
  <2> QED
    BY <2>1 DEF AreNodes, IsSeq
<1> HIDE DEF N
<1>6. ASSUME NEW j \in 1..Len(N), NEW i \in 1..Len(N), j < i, N[i].op = "add",
             N[j].op = "assign" /\ "result" \in DOMAIN N[j].state
      PROVE  FALSE
  <2>1. j \in 1..(i - 1)
    BY <1>5, <1>6
  <2>2. g[j] < g[i] /\ N[j] = p[g[j]] /\ N[i] = p[g[i]]
        /\ g[j] \in DOMAIN p /\ g[i] \in DOMAIN p
    BY <1>3, <2>1
  <2>3. p[g[i]].phase # p[g[j]].phase
    BY <1>6, <2>2 DEF AddsComeFirst
  <2> QED
    BY <1>2, <2>2, <2>3
<1>7. AddsFirst(N)
  BY <1>6 DEF AddsFirst
<1> QED
  BY <1>4, <1>7 DEF N

LEMMA AgreeMerged ==
  ASSUME NEW b, NEW c, Agree(b, c)
  PROVE  Agree(MergePhase(b), MergePhase(c))
<1>1. IsContext(b) /\ IsContext(c) /\ b.global = c.global
      /\ b.phaseBuffer = c.phaseBuffer /\ Emitted(b.logs) = Emitted(c.logs)
  BY DEF Agree
<1>2. /\ IsContext(MergePhase(b))
      /\ MergePhase(b).global = Merged(b.global, b.phaseBuffer)
      /\ MergePhase(b).phaseBuffer = EmptyState
      /\ MergePhase(b).logs = b.logs
  BY <1>1, MergePhaseIs
<1>3. /\ IsContext(MergePhase(c))
      /\ MergePhase(c).global = Merged(c.global, c.phaseBuffer)
      /\ MergePhase(c).phaseBuffer = EmptyState
      /\ MergePhase(c).logs = c.logs
  BY <1>1, MergePhaseIs
<1> QED
  BY <1>1, <1>2, <1>3 DEF Agree

\* execute_ir_batched computes and emits what the nodes one by one do.
LEMMA BatchedIsSequential ==
  ASSUME NEW p, IsTree(p), Comparable(p), AddsComeFirst(p)
  PROVE  Agree(Batched(p), Sequential(p))
<1> DEFINE n == Len(Phases)
<1>0. n \in Nat
  BY DEF Phases
<1>1. PICK f : AfterUpTo(p, f, n) /\ After(p, n) = f[n]
  <2> HIDE DEF n
  <2> QED
    BY <1>0, AfterRun
<1>2. PICK g : BatchedAfterUpTo(p, g, n) /\ BatchedAfter(p, n) = g[n]
  <2> HIDE DEF n
  <2> QED
    BY <1>0, BatchedAfterRun
<1> DEFINE S == {i \in 0..n : Agree(g[i], f[i])}
<1>3. 0 \in S
  <2>1. f[0] = EmptyContext /\ g[0] = EmptyContext
    BY <1>1, <1>2 DEF AfterUpTo, BatchedAfterUpTo
  <2>2. Agree(EmptyContext, EmptyContext)
    BY EmptyIsContext DEF Agree
  <2> QED
    BY <1>0, <2>1, <2>2
<1>4. \A i \in 1..n : i - 1 \in S => i \in S
  <2> SUFFICES ASSUME NEW i \in 1..n, i - 1 \in S PROVE i \in S
    OBVIOUS
  <2> DEFINE N == PhaseNodes(p, Phases[i])
             x == f[i - 1]
             y == g[i - 1]
             b == RunScalars(N, Scatter(N, y))
             e == Executed(N, x)
  <2>1. f[i] = MergePhase(e) /\ g[i] = MergePhase(b)
    BY <1>1, <1>2 DEF AfterUpTo, BatchedAfterUpTo, BatchedPhase
  <2>2. AreNodes(N) /\ AddsFirst(N) /\ \A k \in 1..Len(N) : Known(N[k])
    BY PhaseNodesAre, PhaseComparable
  <2>3. Agree(y, x)
    OBVIOUS
  <2> HIDE DEF N, x, y
  <2>4. Agree(b, e)
    BY <2>2, <2>3, PhaseAgrees
  <2> HIDE DEF b, e
  <2>5. Agree(g[i], f[i])
    BY <2>1, <2>4, AgreeMerged
  <2> QED
    BY <1>0, <2>5
<1>5. \A i \in 0..n : i \in S
  <2> HIDE DEF n, S
  <2> QED
    BY ONLY <1>0, <1>3, <1>4, UpTo, Zenon
<1>6. Agree(g[n], f[n])
  <2> HIDE DEF n
  <2> QED
    BY <1>0, <1>5
<1> QED
  BY <1>1, <1>2, <1>6 DEF Batched, Sequential

\* execute_ir_batched and execute_ir: batching cannot be observed on a tree
\* whose adds come before what assigns "result" in their phase.
THEOREM CommandsAlwaysAgree == KernelSpec => []CommandsAgree
<1> DEFINE Inv == Frame /\ (RaceFree(program) => RaceInv)
<1>1. Inv => CommandsAgree
  <2> SUFFICES ASSUME Inv, main = "done", Comparable(program), AddsComeFirst(program)
               PROVE  /\ Batched(program).global =
                           (IF RaceFree(program) THEN ctx ELSE Sequential(program)).global
                      /\ Emitted(Batched(program).logs) =
                           Emitted((IF RaceFree(program) THEN ctx
                                    ELSE Sequential(program)).logs)
    BY DEF CommandsAgree
  <2>1. Agree(Batched(program), Sequential(program))
    <3>1. IsTree(program)
      BY ProgramsAreTrees DEF Frame
    <3> QED
      BY <3>1, BatchedIsSequential
  <2>2. RaceFree(program) => ctx = Sequential(program)
    BY DEF RaceInv, Progress, Ended
  <2> QED
    BY <2>1, <2>2 DEF Agree
<1>2. Spec => []Inv
  BY RaceInvAlways
<1> QED
  BY <1>1, <1>2, KernelExecutes, PTL
-----------------------------------------------------------------------------
(* The compiler: what its nodes compute and what the program says, each as *)
(* the run of its steps.                                                   *)

BufferUpTo(ns, f, m) ==
  f[0] = mem.i64 /\ \A i \in 1..m : f[i] = Compiler!Execute(f[i - 1], ns[i])

LEMMA BufferRun ==
  ASSUME NEW ns, Len(ns) \in Nat
  PROVE  \E f : BufferUpTo(ns, f, Len(ns)) /\ Compiler!InOrder(ns) = f[Len(ns)]
<1> DEFINE n == Len(ns)
           S == {m \in 0..n : \E f : BufferUpTo(ns, f, m)}
<1>0. n \in Nat
  OBVIOUS
<1> HIDE DEF n
<1>1. 0 \in S
  <2> DEFINE f == [i \in {0} |-> mem.i64]
  <2>1. BufferUpTo(ns, f, 0)
    BY DEF BufferUpTo
  <2> HIDE DEF f
  <2> QED
    BY <1>0, <2>1
<1>2. ASSUME NEW m \in 1..n, m - 1 \in S PROVE m \in S
  <2>1. PICK f : BufferUpTo(ns, f, m - 1)
    BY <1>2
  <2>m. m \in Nat
    BY <1>0
  <2>2. PICK g : Continues(g, f, m, Compiler!Execute(f[m - 1], ns[m]))
    BY ONLY <2>m, Continued, Zenon
  <2>3. /\ 0 \in 0..(m - 1) /\ m - 1 \in 0..(m - 1)
        /\ \A i \in 1..m : i = m \/ i \in 1..(m - 1)
        /\ \A i \in 1..(m - 1) : i \in 0..(m - 1) /\ i - 1 \in 0..(m - 1)
    BY <1>0
  <2>4. \A i \in 1..m : g[i] = Compiler!Execute(g[i - 1], ns[i])
    BY <2>1, <2>2, <2>3 DEF BufferUpTo, Continues
  <2>5. BufferUpTo(ns, g, m)
    BY <2>1, <2>2, <2>3, <2>4 DEF BufferUpTo, Continues
  <2>6. m \in 0..n
    BY <1>0
  <2> QED
    BY <2>5, <2>6
<1>3. PICK f : BufferUpTo(ns, f, n)
  <2> HIDE DEF S
  <2>1. n \in S
    BY <1>0, <1>1, <1>2, UpTo
  <2> QED
    BY <2>1 DEF S
<1> DEFINE Is(h) == h = [i \in 0..n |-> IF i = 0 THEN mem.i64 ELSE Compiler!Execute(h[i - 1], ns[i])]
           g == [i \in 0..n |-> f[i]]
           k == [i \in 0..n |-> IF i = 0 THEN mem.i64 ELSE Compiler!Execute(g[i - 1], ns[i])]
           run == CHOOSE h : Is(h)
<1>4. Is(g)
  <2>1. ASSUME NEW i \in 0..n PROVE g[i] = k[i]
    <3>1. CASE i = 0
      BY <1>3, <3>1 DEF BufferUpTo
    <3>2. CASE i # 0
      <4>1. i \in 1..n /\ i - 1 \in 0..n
        BY <1>0, <3>2
      <4> QED
        BY <1>3, <3>2, <4>1 DEF BufferUpTo
    <3> QED
      BY <3>1, <3>2
  <2> QED
    BY <2>1
<1>5. Is(run)
  BY <1>4
<1>6. Compiler!InOrder(ns) = run[n]
  BY DEF Compiler!InOrder, n
<1>7. BufferUpTo(ns, run, n)
  <2>1. \A i \in 0..n : run[i] = IF i = 0 THEN mem.i64 ELSE Compiler!Execute(run[i - 1], ns[i])
    <3> DEFINE r == [i \in 0..n |-> IF i = 0 THEN mem.i64 ELSE Compiler!Execute(run[i - 1], ns[i])]
    <3>1. \A i \in 0..n : r[i] = IF i = 0 THEN mem.i64 ELSE Compiler!Execute(run[i - 1], ns[i])
      OBVIOUS
    <3>2. run = r
      BY <1>5
    <3> HIDE DEF r, run
    <3> QED
      BY <3>1, <3>2
  <2>2. 0 \in 0..n /\ \A i \in 1..n : i \in 0..n /\ i # 0
    BY <1>0
  <2> HIDE DEF run
  <2> QED
    BY <2>1, <2>2 DEF BufferUpTo
<1> QED
  BY <1>6, <1>7 DEF n

LEMMA BufferIs ==
  ASSUME NEW ns, Len(ns) \in Nat, NEW f,
         BufferUpTo(ns, f, Len(ns))
  PROVE  Compiler!InOrder(ns) = f[Len(ns)]
<1>0. Len(ns) \in Nat
  OBVIOUS
<1>1. PICK g : BufferUpTo(ns, g, Len(ns)) /\ Compiler!InOrder(ns) = g[Len(ns)]
  BY BufferRun
<1>2. \A i \in 0..Len(ns) : g[i] = f[i]
  <2>1. g[0] = f[0]
        /\ \A i \in 1..Len(ns) : g[i - 1] = f[i - 1] => g[i] = f[i]
    BY <1>1 DEF BufferUpTo
  <2> QED
    BY <1>0, <2>1, RunUnique
<1> QED
  BY <1>0, <1>1, <1>2

MeaningUpTo(f, m) ==
  f[0] = [name \in {} |-> 0] /\ \A i \in 1..m : f[i] = Compiler!Defined(i, f[i - 1])

LEMMA MeaningRun ==
  ASSUME Len(source) \in Nat
  PROVE  \E f : MeaningUpTo(f, Len(source)) /\ Compiler!Meaning = f[Len(source)]
<1> DEFINE n == Len(source)
           S == {m \in 0..n : \E f : MeaningUpTo(f, m)}
<1>0. n \in Nat
  OBVIOUS
<1> HIDE DEF n
<1>1. 0 \in S
  <2> DEFINE f == [i \in {0} |-> [name \in {} |-> 0]]
  <2>1. MeaningUpTo(f, 0)
    BY DEF MeaningUpTo
  <2> HIDE DEF f
  <2> QED
    BY <1>0, <2>1
<1>2. ASSUME NEW m \in 1..n, m - 1 \in S PROVE m \in S
  <2>1. PICK f : MeaningUpTo(f, m - 1)
    BY <1>2
  <2>m. m \in Nat
    BY <1>0
  <2>2. PICK g : Continues(g, f, m, Compiler!Defined(m, f[m - 1]))
    BY ONLY <2>m, Continued, Zenon
  <2>3. /\ 0 \in 0..(m - 1) /\ m - 1 \in 0..(m - 1)
        /\ \A i \in 1..m : i = m \/ i \in 1..(m - 1)
        /\ \A i \in 1..(m - 1) : i \in 0..(m - 1) /\ i - 1 \in 0..(m - 1)
    BY <1>0
  <2>4. \A i \in 1..m : g[i] = Compiler!Defined(i, g[i - 1])
    BY <2>1, <2>2, <2>3 DEF MeaningUpTo, Continues
  <2>5. MeaningUpTo(g, m)
    BY <2>1, <2>2, <2>3, <2>4 DEF MeaningUpTo, Continues
  <2>6. m \in 0..n
    BY <1>0
  <2> QED
    BY <2>5, <2>6
<1>3. PICK f : MeaningUpTo(f, n)
  <2> HIDE DEF S
  <2>1. n \in S
    BY <1>0, <1>1, <1>2, UpTo
  <2> QED
    BY <2>1 DEF S
<1> DEFINE Is(h) == h = [i \in 0..n |-> IF i = 0 THEN [name \in {} |-> 0] ELSE Compiler!Defined(i, h[i - 1])]
           g == [i \in 0..n |-> f[i]]
           k == [i \in 0..n |-> IF i = 0 THEN [name \in {} |-> 0] ELSE Compiler!Defined(i, g[i - 1])]
           run == CHOOSE h : Is(h)
<1>4. Is(g)
  <2>1. ASSUME NEW i \in 0..n PROVE g[i] = k[i]
    <3>1. CASE i = 0
      BY <1>3, <3>1 DEF MeaningUpTo
    <3>2. CASE i # 0
      <4>1. i \in 1..n /\ i - 1 \in 0..n
        BY <1>0, <3>2
      <4> QED
        BY <1>3, <3>2, <4>1 DEF MeaningUpTo
    <3> QED
      BY <3>1, <3>2
  <2> QED
    BY <2>1
<1>5. Is(run)
  BY <1>4
<1>6. Compiler!Meaning = run[n]
  BY DEF Compiler!Meaning, n
<1>7. MeaningUpTo(run, n)
  <2>1. \A i \in 0..n : run[i] = IF i = 0 THEN [name \in {} |-> 0] ELSE Compiler!Defined(i, run[i - 1])
    <3> DEFINE r == [i \in 0..n |-> IF i = 0 THEN [name \in {} |-> 0] ELSE Compiler!Defined(i, run[i - 1])]
    <3>1. \A i \in 0..n : r[i] = IF i = 0 THEN [name \in {} |-> 0] ELSE Compiler!Defined(i, run[i - 1])
      OBVIOUS
    <3>2. run = r
      BY <1>5
    <3> HIDE DEF r, run
    <3> QED
      BY <3>1, <3>2
  <2>2. 0 \in 0..n /\ \A i \in 1..n : i \in 0..n /\ i # 0
    BY <1>0
  <2> HIDE DEF run
  <2> QED
    BY <2>1, <2>2 DEF MeaningUpTo
<1> QED
  BY <1>6, <1>7 DEF n

LEMMA MeaningIs ==
  ASSUME Len(source) \in Nat, NEW f,
         MeaningUpTo(f, Len(source))
  PROVE  Compiler!Meaning = f[Len(source)]
<1>0. Len(source) \in Nat
  OBVIOUS
<1>1. PICK g : MeaningUpTo(g, Len(source)) /\ Compiler!Meaning = g[Len(source)]
  BY MeaningRun
<1>2. \A i \in 0..Len(source) : g[i] = f[i]
  <2>1. g[0] = f[0]
        /\ \A i \in 1..Len(source) : g[i - 1] = f[i - 1] => g[i] = f[i]
    BY <1>1 DEF MeaningUpTo
  <2> QED
    BY <1>0, <2>1, RunUnique
<1> QED
  BY <1>0, <1>1, <1>2
-----------------------------------------------------------------------------
(* The buffer and the symbol table.                                        *)

Known64(m) == Cardinality(DOMAIN m.symbols)

\* The names are numbered from 0, and the buffer has a slot for each.
MemOK(m) ==
  /\ m = [i64 |-> m.i64, symbols |-> m.symbols]
  /\ m.i64 \in Seq(Int)
  /\ IsMap(m.symbols) /\ IsFiniteSet(DOMAIN m.symbols)
  /\ \A x \in DOMAIN m.symbols : m.symbols[x] \in 0..(Known64(m) - 1)
  /\ \A x, y \in DOMAIN m.symbols : m.symbols[x] = m.symbols[y] => x = y
  /\ Known64(m) <= Len(m.i64)

\* Slots keep their value, names their slot.
Grows(m, n) ==
  /\ Len(m.i64) <= Len(n.i64)
  /\ \A i \in 1..Len(m.i64) : n.i64[i] = m.i64[i]
  /\ \A x \in DOMAIN m.symbols : x \in DOMAIN n.symbols /\ n.symbols[x] = m.symbols[x]

Slots(m) == 0..(Len(m.i64) - 1)

LEMMA GrowsMore ==
  ASSUME NEW l, NEW m, NEW n, MemOK(l), MemOK(m), MemOK(n), Grows(l, m), Grows(m, n)
  PROVE  Grows(l, n)
<1>1. Len(l.i64) \in Nat /\ Len(m.i64) \in Nat /\ Len(n.i64) \in Nat
  BY DEF MemOK
<1>2. Len(l.i64) <= Len(n.i64) /\ \A i \in 1..Len(l.i64) : i \in 1..Len(m.i64)
  BY <1>1 DEF Grows
<1> QED
  BY <1>2 DEF Grows

LEMMA GrowsSlots ==
  ASSUME NEW m, NEW n, MemOK(m), MemOK(n), Grows(m, n)
  PROVE  Slots(m) \subseteq Slots(n)
<1>1. Len(m.i64) \in Nat /\ Len(n.i64) \in Nat /\ Len(m.i64) <= Len(n.i64)
  BY DEF MemOK, Grows
<1> QED
  BY <1>1 DEF Slots

LEMMA GrowsStill ==
  ASSUME NEW m, MemOK(m)
  PROVE  Grows(m, m)
BY DEF MemOK, Grows

LEMMA SymbolSlots ==
  ASSUME NEW m, MemOK(m), NEW x \in DOMAIN m.symbols
  PROVE  m.symbols[x] \in Slots(m)
<1>1. Known64(m) \in Nat /\ Len(m.i64) \in Nat
  BY FS_CardinalityType DEF MemOK, Known64
<1> QED
  BY <1>1 DEF MemOK, Slots

LEMMA LiteralIs ==
  ASSUME NEW m, MemOK(m), NEW v \in Int
  PROVE  LET r == Compiler!Literal(v, m)
         IN /\ MemOK(r.mem) /\ Grows(m, r.mem) /\ r.mem.symbols = m.symbols
            /\ r.slot = Len(m.i64) /\ r.slot \in Slots(r.mem)
            /\ r.mem.i64[r.slot + 1] = v
<1> DEFINE r == Compiler!Literal(v, m)
           s == m.i64
           t == Append(s, v)
<1>1. r.slot = Len(s) /\ r.mem = [i64 |-> t, symbols |-> m.symbols]
  <2>1. r = [slot |-> Len(s), mem |-> [m EXCEPT !.i64 = t]]
    BY DEF Compiler!Literal
  <2>2. PICK x, y : m = [i64 |-> x, symbols |-> y]
    BY DEF MemOK
  <2> HIDE DEF r, t, s
  <2>3. m.symbols = y /\ [m EXCEPT !.i64 = t] = [i64 |-> t, symbols |-> y]
    BY <2>2
  <2> QED
    BY <2>1, <2>3
<1>2. s \in Seq(Int)
  BY DEF MemOK
<1> HIDE DEF r, s
<1>3. /\ t \in Seq(Int) /\ Len(t) = Len(s) + 1 /\ Len(s) \in Nat
      /\ t[Len(s) + 1] = v /\ \A i \in 1..Len(s) : t[i] = s[i]
  BY <1>2
<1> HIDE DEF t
<1>4. r.mem.i64 = t /\ r.mem.symbols = m.symbols /\ Known64(r.mem) = Known64(m)
  BY <1>1 DEF Known64
<1>5. MemOK(r.mem)
  <2>1. Known64(m) <= Len(t)
    <3>1. Known64(m) \in Nat /\ Known64(m) <= Len(s)
      BY FS_CardinalityType DEF MemOK, Known64, s
    <3> QED
      BY <1>3, <3>1
  <2>2. r.mem = [i64 |-> r.mem.i64, symbols |-> r.mem.symbols]
    BY <1>1, <1>4
  <2> QED
    BY <1>3, <1>4, <2>1, <2>2 DEF MemOK
<1>6. Grows(m, r.mem)
  BY <1>3, <1>4 DEF Grows, s
<1>7. r.slot \in Slots(r.mem) /\ r.mem.i64[r.slot + 1] = v
  BY <1>1, <1>3, <1>4 DEF Slots
<1> QED
  BY <1>1, <1>4, <1>5, <1>6, <1>7 DEF r, s

LEMMA CompilerCounts ==
  ASSUME NEW S
  PROVE  Compiler!Cardinality(S) = Cardinality(S)
BY Zenon DEF Cardinality, Compiler!Cardinality

LEMMA ResolveIs ==
  ASSUME NEW m, MemOK(m), NEW name
  PROVE  LET r == Compiler!Resolve(name, m)
         IN /\ MemOK(r.mem) /\ Grows(m, r.mem)
            /\ DOMAIN r.mem.symbols = DOMAIN m.symbols \cup {name}
            /\ r.slot = r.mem.symbols[name] /\ r.slot \in Slots(r.mem)
<1> DEFINE r == Compiler!Resolve(name, m)
<1>1. CASE name \in DOMAIN m.symbols
  <2>1. r.mem = m /\ r.slot = m.symbols[name]
    BY <1>1 DEF Compiler!Resolve
  <2> HIDE DEF r
  <2>2. DOMAIN r.mem.symbols = DOMAIN m.symbols \cup {name}
    BY <1>1, <2>1
  <2> QED
    BY <1>1, <2>1, <2>2, GrowsStill, SymbolSlots DEF r
<1>2. CASE name \notin DOMAIN m.symbols
  <2> DEFINE K == DOMAIN m.symbols
             id == Compiler!Cardinality(K)
             s == m.i64
             z == [i \in 1..(id + 1 - Len(s)) |-> 0]
             t == IF Len(s) > id THEN s ELSE s \o z
             y == [x \in K \cup {name} |-> IF x = name THEN id ELSE m.symbols[x]]
  <2>1. r.slot = id /\ r.mem = [i64 |-> t, symbols |-> y]
    <3>1. r = [slot |-> id, mem |-> [i64 |-> t, symbols |-> y]]
      BY <1>2 DEF Compiler!Resolve
    <3> HIDE DEF r, t, y, id
    <3> QED
      BY <3>1
  <2>i. id = Cardinality(K)
    BY CompilerCounts
  <2>2. s \in Seq(Int) /\ IsFiniteSet(K) /\ id \in Nat /\ id <= Len(s)
    BY <2>i, FS_CardinalityType DEF MemOK, Known64
  <2>3. DOMAIN y = K \cup {name} /\ IsMap(y)
        /\ y[name] = id /\ \A x \in K : y[x] = m.symbols[x]
    BY <1>2 DEF IsMap
  <2>4. IsFiniteSet(DOMAIN y) /\ Cardinality(DOMAIN y) = id + 1
    <3>1. IsFiniteSet(K \cup {name}) /\ Cardinality(K \cup {name}) = Cardinality(K) + 1
      <4> HIDE DEF K
      <4> QED
        BY <1>2, <2>2, FS_AddElement DEF K
    <3> HIDE DEF y, K
    <3> QED
      BY <2>i, <2>3, <3>1
  <2> HIDE DEF r, s, y, id
  <2>5. (z \in Seq(Int) /\ Len(z) = id + 1 - Len(s)) \/ Len(s) > id
    <3>1. CASE Len(s) <= id
      <4>1. Len(s) = id
        BY <2>2, <3>1
      <4>2. id + 1 - Len(s) = 1
        BY <2>2, <4>1
      <4>3. z = [i \in 1..1 |-> 0]
        BY <4>2
      <4>4. [i \in 1..1 |-> 0] \in Seq(Int) /\ Len([i \in 1..1 |-> 0]) = 1
        OBVIOUS
      <4> QED
        BY <4>2, <4>3, <4>4
    <3> QED
      BY <2>2, <3>1
  <2> HIDE DEF z
  <2>6. /\ t \in Seq(Int) /\ Len(t) \in Nat /\ Len(t) >= id + 1 /\ Len(t) >= Len(s)
        /\ \A i \in 1..Len(s) : t[i] = s[i]
    <3>1. CASE Len(s) > id
      <4>1. t = s
        BY <3>1
      <4> QED
        BY <2>2, <3>1, <4>1
    <3>2. CASE ~(Len(s) > id)
      <4>1. t = s \o z /\ z \in Seq(Int) /\ Len(z) = id + 1 - Len(s)
        BY <2>5, <3>2
      <4>2. /\ s \o z \in Seq(Int) /\ Len(s \o z) = Len(s) + Len(z)
            /\ \A i \in 1..Len(s) : (s \o z)[i] = s[i]
        BY <2>2, <4>1
      <4> HIDE DEF t
      <4> QED
        BY <2>2, <4>1, <4>2
    <3> QED
      BY <3>1, <3>2
  <2> HIDE DEF t, K
  <2>7. r.mem.i64 = t /\ r.mem.symbols = y /\ Known64(r.mem) = id + 1
        /\ Known64(m) = id /\ m.i64 = s /\ DOMAIN m.symbols = K
    BY <2>1, <2>4, <2>i DEF Known64, K, s
  <2>8. \A x \in K : m.symbols[x] \in 0..(id - 1)
    BY <2>7 DEF MemOK
  <2>9. MemOK(r.mem)
    <3>1. r.mem = [i64 |-> r.mem.i64, symbols |-> r.mem.symbols]
      BY <2>1, <2>7
    <3>2. \A x \in K \cup {name} : y[x] \in 0..id
      BY <2>2, <2>3, <2>8
    <3>3. \A x, v \in K \cup {name} : y[x] = y[v] => x = v
      <4>1. \A x \in K : y[x] # id
        BY <2>2, <2>3, <2>8
      <4>2. \A x, v \in K : y[x] = y[v] => x = v
        BY <2>3, <2>7 DEF MemOK
      <4> QED
        BY <2>3, <4>1, <4>2
    <3>4. (id + 1) - 1 = id /\ id + 1 <= Len(t)
      BY <2>2, <2>6
    <3> QED
      BY <2>3, <2>4, <2>6, <2>7, <3>1, <3>2, <3>3, <3>4 DEF MemOK
  <2>10. Grows(m, r.mem)
    BY <2>2, <2>3, <2>6, <2>7 DEF Grows
  <2>11. r.slot \in Slots(r.mem) /\ r.slot = y[name]
    BY <2>1, <2>2, <2>3, <2>6, <2>7 DEF Slots
  <2> QED
    BY <2>3, <2>7, <2>9, <2>10, <2>11 DEF r
<1> QED
  BY <1>1, <1>2

IsOperand(o) == \/ o[1] = "int" /\ o[2] \in Int
                \/ o[1] = "name"
                \/ o = Compiler!Absent
IsSum(node) == node.op \in {"add", "mul"} /\ IsOperand(node.a) /\ IsOperand(node.b)

\* Where an operand o is found after it was placed in m; n is m afterwards.
Placed(o, slot, m, n) ==
  /\ MemOK(n) /\ Grows(m, n)
  /\ slot \in Slots(n) \/ slot = 0
  /\ o[1] = "int" => /\ slot \in Slots(n) /\ slot \notin Slots(m)
                     /\ n.i64[slot + 1] = o[2]
                     /\ n.symbols = m.symbols
  /\ o[1] = "name" => /\ slot = n.symbols[o]
                      /\ DOMAIN n.symbols = DOMAIN m.symbols \cup {o}

LEMMA PlaceIs ==
  ASSUME NEW m, MemOK(m), NEW op \in {"add", "mul"}, NEW o, IsOperand(o)
  PROVE  Placed(o, Compiler!Place(op, o, m).slot, m, Compiler!Place(op, o, m).mem)
<1> DEFINE r == Compiler!Place(op, o, m)
<1>0. Compiler!Absent[1] = "absent"
  BY DEF Compiler!Absent
<1>1. CASE o[1] = "int"
  <2>1. r = Compiler!Literal(o[2], m) /\ o[2] \in Int
    BY <1>0, <1>1 DEF Compiler!Place, IsOperand
  <2> HIDE DEF r
  <2>2. /\ MemOK(r.mem) /\ Grows(m, r.mem) /\ r.mem.symbols = m.symbols
        /\ r.slot = Len(m.i64) /\ r.slot \in Slots(r.mem)
        /\ r.mem.i64[r.slot + 1] = o[2]
    BY <2>1, LiteralIs, Zenon
  <2>3. r.slot \notin Slots(m)
    BY <2>2 DEF Slots, MemOK
  <2> QED
    BY <1>1, <2>2, <2>3 DEF Placed, r
<1>2. CASE o[1] = "name"
  <2>1. r = Compiler!Resolve(o, m)
    BY <1>0, <1>2 DEF Compiler!Place
  <2> HIDE DEF r
  <2>2. /\ MemOK(r.mem) /\ Grows(m, r.mem)
        /\ DOMAIN r.mem.symbols = DOMAIN m.symbols \cup {o}
        /\ r.slot = r.mem.symbols[o] /\ r.slot \in Slots(r.mem)
    BY <2>1, ResolveIs, Zenon
  <2> QED
    BY <1>2, <2>2 DEF Placed, r
<1>3. CASE o = Compiler!Absent /\ op = "add"
  <2> DEFINE zero == <<"name", "zero">>
  <2>1. r = Compiler!Resolve(zero, m)
    BY <1>0, <1>3 DEF Compiler!Place
  <2> HIDE DEF r, zero
  <2>2. MemOK(r.mem) /\ Grows(m, r.mem) /\ r.slot \in Slots(r.mem)
    BY <2>1, ResolveIs, Zenon
  <2> QED
    BY <1>0, <1>3, <2>2 DEF Placed, r
<1>4. CASE o = Compiler!Absent /\ op = "mul"
  <2>1. r = [slot |-> 0, mem |-> m]
    BY <1>0, <1>4 DEF Compiler!Place, Compiler!NoSlot
  <2> HIDE DEF r
  <2>2. r.slot = 0 /\ r.mem = m
    BY <2>1
  <2> QED
    BY <1>0, <1>4, <2>2, GrowsStill DEF Placed, r
<1> QED
  BY <1>1, <1>2, <1>3, <1>4 DEF IsOperand

OutKey(node) ==
  IF node.out = Compiler!Absent THEN <<node.op, Len(nodes)>> ELSE node.out

\* What a lowered node reads for an operand.
ReadsOf(o, slot, m, n) ==
  /\ slot \in Slots(n)
  /\ o[1] = "int" => slot \notin Slots(m) /\ n.i64[slot + 1] = o[2]
  /\ o[1] = "name" => slot = n.symbols[o] /\ o \in DOMAIN n.symbols

IsIRNode(n) == n = [phase |-> n.phase, opcode |-> n.opcode, a |-> n.a,
                  b |-> n.b, c |-> n.c, out |-> n.out]

Given(o, m) == o[1] = "int" \/ (o[1] = "name" /\ o \in DOMAIN m.symbols)

LEMMA LowerIs ==
  ASSUME NEW node, IsSum(node), NEW m, MemOK(m)
  PROVE  LET l == Compiler!Lower(node, m)
             n == l.mem
         IN /\ MemOK(n) /\ Grows(m, n)
            /\ l.ir.opcode = node.op /\ IsIRNode(l.ir)
            /\ ReadsOf(node.a, l.ir.a, m, n) /\ ReadsOf(node.b, l.ir.b, m, n)
            /\ l.ir.out \in Slots(n)
            /\ OutKey(node) \in DOMAIN n.symbols
            /\ l.ir.out = n.symbols[OutKey(node)]
            /\ Given(node.a, m) /\ Given(node.b, m)
                 => DOMAIN n.symbols = DOMAIN m.symbols \cup {OutKey(node)}
<1> DEFINE a == Compiler!Place(node.op, node.a, m)
           b == Compiler!Place(node.op, node.b, a.mem)
           out == Compiler!Resolve(OutKey(node), b.mem)
           l == Compiler!Lower(node, m)
           n == l.mem
<1>1. /\ l.ir.opcode = node.op /\ l.ir.a = a.slot /\ l.ir.b = b.slot
      /\ l.ir.out = out.slot /\ n = out.mem /\ IsIRNode(l.ir)
  <2>1. l = [ir |-> [phase |-> node.phase, opcode |-> node.op, a |-> a.slot,
                     b |-> b.slot, c |-> Compiler!NoSlot, out |-> out.slot],
             mem |-> out.mem]
    BY DEF Compiler!Lower, OutKey
  <2> HIDE DEF a, b, out, l
  <2> DEFINE e == [phase |-> node.phase, opcode |-> node.op, a |-> a.slot,
                   b |-> b.slot, c |-> Compiler!NoSlot, out |-> out.slot]
  <2>2. IsIRNode(e)
    BY DEF IsIRNode
  <2>3. l.ir = e /\ l.mem = out.mem
    BY <2>1
  <2>4. e.opcode = node.op /\ e.a = a.slot /\ e.b = b.slot /\ e.out = out.slot
    OBVIOUS
  <2> HIDE DEF e
  <2> QED
    BY <2>2, <2>3, <2>4
<1>2. node.op \in {"add", "mul"} /\ IsOperand(node.a) /\ IsOperand(node.b)
  BY DEF IsSum
<1>3. Placed(node.a, a.slot, m, a.mem)
  BY <1>2, PlaceIs
<1> HIDE DEF a
<1>4. MemOK(a.mem)
  BY <1>3 DEF Placed
<1>5. Placed(node.b, b.slot, a.mem, b.mem)
  BY <1>2, <1>4, PlaceIs
<1> HIDE DEF b
<1>6. MemOK(b.mem)
  BY <1>5 DEF Placed
<1>7. /\ MemOK(out.mem) /\ Grows(b.mem, out.mem)
      /\ DOMAIN out.mem.symbols = DOMAIN b.mem.symbols \cup {OutKey(node)}
      /\ out.slot = out.mem.symbols[OutKey(node)] /\ out.slot \in Slots(out.mem)
  BY <1>6, ResolveIs, Zenon
<1> HIDE DEF out, l
<1>8. Grows(m, a.mem) /\ Grows(a.mem, b.mem)
  BY <1>3, <1>5 DEF Placed
<1>9. Grows(a.mem, n) /\ Grows(m, n) /\ Grows(b.mem, n)
  BY <1>1, <1>4, <1>6, <1>7, <1>8, GrowsMore
<1>10. /\ Slots(m) \subseteq Slots(a.mem) /\ Slots(a.mem) \subseteq Slots(n)
       /\ Slots(b.mem) \subseteq Slots(n)
  BY <1>1, <1>4, <1>6, <1>7, <1>8, <1>9, GrowsSlots
<1>11. 0 \in Slots(n)
  BY <1>1, <1>7 DEF Slots, MemOK
<1>12. ASSUME NEW p, MemOK(p), Grows(p, n), NEW s \in Slots(p)
       PROVE  n.i64[s + 1] = p.i64[s + 1]
  <2>1. s + 1 \in 1..Len(p.i64)
    BY <1>12 DEF MemOK, Slots
  <2> QED
    BY <1>12, <2>1 DEF Grows
<1>13. ReadsOf(node.a, a.slot, m, n)
  <2>1. a.slot \in Slots(n)
    BY <1>3, <1>10, <1>11 DEF Placed
  <2>2. ASSUME node.a[1] = "int"
        PROVE  a.slot \notin Slots(m) /\ n.i64[a.slot + 1] = node.a[2]
    <3>1. a.slot \in Slots(a.mem) /\ a.slot \notin Slots(m) /\ a.mem.i64[a.slot + 1] = node.a[2]
      BY <1>3, <2>2 DEF Placed
    <3> QED
      BY <1>4, <1>9, <1>12, <3>1
  <2>3. ASSUME node.a[1] = "name"
        PROVE  a.slot = n.symbols[node.a] /\ node.a \in DOMAIN n.symbols
    BY <1>3, <1>9, <2>3 DEF Placed, Grows
  <2> QED
    BY <2>1, <2>2, <2>3 DEF ReadsOf
<1>14. ReadsOf(node.b, b.slot, m, n)
  <2>1. b.slot \in Slots(n)
    BY <1>5, <1>10, <1>11 DEF Placed
  <2>2. ASSUME node.b[1] = "int"
        PROVE  b.slot \notin Slots(m) /\ n.i64[b.slot + 1] = node.b[2]
    <3>1. b.slot \in Slots(b.mem) /\ b.slot \notin Slots(a.mem) /\ b.mem.i64[b.slot + 1] = node.b[2]
      BY <1>5, <2>2 DEF Placed
    <3> QED
      BY <1>6, <1>9, <1>10, <1>12, <3>1
  <2>3. ASSUME node.b[1] = "name"
        PROVE  b.slot = n.symbols[node.b] /\ node.b \in DOMAIN n.symbols
    BY <1>5, <1>9, <2>3 DEF Placed, Grows
  <2> QED
    BY <2>1, <2>2, <2>3 DEF ReadsOf
<1>15. ASSUME Given(node.a, m), Given(node.b, m)
       PROVE  DOMAIN n.symbols = DOMAIN m.symbols \cup {OutKey(node)}
  <2>1. DOMAIN a.mem.symbols = DOMAIN m.symbols
    BY <1>3, <1>15 DEF Placed, Given
  <2>2. DOMAIN b.mem.symbols = DOMAIN m.symbols
    BY <1>5, <1>15, <2>1 DEF Placed, Given
  <2> QED
    BY <1>1, <1>7, <2>2
<1> QED
  BY <1>1, <1>7, <1>9, <1>13, <1>14, <1>15 DEF l
-----------------------------------------------------------------------------
(* What holds while a program is lowered and planned.                      *)

LEMMA KernelCompiles == KernelSpec => Compiler!Spec
<1>1. KernelInit => Compiler!Init
  BY DEF KernelInit
<1>2. [KernelNext]_<<command, vars, compilerVars>> => [Compiler!Next]_(Compiler!vars)
  BY DEF KernelNext, compilerVars, Compiler!vars
<1> QED
  BY <1>1, <1>2, PTL DEF KernelSpec, Compiler!Spec

LEMMA SourcesAre ==
  ASSUME NEW p \in Sources
  PROVE  /\ p \in Seq(Range(p)) /\ Len(p) \in Nat /\ DOMAIN p = 1..Len(p)
         /\ \A i \in 1..Len(p) : IsSum(p[i])
<1>1. /\ p \in Seq(Compiler!Range(p))
      /\ \A node \in Compiler!Range(p) :
           /\ node.op \in {"add", "mul"}
           /\ IsOperand(node.a) /\ IsOperand(node.b)
  BY SourcesAssumption DEF Compiler!SourceAssumption, IsOperand
<1>2. Compiler!Range(p) = Range(p)
  BY DEF Range, Compiler!Range
<1>3. Len(p) \in Nat /\ DOMAIN p = 1..Len(p)
  BY <1>1, LenProperties
<1> QED
  BY <1>1, <1>2, <1>3 DEF Range, IsSum

OutName(j) == Compiler!OutName(j)

\* A literal's slot holds it, and no earlier node writes it.
Finds(o, slot, j, m, ns) ==
  /\ o[1] = "int" => /\ m.i64[slot + 1] = o[2]
                     /\ \A k \in 1..(j - 1) : ns[k].out # slot
  /\ o[1] = "name" => o \in DOMAIN m.symbols /\ slot = m.symbols[o]

Inside(j) ==
  /\ IsIRNode(nodes[j])
  /\ nodes[j].opcode = source[j].op
  /\ nodes[j].opcode \in {"add", "mul"}
  /\ nodes[j].a \in Slots(mem) /\ nodes[j].b \in Slots(mem)
  /\ nodes[j].out \in Slots(mem)

Named ==
  /\ DOMAIN mem.symbols = {OutName(j) : j \in 1..Len(nodes)}
  /\ \A j \in 1..Len(nodes) :
       /\ nodes[j].out = mem.symbols[OutName(j)]
       /\ Finds(source[j].a, nodes[j].a, j, mem, nodes)
       /\ Finds(source[j].b, nodes[j].b, j, mem, nodes)

Lowered ==
  /\ source \in Sources /\ MemOK(mem)
  /\ IsSeq(nodes) /\ IsSeq(lowered) /\ at \in Nat
  /\ pc = "lower" => Len(nodes) = at /\ at <= Len(source) /\ lowered = <<>>
  /\ pc # "lower" => Len(nodes) = Len(source) /\ at <= Len(nodes)
  /\ \A j \in 1..Len(nodes) : Inside(j)
  /\ Compiler!DefinedBeforeUse => Named

LEMMA AppendIs ==
  ASSUME NEW s, IsSeq(s), NEW e
  PROVE  /\ IsSeq(Append(s, e)) /\ Len(s) \in Nat
         /\ Len(Append(s, e)) = Len(s) + 1 /\ Append(s, e)[Len(s) + 1] = e
         /\ \A i \in 1..Len(s) : Append(s, e)[i] = s[i]
<1> DEFINE X == Range(s) \cup {e}
           t == Append(s, e)
           A == Range(s)
<1>1. s \in Seq(A) /\ A \subseteq X
  BY DEF IsSeq
<1> HIDE DEF A, X
<1>2. s \in Seq(X)
  BY <1>1, SeqMonotonic
<1>3. e \in X
  BY DEF X
<1>4. /\ t \in Seq(X) /\ Len(t) = Len(s) + 1 /\ Len(s) \in Nat
      /\ t[Len(s) + 1] = e /\ \A i \in 1..Len(s) : t[i] = s[i]
  BY <1>2, <1>3
<1> QED
  BY <1>4, SeqIsSeq

LEMMA InitLowered == Compiler!Init => Lowered
<1> SUFFICES ASSUME Compiler!Init PROVE Lowered
  OBVIOUS
<1>1. /\ source \in Sources /\ mem = [i64 |-> <<>>, symbols |-> [x \in {} |-> 0]]
      /\ nodes = <<>> /\ at = 0 /\ lowered = <<>> /\ pc = "lower"
  BY DEF Compiler!Init
<1>2. <<>> \in Seq({}) /\ <<>> \in Seq(Int) /\ Len(<<>>) = 0
  OBVIOUS
<1>3. IsSeq(<<>>)
  BY <1>2, SeqIsSeq
<1>4. MemOK(mem)
  <2>1. /\ mem.i64 = <<>> /\ DOMAIN mem.symbols = {} /\ IsMap(mem.symbols)
        /\ mem = [i64 |-> mem.i64, symbols |-> mem.symbols]
    BY <1>1 DEF IsMap
  <2>2. IsFiniteSet({}) /\ Cardinality({}) = 0
    BY FS_EmptySet
  <2> QED
    BY <1>2, <2>1, <2>2 DEF MemOK, Known64
<1>5. Named
  <2>1. DOMAIN mem.symbols = {}
    BY <1>1
  <2>2. Len(nodes) = 0
    BY <1>1
  <2> QED
    BY <2>1, <2>2 DEF Named
<1>6. Len(source) \in Nat
  BY <1>1, SourcesAre
<1> QED
  BY <1>1, <1>2, <1>3, <1>4, <1>5, <1>6 DEF Lowered

LEMMA LowerNodeKept ==
  ASSUME Lowered, Compiler!LowerNode
  PROVE  Lowered'
<1> DEFINE node == source[at + 1]
           l == Compiler!Lower(node, mem)
           i == at + 1
<1>1. /\ pc = "lower" /\ at < Len(source) /\ mem' = l.mem
      /\ nodes' = Append(nodes, l.ir) /\ at' = i
      /\ UNCHANGED <<source, lowered, pc>>
  BY DEF Compiler!LowerNode
<1>2. /\ source \in Sources /\ MemOK(mem) /\ IsSeq(nodes) /\ IsSeq(lowered)
      /\ Len(nodes) = at /\ at \in Nat /\ lowered = <<>>
      /\ \A j \in 1..at : Inside(j)
  BY <1>1 DEF Lowered
<1>3. /\ Len(source) \in Nat /\ DOMAIN source = 1..Len(source)
      /\ \A j \in 1..Len(source) : IsSum(source[j])
  BY <1>2, SourcesAre
<1>4. i \in 1..Len(source) /\ IsSum(node)
  BY <1>1, <1>2, <1>3
<1>5. /\ MemOK(l.mem) /\ Grows(mem, l.mem) /\ l.ir.opcode = node.op /\ IsIRNode(l.ir)
      /\ ReadsOf(node.a, l.ir.a, mem, l.mem) /\ ReadsOf(node.b, l.ir.b, mem, l.mem)
      /\ l.ir.out \in Slots(l.mem)
      /\ OutKey(node) \in DOMAIN l.mem.symbols
      /\ l.ir.out = l.mem.symbols[OutKey(node)]
      /\ Given(node.a, mem) /\ Given(node.b, mem)
           => DOMAIN l.mem.symbols = DOMAIN mem.symbols \cup {OutKey(node)}
  <2> HIDE DEF node
  <2> QED
    BY <1>2, <1>4, LowerIs, Zenon
<1> DEFINE e == l.ir
<1>6. /\ IsSeq(nodes') /\ Len(nodes') = i /\ nodes'[i] = e
      /\ \A j \in 1..at : nodes'[j] = nodes[j]
  <2> HIDE DEF e
  <2> QED
    BY <1>1, <1>2, AppendIs DEF e
<1>7. OutKey(node) = OutName(i)
  BY <1>2 DEF OutKey, OutName, Compiler!OutName
<1>8. node.op \in {"add", "mul"} /\ IsOperand(node.a) /\ IsOperand(node.b)
  BY <1>4 DEF IsSum
<1>s. Slots(mem) \subseteq Slots(mem')
  BY <1>1, <1>2, <1>5, GrowsSlots
<1>o. \A j : OutName(j)' = OutName(j)
  BY <1>1 DEF OutName, Compiler!OutName
<1>n. source'[i] = node
  BY <1>1
<1> HIDE DEF node, l
<1>m. mem' = l.mem /\ MemOK(mem') /\ Grows(mem, mem')
  BY <1>1, <1>5
<1>9. ASSUME NEW j \in 1..i PROVE Inside(j)'
  <2>1. CASE j = i
    <3>1. e.opcode = node.op /\ IsIRNode(e) /\ e.a \in Slots(mem') /\ e.b \in Slots(mem') /\ e.out \in Slots(mem')
      BY <1>1, <1>5 DEF ReadsOf
    <3> QED
      BY <1>6, <1>8, <1>n, <2>1, <3>1 DEF Inside
  <2>2. CASE j # i
    <3>1. j \in 1..at
      BY <1>2, <2>2
    <3> QED
      BY <1>1, <1>2, <1>6, <1>s, <3>1 DEF Inside
  <2> QED
    BY <2>1, <2>2
<1>10. ASSUME Compiler!DefinedBeforeUse' PROVE Named'
  <2>0. Compiler!DefinedBeforeUse
    BY <1>1, <1>10 DEF Compiler!DefinedBeforeUse, Compiler!OutName
  <2>1. /\ DOMAIN mem.symbols = {OutName(j) : j \in 1..at}
        /\ \A j \in 1..at : /\ nodes[j].out = mem.symbols[OutName(j)]
                            /\ Finds(source[j].a, nodes[j].a, j, mem, nodes)
                            /\ Finds(source[j].b, nodes[j].b, j, mem, nodes)
    BY <1>2, <2>0 DEF Lowered, Named
  <2>2. Given(node.a, mem) /\ Given(node.b, mem)
    <3>1. ASSUME NEW o \in {node.a, node.b} PROVE Given(o, mem)
      <4>1. o # Compiler!Absent /\ (o[1] = "name" => \E j \in 1..(i - 1) : OutName(j) = o)
        BY <1>3, <1>4, <2>0, <3>1 DEF Compiler!DefinedBeforeUse, OutName, node
      <4>2. i - 1 = at
        BY <1>2
      <4>3. o[1] = "int" \/ o[1] = "name"
        BY <1>8, <3>1, <4>1 DEF IsOperand
      <4> QED
        BY <2>1, <4>1, <4>2, <4>3 DEF Given
    <3> QED
      BY <3>1
  <2>3. DOMAIN mem'.symbols = DOMAIN mem.symbols \cup {OutName(i)}
    BY <1>5, <1>7, <1>m, <2>2
  <2>4. DOMAIN mem'.symbols = {OutName(j) : j \in 1..i}
    <3>1. \A j \in 1..i : j = i \/ j \in 1..at
      BY <1>2
    <3>2. i \in 1..i /\ \A j \in 1..at : j \in 1..i
      BY <1>2
    <3> QED
      BY <2>1, <2>3, <3>1, <3>2
  <2>5. ASSUME NEW o, NEW s \in Slots(mem), NEW j \in 1..at, Finds(o, s, j, mem, nodes)
        PROVE  Finds(o, s, j, mem', nodes')
    <3>1. mem'.i64[s + 1] = mem.i64[s + 1]
      <4>1. s + 1 \in 1..Len(mem.i64)
        BY <1>2 DEF MemOK, Slots
      <4> QED
        BY <1>m, <4>1 DEF Grows
    <3>2. \A k \in 1..(j - 1) : nodes'[k].out = nodes[k].out
      <4>1. \A k \in 1..(j - 1) : k \in 1..at
        BY <1>2
      <4> QED
        BY <1>6, <4>1
    <3> QED
      BY <1>m, <2>5, <3>1, <3>2 DEF Finds, Grows
  <2>6. ASSUME NEW o, NEW s, ReadsOf(o, s, mem, mem')
        PROVE  Finds(o, s, i, mem', nodes')
    <3>1. \A k \in 1..(i - 1) : nodes'[k].out \in Slots(mem)
      <4>1. \A k \in 1..(i - 1) : k \in 1..at
        BY <1>2
      <4> QED
        BY <1>2, <1>6, <4>1 DEF Inside
    <3>2. o[1] = "int" => s \notin Slots(mem) /\ mem'.i64[s + 1] = o[2]
      BY <2>6 DEF ReadsOf
    <3>3. o[1] = "name" => s = mem'.symbols[o] /\ o \in DOMAIN mem'.symbols
      BY <2>6 DEF ReadsOf
    <3> QED
      BY <3>1, <3>2, <3>3 DEF Finds
  <2>7. ASSUME NEW j \in 1..i
        PROVE  /\ nodes'[j].out = mem'.symbols[OutName(j)]
               /\ Finds(source'[j].a, nodes'[j].a, j, mem', nodes')
               /\ Finds(source'[j].b, nodes'[j].b, j, mem', nodes')
    <3>1. CASE j = i
      <4>1. /\ ReadsOf(node.a, e.a, mem, mem') /\ ReadsOf(node.b, e.b, mem, mem')
            /\ e.out = mem'.symbols[OutName(i)]
        BY <1>5, <1>7, <1>m
      <4>2. nodes'[j] = e /\ source'[j] = node
        BY <1>6, <1>n, <3>1
      <4>3. Finds(node.a, e.a, i, mem', nodes') /\ Finds(node.b, e.b, i, mem', nodes')
        <5> HIDE DEF e
        <5> QED
          BY <2>6, <4>1
      <4> QED
        BY <3>1, <4>1, <4>2, <4>3
    <3>2. CASE j # i
      <4>1. j \in 1..at
        BY <1>2, <3>2
      <4>2. nodes'[j] = nodes[j] /\ source'[j] = source[j]
        BY <1>1, <1>6, <4>1
      <4>3. nodes[j].a \in Slots(mem) /\ nodes[j].b \in Slots(mem)
        BY <1>2, <4>1 DEF Inside
      <4>4. nodes[j].out = mem'.symbols[OutName(j)]
        BY <1>m, <2>1, <4>1 DEF Grows
      <4>5. /\ Finds(source[j].a, nodes[j].a, j, mem', nodes')
            /\ Finds(source[j].b, nodes[j].b, j, mem', nodes')
        BY <2>1, <2>5, <4>1, <4>3
      <4> QED
        BY <4>2, <4>4, <4>5
    <3> QED
      BY <3>1, <3>2
  <2>8. Len(nodes') = i
    BY <1>6
  <2> QED
    BY <1>o, <2>4, <2>7, <2>8 DEF Named
<1>11. pc' = "lower" /\ Len(nodes') = at' /\ at' <= Len(source') /\ lowered' = <<>>
       /\ at' \in Nat /\ source' \in Sources /\ IsSeq(lowered')
  BY <1>1, <1>2, <1>3, <1>6
<1> QED
  BY <1>m, <1>6, <1>9, <1>10, <1>11 DEF Lowered

LEMMA LoweredKept ==
  ASSUME Lowered, [Compiler!Next]_(Compiler!vars)
  PROVE  Lowered'
<1>0. /\ source \in Sources /\ MemOK(mem)
      /\ IsSeq(nodes) /\ IsSeq(lowered) /\ at \in Nat
      /\ pc = "lower" => Len(nodes) = at /\ at <= Len(source) /\ lowered = <<>>
      /\ pc # "lower" => Len(nodes) = Len(source) /\ at <= Len(nodes)
      /\ \A j \in 1..Len(nodes) : Inside(j)
      /\ Compiler!DefinedBeforeUse => Named
  BY DEF Lowered
<1>1. ASSUME UNCHANGED <<source, mem, nodes>>
      PROVE  /\ \A j \in 1..Len(nodes') : Inside(j)'
             /\ Compiler!DefinedBeforeUse' => Named'
  <2>1. \A j : OutName(j)' = OutName(j)
    BY <1>1 DEF OutName, Compiler!OutName
  <2>2. Compiler!DefinedBeforeUse' => Compiler!DefinedBeforeUse
    BY <1>1 DEF Compiler!DefinedBeforeUse, Compiler!OutName
  <2>3. Named => Named'
    BY <1>1, <2>1 DEF Named
  <2>4. \A j \in 1..Len(nodes') : Inside(j)'
    BY <1>0, <1>1 DEF Inside
  <2> QED
    BY <1>0, <2>2, <2>3, <2>4
<1>2. CASE Compiler!Compiled
  <2>1. Len(nodes) \in Nat
    BY <1>0 DEF IsSeq
  <2> QED
    BY <1>0, <1>1, <1>2, <2>1 DEF Compiler!Compiled, Lowered
<1>3. CASE Compiler!Fuse
  <2> DEFINE e == Compiler!FusedPair(at + 1)
  <2>1. pc = "fuse" /\ lowered' = Append(lowered, e) /\ at' = at + 2
        /\ at + 1 + 1 <= Len(nodes) /\ UNCHANGED <<source, mem, nodes, pc>>
    BY <1>3 DEF Compiler!Fuse, Compiler!Fusible
  <2> HIDE DEF e
  <2>2. IsSeq(lowered')
    BY <1>0, <2>1, AppendIs
  <2> QED
    BY <1>0, <1>1, <2>1, <2>2 DEF Lowered
<1>4. CASE Compiler!Copy
  <2> DEFINE e == nodes[at + 1]
  <2>1. pc = "fuse" /\ lowered' = Append(lowered, e) /\ at' = at + 1
        /\ at < Len(nodes) /\ UNCHANGED <<source, mem, nodes, pc>>
    BY <1>4 DEF Compiler!Copy
  <2> HIDE DEF e
  <2>2. IsSeq(lowered')
    BY <1>0, <2>1, AppendIs
  <2>3. Len(nodes) \in Nat
    BY <1>0 DEF IsSeq
  <2> QED
    BY <1>0, <1>1, <2>1, <2>2, <2>3 DEF Lowered
<1>5. CASE Compiler!Planned
  BY <1>0, <1>1, <1>5 DEF Compiler!Planned, Lowered
<1>6. CASE UNCHANGED Compiler!vars
  BY <1>0, <1>1, <1>6 DEF Compiler!vars, Lowered
<1> QED
  BY <1>2, <1>3, <1>4, <1>5, <1>6, LowerNodeKept DEF Compiler!Next

\* The names, the buffer and the nodes are sound in every state.
LEMMA LoweredAlways == KernelSpec => []Lowered
<1>1. Compiler!Init => Lowered
  BY InitLowered
<1>2. Lowered /\ [Compiler!Next]_(Compiler!vars) => Lowered'
  BY LoweredKept
<1> QED
  BY <1>1, <1>2, KernelCompiles, PTL DEF Compiler!Spec

-----------------------------------------------------------------------------
(* Nodes executed over the buffer.                                         *)

IsBuffer(x) == IsMap(x) /\ DOMAIN x = DOMAIN mem.i64

NodeValue(buf, n) ==
  CASE n.opcode = "add" -> buf[n.a + 1] + buf[n.b + 1]
    [] n.opcode = "mul" -> buf[n.a + 1] * buf[n.b + 1]
    [] n.opcode = "fused" -> (buf[n.a + 1] + buf[n.b + 1]) * buf[n.c + 1]

LEMMA SlotIsIndex ==
  ASSUME MemOK(mem), NEW s \in Slots(mem)
  PROVE  s + 1 \in DOMAIN mem.i64 /\ s \in Nat
<1>1. DOMAIN mem.i64 = 1..Len(mem.i64) /\ Len(mem.i64) \in Nat
  BY LenProperties DEF MemOK
<1> QED
  BY <1>1 DEF Slots

LEMMA FirstBuffer ==
  ASSUME MemOK(mem)
  PROVE  IsBuffer(mem.i64)
<1>1. mem.i64 \in [1..Len(mem.i64) -> Int]
  BY LenProperties DEF MemOK
<1> QED
  BY <1>1 DEF IsBuffer, IsMap

LEMMA NodeIs ==
  ASSUME MemOK(mem), NEW buf, IsBuffer(buf), NEW n, n.out \in Slots(mem)
  PROVE  /\ IsBuffer(Compiler!Execute(buf, n))
         /\ Compiler!Execute(buf, n)[n.out + 1] = NodeValue(buf, n)
         /\ \A s \in DOMAIN mem.i64 :
              s # n.out + 1 => Compiler!Execute(buf, n)[s] = buf[s]
<1> DEFINE v == NodeValue(buf, n)
           x == Compiler!Execute(buf, n)
           k == n.out + 1
<1>1. x = [buf EXCEPT ![k] = v]
  BY DEF Compiler!Execute, NodeValue
<1>2. k \in DOMAIN buf /\ DOMAIN buf = DOMAIN mem.i64
  BY SlotIsIndex DEF IsBuffer
<1>3. buf = [s \in DOMAIN buf |-> buf[s]]
  BY DEF IsBuffer, IsMap
<1> HIDE DEF v, x, k
<1>4. x = [s \in DOMAIN buf |-> IF s = k THEN v ELSE buf[s]]
  BY <1>1
<1> DEFINE y == [s \in DOMAIN buf |-> IF s = k THEN v ELSE buf[s]]
<1>5. /\ IsMap(y) /\ DOMAIN y = DOMAIN buf
      /\ \A s \in DOMAIN buf : y[s] = IF s = k THEN v ELSE buf[s]
  BY DEF IsMap
<1>6. x = y
  BY <1>4
<1> HIDE DEF y
<1> QED
  BY <1>2, <1>5, <1>6 DEF IsBuffer, v, x, k

LEMMA BuffersAre ==
  ASSUME MemOK(mem), NEW ns, Len(ns) \in Nat,
         \A i \in 1..Len(ns) : ns[i].out \in Slots(mem)
  PROVE  /\ IsBuffer(Compiler!InOrder(ns))
         /\ \A f : BufferUpTo(ns, f, Len(ns)) => \A i \in 0..Len(ns) : IsBuffer(f[i])
<1> DEFINE n == Len(ns)
<1>0. n \in Nat
  OBVIOUS
<1>1. ASSUME NEW f, BufferUpTo(ns, f, n) PROVE \A i \in 0..n : IsBuffer(f[i])
  <2>0. f[0] = mem.i64 /\ \A i \in 1..n : f[i] = Compiler!Execute(f[i - 1], ns[i])
    BY <1>1 DEF BufferUpTo
  <2> DEFINE S == {i \in 0..n : IsBuffer(f[i])}
  <2>1. 0 \in S
    BY <2>0, FirstBuffer
  <2>2. \A i \in 1..n : i - 1 \in S => i \in S
    <3> SUFFICES ASSUME NEW i \in 1..n, i - 1 \in S PROVE i \in S
      OBVIOUS
    <3>1. IsBuffer(f[i - 1]) /\ ns[i].out \in Slots(mem) /\ i \in 0..n
      BY <1>0
    <3>2. IsBuffer(Compiler!Execute(f[i - 1], ns[i]))
      BY <3>1, NodeIs
    <3> QED
      BY <2>0, <3>1, <3>2
  <2>3. \A i \in 0..n : i \in S
    <3> HIDE DEF n, S
    <3> QED
      BY ONLY <1>0, <2>1, <2>2, UpTo, Zenon
  <2> QED
    BY <2>3
<1>2. PICK f : BufferUpTo(ns, f, n) /\ Compiler!InOrder(ns) = f[n]
  BY <1>0, BufferRun
<1>3. IsBuffer(f[n])
  BY <1>0, <1>1, <1>2
<1> QED
  BY <1>1, <1>2, <1>3

LEMMA BufferAppend ==
  ASSUME NEW ns, IsSeq(ns), NEW e
  PROVE  Compiler!InOrder(Append(ns, e)) = Compiler!Execute(Compiler!InOrder(ns), e)
<1> DEFINE t == Append(ns, e)
           n == Len(ns)
<1>1. /\ n \in Nat /\ Len(t) = n + 1 /\ t[n + 1] = e /\ Len(t) \in Nat
      /\ \A i \in 1..n : t[i] = ns[i]
  BY AppendIs
<1> HIDE DEF t
<1>2. PICK f : BufferUpTo(t, f, Len(t)) /\ Compiler!InOrder(t) = f[Len(t)]
  BY <1>1, BufferRun
<1>3. BufferUpTo(ns, f, n)
  BY <1>1, <1>2 DEF BufferUpTo
<1>4. Compiler!InOrder(ns) = f[n]
  BY <1>1, <1>3, BufferIs
<1>5. f[n + 1] = Compiler!Execute(f[n], t[n + 1])
  <2>1. n + 1 \in 1..Len(t) /\ (n + 1) - 1 = n
    BY <1>1
  <2> QED
    BY <1>2, <2>1 DEF BufferUpTo
<1> QED
  BY <1>1, <1>2, <1>4, <1>5 DEF t
-----------------------------------------------------------------------------
(* Fusion: the lowered nodes and the first nodes give the same buffer, but *)
(* for the slots that stray.                                               *)

StraysUpTo(t, m) ==
  /\ t[0] = [off |-> FALSE, slots |-> {}]
  /\ \A i \in 1..m : t[i] = Compiler!StraysAfter(i, t[i - 1])

LEMMA StraysRun ==
  ASSUME Len(nodes) \in Nat
  PROVE  \E t : StraysUpTo(t, Len(nodes)) /\ Compiler!Strays = t[Len(nodes)].slots
<1> DEFINE n == Len(nodes)
           none == [off |-> FALSE, slots |-> {}]
           S == {m \in 0..n : \E f : StraysUpTo(f, m)}
<1>0. n \in Nat
  OBVIOUS
<1> HIDE DEF n
<1>1. 0 \in S
  <2> DEFINE f == [i \in {0} |-> none]
  <2>1. StraysUpTo(f, 0)
    BY DEF StraysUpTo
  <2> HIDE DEF f
  <2> QED
    BY <1>0, <2>1
<1>2. ASSUME NEW m \in 1..n, m - 1 \in S PROVE m \in S
  <2>1. PICK f : StraysUpTo(f, m - 1)
    BY <1>2
  <2>m. m \in Nat
    BY <1>0
  <2>2. PICK g : Continues(g, f, m, Compiler!StraysAfter(m, f[m - 1]))
    BY ONLY <2>m, Continued, Zenon
  <2>3. /\ 0 \in 0..(m - 1) /\ m - 1 \in 0..(m - 1)
        /\ \A i \in 1..m : i = m \/ i \in 1..(m - 1)
        /\ \A i \in 1..(m - 1) : i \in 0..(m - 1) /\ i - 1 \in 0..(m - 1)
    BY <1>0
  <2>4. \A i \in 1..m : g[i] = Compiler!StraysAfter(i, g[i - 1])
    BY <2>1, <2>2, <2>3 DEF StraysUpTo, Continues
  <2>5. StraysUpTo(g, m)
    BY <2>1, <2>2, <2>3, <2>4 DEF StraysUpTo, Continues
  <2>6. m \in 0..n
    BY <1>0
  <2> QED
    BY <2>5, <2>6
<1>3. PICK f : StraysUpTo(f, n)
  <2> HIDE DEF S
  <2>1. n \in S
    BY <1>0, <1>1, <1>2, UpTo
  <2> QED
    BY <2>1 DEF S
<1> DEFINE Is(h) == h = [i \in 0..n |-> IF i = 0 THEN none ELSE Compiler!StraysAfter(i, h[i - 1])]
           g == [i \in 0..n |-> f[i]]
           k == [i \in 0..n |-> IF i = 0 THEN none ELSE Compiler!StraysAfter(i, g[i - 1])]
           run == CHOOSE h : Is(h)
<1>4. Is(g)
  <2>1. ASSUME NEW i \in 0..n PROVE g[i] = k[i]
    <3>1. CASE i = 0
      BY <1>3, <3>1 DEF StraysUpTo
    <3>2. CASE i # 0
      <4>1. i \in 1..n /\ i - 1 \in 0..n
        BY <1>0, <3>2
      <4> QED
        BY <1>3, <3>2, <4>1 DEF StraysUpTo
    <3> QED
      BY <3>1, <3>2
  <2> QED
    BY <2>1
<1>5. Is(run)
  BY <1>4
<1>6. Compiler!Strays = run[n].slots
  BY DEF Compiler!Strays, n
<1>7. StraysUpTo(run, n)
  <2>1. \A i \in 0..n : run[i] = IF i = 0 THEN none ELSE Compiler!StraysAfter(i, run[i - 1])
    <3> DEFINE r == [i \in 0..n |-> IF i = 0 THEN none ELSE Compiler!StraysAfter(i, run[i - 1])]
    <3>1. \A i \in 0..n : r[i] = IF i = 0 THEN none ELSE Compiler!StraysAfter(i, run[i - 1])
      OBVIOUS
    <3>2. run = r
      BY <1>5
    <3> HIDE DEF r, run
    <3> QED
      BY <3>1, <3>2
  <2>2. 0 \in 0..n /\ \A i \in 1..n : i \in 0..n /\ i # 0
    BY <1>0
  <2> HIDE DEF run
  <2> QED
    BY <2>1, <2>2 DEF StraysUpTo
<1> QED
  BY <1>6, <1>7 DEF n

\* x is the buffer after the first m nodes, strays aside.
Matches(x, m) ==
  \E f, t : /\ BufferUpTo(nodes, f, Len(nodes))
            /\ StraysUpTo(t, Len(nodes)) /\ Compiler!Strays = t[Len(nodes)].slots
            /\ \A s \in Slots(mem) : s \notin t[m].slots => x[s + 1] = f[m][s + 1]

FuseInv ==
  pc # "lower" =>
    /\ pc = "planned" => at = Len(nodes)
    /\ at # 0 => ~Compiler!Fusible(at)
    /\ IsBuffer(Compiler!InOrder(lowered))
    /\ Matches(Compiler!InOrder(lowered), at)

LEMMA CopyMatches ==
  ASSUME Lowered, NEW m \in 0..Len(nodes), m < Len(nodes),
         m # 0 => ~Compiler!Fusible(m), ~Compiler!Fusible(m + 1),
         NEW x, IsBuffer(x), Matches(x, m)
  PROVE  Matches(Compiler!Execute(x, nodes[m + 1]), m + 1)
<1> DEFINE j == m + 1
           n == nodes[j]
<1>0. /\ MemOK(mem) /\ Len(nodes) \in Nat /\ j \in 1..Len(nodes) /\ j - 1 = m
      /\ m \in Nat /\ (j > 1 => m # 0)
      /\ \A i \in 1..Len(nodes) : Inside(i)
  BY DEF Lowered, IsSeq
<1>1. PICK f, t : /\ BufferUpTo(nodes, f, Len(nodes))
                  /\ StraysUpTo(t, Len(nodes)) /\ Compiler!Strays = t[Len(nodes)].slots
                  /\ \A s \in Slots(mem) : s \notin t[m].slots => x[s + 1] = f[m][s + 1]
  BY DEF Matches
<1>2. IsBuffer(f[m])
  <2>1. \A i \in 1..Len(nodes) : nodes[i].out \in Slots(mem)
    BY <1>0 DEF Inside
  <2> QED
    BY <1>0, <1>1, <2>1, BuffersAre
<1>3. f[j] = Compiler!Execute(f[m], n)
  BY <1>0, <1>1 DEF BufferUpTo
<1>4. /\ n.opcode \in {"add", "mul"}
      /\ n.out \in Slots(mem) /\ n.a \in Slots(mem) /\ n.b \in Slots(mem)
  BY <1>0 DEF Inside
<1>5. t[j].slots = IF n.a \in t[m].slots \/ n.b \in t[m].slots
                   THEN t[m].slots \cup {n.out} ELSE t[m].slots \ {n.out}
  <2>1. t[j] = Compiler!StraysAfter(j, t[m])
    BY <1>0, <1>1 DEF StraysUpTo
  <2>2. ~(j > 1 /\ Compiler!Fusible(j - 1)) /\ ~Compiler!Fusible(j)
    BY <1>0
  <2> QED
    BY <2>1, <2>2 DEF Compiler!StraysAfter
<1> HIDE DEF n
<1> DEFINE k == n.out + 1
<1>6. /\ Compiler!Execute(x, n)[k] = NodeValue(x, n)
      /\ \A s \in DOMAIN mem.i64 : s # k => Compiler!Execute(x, n)[s] = x[s]
      /\ Compiler!Execute(f[m], n)[k] = NodeValue(f[m], n)
      /\ \A s \in DOMAIN mem.i64 : s # k => Compiler!Execute(f[m], n)[s] = f[m][s]
  BY <1>0, <1>2, <1>4, NodeIs
<1>7. ASSUME NEW s \in Slots(mem), s \notin t[j].slots
      PROVE  Compiler!Execute(x, n)[s + 1] = f[j][s + 1]
  <2>1. s \in Nat /\ n.out \in Nat /\ s + 1 \in DOMAIN mem.i64
    BY <1>0, <1>4, SlotIsIndex
  <2>2. CASE s = n.out
    <3>1. n.a \notin t[m].slots /\ n.b \notin t[m].slots
      BY <1>5, <1>7, <2>2
    <3>2. x[n.a + 1] = f[m][n.a + 1] /\ x[n.b + 1] = f[m][n.b + 1]
      BY <1>1, <1>4, <3>1
    <3>3. NodeValue(x, n) = NodeValue(f[m], n)
      BY <1>4, <3>2 DEF NodeValue
    <3> QED
      BY <1>3, <1>6, <2>2, <3>3
  <2>3. CASE s # n.out
    <3>1. s \notin t[m].slots /\ s + 1 # k
      BY <1>5, <1>7, <2>1, <2>3
    <3> QED
      BY <1>1, <1>3, <1>6, <2>1, <3>1
  <2> QED
    BY <2>2, <2>3
<1> QED
  BY <1>1, <1>7 DEF Matches, n

LEMMA FuseMatches ==
  ASSUME Lowered, NEW m \in 0..Len(nodes),
         m # 0 => ~Compiler!Fusible(m), Compiler!Fusible(m + 1),
         NEW x, IsBuffer(x), Matches(x, m)
  PROVE  Matches(Compiler!Execute(x, Compiler!FusedPair(m + 1)), m + 2)
<1> DEFINE i == m + 1
           j == m + 2
           p == nodes[i]
           q == nodes[j]
           e == Compiler!FusedPair(i)
<1>0. /\ MemOK(mem) /\ Len(nodes) \in Nat /\ j \in 1..Len(nodes) /\ i \in 1..Len(nodes)
      /\ j - 1 = i /\ i - 1 = m /\ i + 1 = j /\ j > 1 /\ m \in Nat /\ (i > 1 => m # 0)
      /\ \A k \in 1..Len(nodes) : Inside(k)
  BY DEF Lowered, IsSeq, Compiler!Fusible
<1>1. PICK f, t : /\ BufferUpTo(nodes, f, Len(nodes))
                  /\ StraysUpTo(t, Len(nodes)) /\ Compiler!Strays = t[Len(nodes)].slots
                  /\ \A s \in Slots(mem) : s \notin t[m].slots => x[s + 1] = f[m][s + 1]
  BY DEF Matches
<1>2. IsBuffer(f[m]) /\ IsBuffer(f[i])
  <2>1. \A k \in 1..Len(nodes) : nodes[k].out \in Slots(mem)
    BY <1>0 DEF Inside
  <2>2. i \in 0..Len(nodes)
    BY <1>0
  <2> QED
    BY <1>0, <1>1, <2>1, <2>2, BuffersAre
<1>3. f[i] = Compiler!Execute(f[m], p) /\ f[j] = Compiler!Execute(f[i], q)
  BY <1>0, <1>1 DEF BufferUpTo
<1>5. /\ p.opcode = "add" /\ q.opcode = "mul" /\ q.a = p.out
      /\ p.a \in Slots(mem) /\ p.b \in Slots(mem)
      /\ p.out \in Slots(mem) /\ q.out \in Slots(mem) /\ q.b \in Slots(mem)
  <2>1. p.opcode = "add" /\ q.opcode = "mul" /\ q.a = p.out
    BY <1>0 DEF Compiler!Fusible
  <2> QED
    BY <1>0, <2>1 DEF Inside
<1>4. /\ t[i].slots = t[m].slots \cup {p.out}
      /\ t[j].slots = IF \/ p.a \in t[m].slots \/ p.b \in t[m].slots
                         \/ q.b \in t[i].slots
                      THEN t[i].slots \cup {q.out} ELSE t[i].slots \ {q.out}
  <2>1. /\ t[i] = Compiler!StraysAfter(i, t[m])
        /\ t[j] = Compiler!StraysAfter(j, t[i])
    BY <1>0, <1>1 DEF StraysUpTo
  <2>2. ~(i > 1 /\ Compiler!Fusible(i - 1)) /\ Compiler!Fusible(i) /\ Compiler!Fusible(j - 1)
    BY <1>0
  <2>3. ~Compiler!Fusible(j)
    BY <1>5 DEF Compiler!Fusible
  <2> DEFINE o == p.a \in t[m].slots \/ p.b \in t[m].slots
  <2>4. t[i] = [off |-> o, slots |-> t[m].slots \cup {p.out}]
    <3>1. Compiler!StraysAfter(i, t[m]) =
            [off |-> IF i > 1 /\ Compiler!Fusible(i - 1)
                     THEN t[m].off \/ p.b \in t[m].slots ELSE o,
             slots |-> IF (IF i > 1 /\ Compiler!Fusible(i - 1)
                           THEN t[m].off \/ p.b \in t[m].slots ELSE o) \/ Compiler!Fusible(i)
                       THEN t[m].slots \cup {p.out} ELSE t[m].slots \ {p.out}]
      BY DEF Compiler!StraysAfter
    <3> QED
      BY <2>1, <2>2, <3>1
  <2>5. t[i].off = o /\ t[i].slots = t[m].slots \cup {p.out}
    BY <2>4
  <2>6. t[j].slots = IF t[i].off \/ q.b \in t[i].slots
                     THEN t[i].slots \cup {q.out} ELSE t[i].slots \ {q.out}
    BY <1>0, <2>1, <2>2, <2>3 DEF Compiler!StraysAfter
  <2> QED
    BY <2>5, <2>6
<1>6. /\ e.opcode = "fused" /\ e.a = p.a /\ e.b = p.b /\ e.c = q.b /\ e.out = q.out
  <2>1. e = [p EXCEPT !.opcode = "fused", !.c = q.b, !.out = q.out]
    BY <1>0 DEF Compiler!FusedPair
  <2>2. p = [phase |-> p.phase, opcode |-> p.opcode, a |-> p.a, b |-> p.b,
             c |-> p.c, out |-> p.out]
    BY <1>0 DEF Inside, IsIRNode
  <2> HIDE DEF p, q, e
  <2> DEFINE g == [phase |-> p.phase, opcode |-> "fused", a |-> p.a, b |-> p.b,
                   c |-> q.b, out |-> q.out]
  <2>3. e = g
    BY <2>1, <2>2
  <2>4. g.opcode = "fused" /\ g.a = p.a /\ g.b = p.b /\ g.c = q.b /\ g.out = q.out
    OBVIOUS
  <2> HIDE DEF g
  <2> QED
    BY <2>3, <2>4
<1> HIDE DEF p, q, e
<1>7. /\ p.out \in Nat /\ q.b \in Nat /\ q.a \in Nat /\ q.out \in Nat
      /\ q.a + 1 \in DOMAIN mem.i64 /\ q.b + 1 \in DOMAIN mem.i64
      /\ p.out + 1 \in DOMAIN mem.i64 /\ q.out + 1 \in DOMAIN mem.i64
  <2>1. /\ p.out \in Nat /\ q.b \in Nat /\ q.out \in Nat
        /\ p.out + 1 \in DOMAIN mem.i64 /\ q.out + 1 \in DOMAIN mem.i64
        /\ q.b + 1 \in DOMAIN mem.i64
    BY <1>0, <1>5, SlotIsIndex
  <2> QED
    BY <1>5, <2>1
<1>8. /\ f[i][p.out + 1] = f[m][p.a + 1] + f[m][p.b + 1]
      /\ \A s \in DOMAIN mem.i64 : s # p.out + 1 => f[i][s] = f[m][s]
  <2>1. NodeValue(f[m], p) = f[m][p.a + 1] + f[m][p.b + 1]
    BY <1>5 DEF NodeValue
  <2> QED
    BY <1>0, <1>2, <1>3, <1>5, <2>1, NodeIs
<1>9. /\ f[j][q.out + 1] = f[i][q.a + 1] * f[i][q.b + 1]
      /\ \A s \in DOMAIN mem.i64 : s # q.out + 1 => f[j][s] = f[i][s]
  <2>1. NodeValue(f[i], q) = f[i][q.a + 1] * f[i][q.b + 1]
    BY <1>5 DEF NodeValue
  <2> QED
    BY <1>0, <1>2, <1>3, <1>5, <2>1, NodeIs
<1> DEFINE y == Compiler!Execute(x, e)
<1>10. /\ y[q.out + 1] = (x[p.a + 1] + x[p.b + 1]) * x[q.b + 1]
       /\ \A s \in DOMAIN mem.i64 : s # q.out + 1 => y[s] = x[s]
  <2>1. NodeValue(x, e) = (x[p.a + 1] + x[p.b + 1]) * x[q.b + 1]
    BY <1>6 DEF NodeValue
  <2>2. e.out \in Slots(mem)
    BY <1>5, <1>6
  <2> QED
    BY <1>0, <1>6, <2>1, <2>2, NodeIs
<1> HIDE DEF y
<1>11. ASSUME NEW s \in Slots(mem), s \notin t[j].slots
       PROVE  y[s + 1] = f[j][s + 1]
  <2>0. s \in Nat /\ s + 1 \in DOMAIN mem.i64
    BY <1>0, SlotIsIndex
  <2>1. CASE s = q.out
    <3>1. /\ p.a \notin t[m].slots /\ p.b \notin t[m].slots
          /\ q.b \notin t[m].slots /\ q.b # p.out
      BY <1>4, <1>11, <2>1
    <3>2. /\ x[p.a + 1] = f[m][p.a + 1] /\ x[p.b + 1] = f[m][p.b + 1]
          /\ x[q.b + 1] = f[m][q.b + 1]
      BY <1>1, <1>5, <3>1
    <3>3. q.b + 1 # p.out + 1
      BY <1>7, <3>1
    <3>4. f[i][q.b + 1] = f[m][q.b + 1]
      BY <1>7, <1>8, <3>3
    <3>5. f[i][q.a + 1] = f[m][p.a + 1] + f[m][p.b + 1]
      BY <1>5, <1>8
    <3> QED
      BY <1>9, <1>10, <2>1, <3>2, <3>4, <3>5
  <2>2. CASE s # q.out
    <3>1. s \notin t[m].slots /\ s # p.out
      BY <1>4, <1>11, <2>2
    <3>2. s + 1 # q.out + 1 /\ s + 1 # p.out + 1
      BY <1>7, <2>0, <2>2, <3>1
    <3>3. y[s + 1] = x[s + 1] /\ f[j][s + 1] = f[m][s + 1]
      BY <1>8, <1>9, <1>10, <2>0, <3>2
    <3> QED
      BY <1>1, <3>1, <3>3
  <2> QED
    BY <2>1, <2>2
<1> QED
  BY <1>1, <1>11 DEF Matches, y, e

\* The buffer after ns have run over i64, whatever the state.
RunFrom(i64, ns) ==
  LET run[i \in 0..Len(ns)] ==
        IF i = 0 THEN i64 ELSE Compiler!Execute(run[i - 1], ns[i])
  IN run[Len(ns)]

LEMMA InOrderStays ==
  ASSUME mem' = mem
  PROVE  Compiler!InOrder(lowered)' = Compiler!InOrder(lowered')
<1>1. Compiler!InOrder(lowered)' = RunFrom(mem'.i64, lowered')
  BY DEF Compiler!InOrder, RunFrom, Compiler!Execute
<1>2. Compiler!InOrder(lowered') = RunFrom(mem.i64, lowered')
  BY DEF Compiler!InOrder, RunFrom
<1> QED
  BY <1>1, <1>2

\* FuseInv after a step that changes lowered and at alone.
LEMMA FuseStep ==
  ASSUME UNCHANGED <<mem, nodes>>,
         pc' = "planned" => at' = Len(nodes),
         at' # 0 => ~Compiler!Fusible(at'),
         IsBuffer(Compiler!InOrder(lowered')),
         Matches(Compiler!InOrder(lowered'), at')
  PROVE  FuseInv'
<1> DEFINE x == Compiler!InOrder(lowered)'
<1>1. x = Compiler!InOrder(lowered')
  BY InOrderStays
<1> HIDE DEF x
<1>2. IsBuffer(x) /\ Matches(x, at')
  BY <1>1
<1>5. IsBuffer(Compiler!InOrder(lowered))'
  BY <1>2 DEF IsBuffer, x
<1>6. at' # 0 => ~Compiler!Fusible(at)'
  BY DEF Compiler!Fusible
<1>7. pc' = "planned" => at' = Len(nodes')
  OBVIOUS
<1>8. Matches(Compiler!InOrder(lowered), at)'
  <2>1. PICK f, t : /\ BufferUpTo(nodes, f, Len(nodes))
                    /\ StraysUpTo(t, Len(nodes)) /\ Compiler!Strays = t[Len(nodes)].slots
                    /\ \A s \in Slots(mem) : s \notin t[at'].slots => x[s + 1] = f[at'][s + 1]
    BY <1>2 DEF Matches
  <2>2. BufferUpTo(nodes, f, Len(nodes))'
    BY <2>1 DEF BufferUpTo
  <2>3. StraysUpTo(t, Len(nodes))'
    BY <2>1 DEF StraysUpTo, Compiler!StraysAfter, Compiler!Fusible
  <2>4. Compiler!Strays' = Compiler!Strays
    BY DEF Compiler!Strays, Compiler!StraysAfter, Compiler!Fusible
  <2>5. \A s \in Slots(mem)' : s \notin t[at'].slots => x[s + 1] = f[at'][s + 1]
    BY <2>1 DEF Slots
  <2> QED
    BY <2>1, <2>2, <2>3, <2>4, <2>5 DEF Matches, x
<1> QED
  BY <1>2, <1>5, <1>6, <1>7, <1>8 DEF FuseInv

LEMMA FuseKept ==
  ASSUME Lowered, FuseInv, [Compiler!Next]_(Compiler!vars)
  PROVE  FuseInv'
<1>0. /\ MemOK(mem) /\ IsSeq(nodes) /\ IsSeq(lowered) /\ at \in Nat
      /\ Len(nodes) \in Nat /\ Len(lowered) \in Nat
      /\ pc = "lower" => lowered = <<>>
      /\ pc # "lower" => at <= Len(nodes)
      /\ \A j \in 1..Len(nodes) : Inside(j)
  BY DEF Lowered, IsSeq
<1>i. pc # "lower" =>
        /\ pc = "planned" => at = Len(nodes)
        /\ at # 0 => ~Compiler!Fusible(at)
        /\ IsBuffer(Compiler!InOrder(lowered))
        /\ Matches(Compiler!InOrder(lowered), at)
  BY DEF FuseInv
<1>1. CASE Compiler!LowerNode
  <2>1. pc' = "lower"
    BY <1>1 DEF Compiler!LowerNode
  <2> QED
    BY <2>1 DEF FuseInv
<1>2. CASE Compiler!Compiled
  <2>1. pc = "lower" /\ pc' = "fuse" /\ at' = 0 /\ UNCHANGED <<mem, nodes, lowered>>
    BY <1>2 DEF Compiler!Compiled
  <2>2. lowered' = <<>> /\ Len(<<>>) = 0
    BY <1>0, <2>1
  <2>3. PICK f : BufferUpTo(<<>>, f, Len(<<>>)) /\ Compiler!InOrder(<<>>) = f[Len(<<>>)]
    BY <2>2, BufferRun
  <2>4. Compiler!InOrder(lowered') = mem.i64
    BY <2>2, <2>3 DEF BufferUpTo
  <2>5. IsBuffer(Compiler!InOrder(lowered'))
    BY <1>0, <2>4, FirstBuffer
  <2>6. PICK g : BufferUpTo(nodes, g, Len(nodes))
    BY <1>0, BufferRun
  <2>7. g[0] = mem.i64
    BY <2>6 DEF BufferUpTo
  <2>8. Matches(Compiler!InOrder(lowered'), at')
    <3>1. PICK t : StraysUpTo(t, Len(nodes)) /\ Compiler!Strays = t[Len(nodes)].slots
      BY <1>0, StraysRun
    <3> QED
      BY <2>1, <2>4, <2>6, <2>7, <3>1 DEF Matches
  <2> QED
    BY <2>1, <2>5, <2>8, FuseStep
<1>3. CASE Compiler!Fuse
  <2> DEFINE e == Compiler!FusedPair(at + 1)
  <2>1. /\ pc = "fuse" /\ lowered' = Append(lowered, e) /\ at' = at + 2
        /\ Compiler!Fusible(at + 1) /\ UNCHANGED <<mem, nodes, pc>>
    BY <1>3 DEF Compiler!Fuse
  <2>2. /\ at + 1 \in 1..Len(nodes) /\ at + 2 \in 1..Len(nodes) /\ at \in 0..Len(nodes)
        /\ (at + 1) + 1 = at + 2
    BY <1>0, <2>1 DEF Compiler!Fusible
  <2>3. nodes[at + 2].opcode = "mul" /\ nodes[at + 2].out \in Slots(mem)
    BY <1>0, <2>1, <2>2 DEF Compiler!Fusible, Inside
  <2>4. e.out = nodes[at + 2].out
    <3>1. e = [nodes[at + 1] EXCEPT !.opcode = "fused", !.c = nodes[at + 2].b,
                                    !.out = nodes[at + 2].out]
      BY <2>2 DEF Compiler!FusedPair
    <3> DEFINE p == nodes[at + 1]
               q == nodes[at + 2]
    <3>2. p = [phase |-> p.phase, opcode |-> p.opcode, a |-> p.a, b |-> p.b,
               c |-> p.c, out |-> p.out]
      BY <1>0, <2>2 DEF Inside, IsIRNode
    <3> HIDE DEF p, q, e
    <3>3. e = [p EXCEPT !.opcode = "fused", !.c = q.b, !.out = q.out]
      BY <3>1 DEF p, q
    <3> QED
      BY <3>2, <3>3 DEF q
  <2>5. ~Compiler!Fusible(at')
    BY <2>1, <2>3 DEF Compiler!Fusible
  <2> DEFINE x == Compiler!InOrder(lowered)
  <2>6. IsBuffer(x) /\ Matches(x, at)
    BY <1>i, <2>1
  <2>7. Compiler!InOrder(lowered') = Compiler!Execute(x, e)
    <3> HIDE DEF e
    <3> QED
      BY <1>0, <2>1, BufferAppend
  <2>8. IsBuffer(Compiler!InOrder(lowered'))
    <3>1. e.out \in Slots(mem)
      BY <2>3, <2>4
    <3> HIDE DEF x, e
    <3> QED
      BY <1>0, <2>6, <2>7, <3>1, NodeIs
  <2>9. Matches(Compiler!InOrder(lowered'), at')
    <3> HIDE DEF x
    <3>1. at # 0 => ~Compiler!Fusible(at)
      BY <1>i, <2>1
    <3> QED
      BY <2>1, <2>2, <2>6, <2>7, <3>1, FuseMatches
  <2> QED
    BY <2>1, <2>5, <2>8, <2>9, FuseStep
<1>4. CASE Compiler!Copy
  <2> DEFINE e == nodes[at + 1]
             x == Compiler!InOrder(lowered)
  <2>1. /\ pc = "fuse" /\ lowered' = Append(lowered, e) /\ at' = at + 1
        /\ at < Len(nodes) /\ ~Compiler!Fusible(at + 1) /\ UNCHANGED <<mem, nodes, pc>>
    BY <1>4 DEF Compiler!Copy
  <2>2. at + 1 \in 1..Len(nodes) /\ at \in 0..Len(nodes)
    BY <1>0, <2>1
  <2>3. e.out \in Slots(mem)
    BY <1>0, <2>2 DEF Inside
  <2>6. IsBuffer(x) /\ Matches(x, at)
    BY <1>i, <2>1
  <2>7. Compiler!InOrder(lowered') = Compiler!Execute(x, e)
    <3> HIDE DEF e
    <3> QED
      BY <1>0, <2>1, BufferAppend
  <2>8. IsBuffer(Compiler!InOrder(lowered'))
    <3> HIDE DEF x, e
    <3> QED
      BY <1>0, <2>3, <2>6, <2>7, NodeIs
  <2>9. Matches(Compiler!InOrder(lowered'), at')
    <3> HIDE DEF x
    <3>1. at # 0 => ~Compiler!Fusible(at)
      BY <1>i, <2>1
    <3> QED
      BY <2>1, <2>2, <2>6, <2>7, <3>1, CopyMatches
  <2> QED
    BY <2>1, <2>8, <2>9, FuseStep
<1>5. CASE Compiler!Planned
  <2>1. /\ pc = "fuse" /\ pc' = "planned" /\ at = Len(nodes) /\ lowered' = lowered
        /\ at' = at /\ UNCHANGED <<mem, nodes>>
    BY <1>5 DEF Compiler!Planned
  <2> QED
    BY <1>i, <2>1, FuseStep
<1>6. CASE UNCHANGED Compiler!vars
  <2>1. UNCHANGED <<mem, nodes, lowered, at, pc>>
    BY <1>6 DEF Compiler!vars
  <2>2. CASE pc = "lower"
    <3>1. pc' = "lower"
      BY <2>1, <2>2
    <3> QED
      BY <3>1 DEF FuseInv
  <2>3. CASE pc # "lower"
    BY <1>i, <2>1, <2>3, FuseStep
  <2> QED
    BY <2>2, <2>3
<1> QED
  BY <1>1, <1>2, <1>3, <1>4, <1>5, <1>6 DEF Compiler!Next

LEMMA FusedAgrees ==
  ASSUME Lowered, FuseInv
  PROVE  Compiler!FusionAgrees
<1> SUFFICES ASSUME pc = "planned",
                    NEW s \in 0..(Len(mem.i64) - 1), s \notin Compiler!Strays
             PROVE  Compiler!InOrder(lowered)[s + 1] = Compiler!InOrder(nodes)[s + 1]
  BY DEF Compiler!FusionAgrees
<1>1. at = Len(nodes) /\ Matches(Compiler!InOrder(lowered), at)
  BY DEF FuseInv
<1>2. Len(nodes) \in Nat
  BY DEF Lowered, IsSeq
<1>3. PICK f, t : /\ BufferUpTo(nodes, f, Len(nodes))
                  /\ Compiler!Strays = t[Len(nodes)].slots
                  /\ \A k \in Slots(mem) : k \notin t[Len(nodes)].slots =>
                       Compiler!InOrder(lowered)[k + 1] = f[Len(nodes)][k + 1]
  BY <1>1 DEF Matches
<1>4. Compiler!InOrder(nodes) = f[Len(nodes)]
  BY <1>2, <1>3, BufferIs
<1> QED
  BY <1>3, <1>4 DEF Slots

\* planProgram, for every program: fusing an add into the mul behind it can
\* change only the sum's slot and what later nodes compute from it.
THEOREM FusingSparesTheRest == KernelSpec => []FusionAgrees
<1>1. Compiler!Init => FuseInv
  BY DEF Compiler!Init, FuseInv
<1>2. Lowered /\ FuseInv /\ [Compiler!Next]_(Compiler!vars) => FuseInv'
  BY FuseKept
<1>3. Lowered /\ FuseInv => FusionAgrees
  BY FusedAgrees DEF FusionAgrees
<1> QED
  BY <1>1, <1>2, <1>3, KernelCompiles, LoweredAlways, PTL DEF Compiler!Spec
-----------------------------------------------------------------------------
(* Meaning: after i nodes the buffer holds the value of every name the     *)
(* program has given so far, and the literals no node has written.         *)

Holds(i, f, g) ==
  /\ DOMAIN g[i] = {OutName(j) : j \in 1..i}
  /\ \A j \in 1..i : f[i][mem.symbols[OutName(j)] + 1] = g[i][OutName(j)]
  /\ \A s \in Slots(mem) :
       (\A k \in 1..i : nodes[k].out # s) => f[i][s + 1] = mem.i64[s + 1]

LEMMA ValueRead ==
  ASSUME NEW i \in 1..Len(source), NEW f, NEW g, Holds(i - 1, f, g),
         Compiler!DefinedBeforeUse, Len(source) \in Nat, DOMAIN source = 1..Len(source),
         NEW o \in {source[i].a, source[i].b}, IsOperand(o),
         NEW slot \in Slots(mem), Finds(o, slot, i, mem, nodes)
  PROVE  f[i - 1][slot + 1] = Compiler!Value(o, g[i - 1])
<1>1. o # Compiler!Absent /\ (o[1] = "name" => \E j \in 1..(i - 1) : OutName(j) = o)
  BY DEF Compiler!DefinedBeforeUse, OutName
<1>2. CASE o[1] = "int"
  BY <1>2 DEF Holds, Finds, Compiler!Value
<1>3. CASE o[1] = "name"
  <2>1. slot = mem.symbols[o]
    BY <1>3 DEF Finds
  <2>2. PICK j \in 1..(i - 1) : OutName(j) = o
    BY <1>1, <1>3
  <2>3. f[i - 1][slot + 1] = g[i - 1][o]
    BY <2>1, <2>2 DEF Holds
  <2>4. o[1] # "int"
    BY <1>3
  <2> QED
    BY <2>3, <2>4 DEF Compiler!Value
<1> QED
  BY <1>1, <1>2, <1>3 DEF IsOperand

LEMMA DefinedIs ==
  ASSUME NEW i, NEW env
  PROVE  /\ DOMAIN Compiler!Defined(i, env) = DOMAIN env \cup {OutName(i)}
         /\ Compiler!Defined(i, env)[OutName(i)] = Compiler!Result(source[i], env)
         /\ \A x \in DOMAIN env : x # OutName(i) => Compiler!Defined(i, env)[x] = env[x]
BY DEF Compiler!Defined, OutName

LEMMA HoldsNext ==
  ASSUME Lowered, pc # "lower", Compiler!DefinedBeforeUse,
         NEW f, BufferUpTo(nodes, f, Len(nodes)),
         NEW g, MeaningUpTo(g, Len(source)),
         NEW i \in 1..Len(nodes), Holds(i - 1, f, g)
  PROVE  Holds(i, f, g)
<1> DEFINE m == i - 1
           n == nodes[i]
           node == source[i]
<1>0. /\ MemOK(mem) /\ source \in Sources /\ Named /\ Inside(i)
      /\ Len(nodes) = Len(source) /\ Len(nodes) \in Nat
      /\ \A k \in 1..Len(nodes) : nodes[k].out \in Slots(mem)
  BY DEF Lowered, IsSeq, Inside
<1>1. /\ DOMAIN source = 1..Len(source) /\ IsSum(node) /\ i \in 1..Len(source)
      /\ Len(source) \in Nat
  BY <1>0, SourcesAre
<1>2. m \in 0..Len(nodes) /\ m \in Nat /\ i \in 1..i
      /\ (\A j \in 1..i : j = i \/ j \in 1..m) /\ (\A j \in 1..m : j \in 1..i)
      /\ \A j \in 1..i : j \in 1..Len(nodes)
  BY <1>0
<1>3. f[i] = Compiler!Execute(f[m], n) /\ g[i] = Compiler!Defined(i, g[m])
  BY <1>0 DEF BufferUpTo, MeaningUpTo
<1>4. IsBuffer(f[m])
  BY <1>0, <1>2, BuffersAre
<1>5. /\ n.opcode = node.op /\ n.a \in Slots(mem) /\ n.b \in Slots(mem)
      /\ n.out \in Slots(mem) /\ node.op \in {"add", "mul"}
      /\ IsOperand(node.a) /\ IsOperand(node.b)
  BY <1>0, <1>1 DEF Inside, IsSum
<1>6. /\ DOMAIN mem.symbols = {OutName(j) : j \in 1..Len(nodes)}
      /\ n.out = mem.symbols[OutName(i)]
      /\ Finds(node.a, n.a, i, mem, nodes) /\ Finds(node.b, n.b, i, mem, nodes)
  BY <1>0 DEF Named
<1>7. /\ f[m][n.a + 1] = Compiler!Value(node.a, g[m])
      /\ f[m][n.b + 1] = Compiler!Value(node.b, g[m])
  BY <1>0, <1>1, <1>5, <1>6, ValueRead
<1> HIDE DEF n, node, m
<1>8. NodeValue(f[m], n) = Compiler!Result(node, g[m])
  BY <1>5, <1>7 DEF NodeValue, Compiler!Result
<1>9. /\ f[i][n.out + 1] = Compiler!Result(node, g[m])
      /\ \A s \in DOMAIN mem.i64 : s # n.out + 1 => f[i][s] = f[m][s]
  BY <1>0, <1>3, <1>4, <1>5, <1>8, NodeIs
<1>10. /\ DOMAIN g[i] = DOMAIN g[m] \cup {OutName(i)}
       /\ g[i][OutName(i)] = Compiler!Result(node, g[m])
       /\ \A x \in DOMAIN g[m] : x # OutName(i) => g[i][x] = g[m][x]
  <2>1. /\ DOMAIN Compiler!Defined(i, g[m]) = DOMAIN g[m] \cup {OutName(i)}
        /\ Compiler!Defined(i, g[m])[OutName(i)] = Compiler!Result(source[i], g[m])
        /\ \A x \in DOMAIN g[m] :
             x # OutName(i) => Compiler!Defined(i, g[m])[x] = g[m][x]
    BY ONLY DefinedIs, Zenon
  <2> QED
    BY ONLY <1>3, <2>1, Zenon DEF node
<1>11. /\ DOMAIN g[m] = {OutName(j) : j \in 1..m}
       /\ \A j \in 1..m : f[m][mem.symbols[OutName(j)] + 1] = g[m][OutName(j)]
       /\ \A s \in Slots(mem) :
            (\A k \in 1..m : nodes[k].out # s) => f[m][s + 1] = mem.i64[s + 1]
  BY DEF Holds, m
<1>12. DOMAIN g[i] = {OutName(j) : j \in 1..i}
  BY <1>2, <1>10, <1>11
<1>13. ASSUME NEW j \in 1..i
       PROVE  f[i][mem.symbols[OutName(j)] + 1] = g[i][OutName(j)]
  <2> DEFINE x == OutName(j)
             y == OutName(i)
  <2> HIDE DEF x, y
  <2>1. CASE x = y
    BY <1>6, <1>9, <1>10, <2>1 DEF x, y
  <2>2. CASE x # y
    <3>1. j \in 1..m
      BY <1>2, <2>2 DEF x, y
    <3>2. x \in DOMAIN mem.symbols /\ y \in DOMAIN mem.symbols
      BY <1>2, <1>6 DEF x, y
    <3>3. mem.symbols[x] # n.out
      BY <1>0, <1>6, <2>2, <3>2 DEF MemOK, y
    <3>4. mem.symbols[x] \in Slots(mem)
      BY <1>0, <3>2, SymbolSlots
    <3>5. /\ mem.symbols[x] + 1 \in DOMAIN mem.i64 /\ mem.symbols[x] \in Nat
          /\ n.out \in Nat
      BY <1>0, <1>5, <3>4, SlotIsIndex
    <3>6. mem.symbols[x] + 1 # n.out + 1
      BY <3>3, <3>5
    <3>7. f[i][mem.symbols[x] + 1] = f[m][mem.symbols[x] + 1]
      BY <1>9, <3>5, <3>6
    <3>8. x \in DOMAIN g[m] /\ f[m][mem.symbols[x] + 1] = g[m][x]
      BY <1>11, <3>1 DEF x
    <3>9. g[i][x] = g[m][x]
      BY <1>10, <2>2, <3>8 DEF y
    <3> QED
      BY <3>7, <3>8, <3>9 DEF x
  <2> QED
    BY <2>1, <2>2
<1>14. ASSUME NEW s \in Slots(mem), \A k \in 1..i : nodes[k].out # s
       PROVE  f[i][s + 1] = mem.i64[s + 1]
  <2>1. n.out # s /\ \A k \in 1..m : nodes[k].out # s
    BY <1>2, <1>14 DEF n
  <2>2. s + 1 \in DOMAIN mem.i64 /\ s \in Nat /\ n.out \in Nat
    BY <1>0, <1>5, SlotIsIndex
  <2>3. s + 1 # n.out + 1
    BY <2>1, <2>2
  <2> QED
    BY <1>9, <1>11, <2>1, <2>2, <2>3
<1> QED
  BY <1>12, <1>13, <1>14 DEF Holds

LEMMA MeaningHolds ==
  ASSUME Lowered
  PROVE  Compiler!MeaningKept
<1> SUFFICES ASSUME pc # "lower", Compiler!DefinedBeforeUse,
                    NEW name \in DOMAIN Compiler!Meaning
             PROVE  Compiler!InOrder(nodes)[mem.symbols[name] + 1] = Compiler!Meaning[name]
  BY DEF Compiler!MeaningKept
<1> DEFINE N == Len(nodes)
<1>1. MemOK(mem) /\ N \in Nat /\ Len(source) = N
  BY DEF Lowered, IsSeq
<1>2. PICK f : BufferUpTo(nodes, f, N) /\ Compiler!InOrder(nodes) = f[N]
  BY <1>1, BufferRun
<1>3. PICK g : MeaningUpTo(g, Len(source)) /\ Compiler!Meaning = g[N]
  BY <1>1, MeaningRun
<1> DEFINE S == {i \in 0..N : Holds(i, f, g)}
<1>4. 0 \in S
  <2>1. f[0] = mem.i64 /\ g[0] = [x \in {} |-> 0]
    BY <1>2, <1>3 DEF BufferUpTo, MeaningUpTo
  <2>2. DOMAIN g[0] = {} /\ 1..0 = {}
    BY <2>1
  <2> QED
    BY <1>1, <2>1, <2>2 DEF Holds
<1>5. \A i \in 1..N : i - 1 \in S => i \in S
  <2> SUFFICES ASSUME NEW i \in 1..N, Holds(i - 1, f, g) PROVE i \in S
    OBVIOUS
  <2>1. i \in 0..N
    BY <1>1
  <2>2. Holds(i, f, g)
    BY <1>2, <1>3, HoldsNext
  <2> QED
    BY <2>1, <2>2
<1>6. N \in S
  <2> HIDE DEF N, S
  <2>1. \A i \in 0..N : i \in S
    BY ONLY <1>1, <1>4, <1>5, UpTo, Zenon
  <2> QED
    BY <1>1, <2>1
<1>7. Holds(N, f, g)
  BY <1>6
<1> QED
  BY <1>2, <1>3, <1>7 DEF Holds

\* compileProgram: though symbols and literals are numbered by two counters
\* and share the slots of one buffer, the nodes run in order leave every name
\* with the value the program says.
THEOREM CompilingKeepsMeaning == KernelSpec => []MeaningKept
<1>1. Lowered => MeaningKept
  BY MeaningHolds DEF MeaningKept
<1> QED
  BY <1>1, LoweredAlways, PTL
=============================================================================
