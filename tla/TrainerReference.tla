-------------------------- MODULE TrainerReference --------------------------
(***************************************************************************)
(* The gradient of one training sequence as GPT2Trainer::forwardBackwardCPU*)
(* computes it: every array of that function is written once, so each one  *)
(* is a name, and the table Value gives what it holds.  That function has  *)
(* neither biases on the scores nor fullseq_: for the modes with them the  *)
(* table is the function extended by the terms the GPU path adds to the    *)
(* scores, and by the rows fullseq_ trains besides.                        *)
(*                                                                         *)
(* A content is a bag of results of kernels, since arrays are sums: adding *)
(* twice is not adding once.  A result <<op, lit, args>> says which kernel *)
(* made it, with which weights or index, from which named contents.        *)
(*                                                                         *)
(* Layer l is its attention half k = 2l and its MLP half k = 2l + 1; both  *)
(* are LayerNorm, projection in, a mixing step, projection out, residual.  *)
(* The LayerNorm that reads h[k] has index k, and ln_f has index 2 * NL.   *)
(***************************************************************************)
EXTENDS Naturals, Sequences, SequencesExt

CONSTANTS
  NL,       \* n_layer
  NH        \* n_head

Top == 2 * NL
Half == 0 .. Top - 1
Attention(k) == k % 2 = 0

One(op, lit, args) == <<op, lit, args>> :> 1

\* The bag that sums f over a set, occurrences counted.
BagSumOver(f(_), S) == FoldSet(LAMBDA x, acc : f(x) (+) acc, EmptyBag, S)

\* The rows of the sequence whose logits are trained: the next-to-last row,
\* whose hidden state has not seen the last token, or in fullseq_ every row.
Rows(m) == IF m.full THEN 0 .. m.S - 1 ELSE {m.S - 2}

\* The token a row is trained towards.
Label(m, r) == IF m.full THEN r ELSE r + 1

\* What the loss gradient is divided by: the sequences of the batch, and in
\* fullseq_ its rows.
Divisor(m) == IF m.full THEN m.n * m.S ELSE m.n

\* The passes the GPU path may add to the raw attention scores.
BiasFrom(b, k) ==
  CASE b = "gravity" -> <<<<"ln_y", k>>, <<"bones", 0>>>>
    [] b = "fold"    -> <<<<"sorted", 0>>, <<"bones", 0>>>>
    [] b = "think"   -> <<<<"bones", 0>>>>

Names(m) ==
  ({"h", "ln_y", "xhat", "inv", "dh", "d_ln"} \X (0 .. Top))
  \cup ({"lin", "mixed", "d_mixed"} \X Half)
  \cup ({"scores", "P", "dq", "dk", "dv"} \X {k \in Half : Attention(k)})
  \cup ({"d_lin"} \X {k \in Half : ~Attention(k)})
  \cup ({"dP", "dot"} \X {k * NH + h : k \in {j \in Half : Attention(j)}, h \in 0 .. NH - 1})
  \cup ({"logits", "dlogits"} \X Rows(m))
  \cup ({"tokens", "bones", "sorted"} \X {0})

\* The residual stream after k halves.
Stream(i) ==
  LET h[k \in 0 .. Top] ==
        IF k = 0 THEN One("embed", 0, <<<<i, "tokens", 0>>>>)
        ELSE h[k - 1] (+) One("mm", <<"out", k - 1>>, <<<<i, "mixed", k - 1>>>>)
  IN h

LnInput(i, k) == One("ln_dx", k, <<<<i, "xhat", k>>, <<i, "d_ln", k>>, <<i, "inv", k>>>>)

\* Its gradient, from ln_f down: the skip path plus the LayerNorm path.
StreamGradient(i) ==
  LET d[j \in 0 .. Top] ==
        IF j = 0 THEN LnInput(i, Top) ELSE d[j - 1] (+) LnInput(i, Top - j)
  IN [k \in 0 .. Top |-> d[Top - k]]

\* What flows back into the projection of half k.
IntoLin(i, k) ==
  IF Attention(k) THEN <<<<i, "dq", k>>, <<i, "dk", k>>, <<i, "dv", k>>>>
  ELSE <<<<i, "d_lin", k>>>>

\* The content of array x of half, row or head k, for sequence i; m.bias and
\* the rows of m.full are the extension.
Value(m, i, x, k) ==
  LET v(y, j) == <<i, y, j>>
      of(names) == [j \in DOMAIN names |-> <<i>> \o names[j]]
      head == k % NH
      half == k \div NH
      heads(f(_)) == BagSumOver(f, 0 .. NH - 1)
  IN CASE x = "tokens"  -> One("upload", i, << >>)
       [] x = "bones"   -> One("build", i, << >>)
       [] x = "sorted"  -> One("argsort", 0, <<v("bones", 0)>>)
       [] x = "h"       -> Stream(i)[k]
       [] x \in {"ln_y", "xhat", "inv"} -> One(x, k, <<v("h", k)>>)
       [] x = "lin"     -> One("mm", <<"in", k>>, <<v("ln_y", k)>>)
       [] x = "scores"  -> One("qk", 0, <<v("lin", k)>>)
                           (+) BagSumOver(LAMBDA b : One(b, k, of(BiasFrom(b, k))), m.bias)
       [] x = "P"       -> One("softmax", 0, <<v("scores", k)>>)
       [] x = "mixed"   -> IF Attention(k) THEN One("pv", 0, <<v("lin", k), v("scores", k)>>)
                           ELSE One("gelu", 0, <<v("lin", k)>>)
       [] x = "logits"  -> One("lm", k, <<v("ln_y", Top)>>)
       [] x = "dlogits" -> One("dloss", <<Label(m, k), Divisor(m)>>, <<v("logits", k)>>)
       [] x = "d_ln" /\ k = Top ->
            BagSumOver(LAMBDA r : One("lm_dx", r, <<v("dlogits", r)>>), Rows(m))
       [] x = "d_ln" /\ k # Top -> One("dA", <<"in", k>>, IntoLin(i, k))
       [] x = "dh"      -> StreamGradient(i)[k]
       [] x = "d_mixed" -> One("dA", <<"out", k>>, <<v("dh", k + 1)>>)
       [] x = "d_lin"   -> One("gelu_dx", 0, <<v("lin", k), v("d_mixed", k)>>)
       [] x = "dP"      -> One("dP", head, <<v("lin", half), v("d_mixed", half)>>)
       [] x = "dot"     -> One("dot", head, <<v("P", half), v("dP", k)>>)
       [] x = "dq"      -> heads(LAMBDA h : One("dQ", h, <<v("lin", k), v("P", k), v("dP", k * NH + h)>>))
       [] x = "dk"      -> heads(LAMBDA h : One("dK", h, <<v("lin", k), v("P", k), v("dP", k * NH + h), v("dot", k * NH + h)>>))
       [] x = "dv"      -> heads(LAMBDA h : One("dV", h, <<v("P", k), v("d_mixed", k)>>))

Params ==
  ({"w", "b"} \X {"in", "out"} \X Half)
  \cup ({"gamma", "beta"} \X {"ln"} \X (0 .. Top))
  \cup {<<"w", "wte", 0>>, <<"w", "wpe", 0>>}

\* What sequence i adds to the gradient of parameter p.
ReferenceGradient(m, i, p) ==
  LET v(y, j) == <<i, y, j>>
      k == p[3]
      upstream == IF p[2] = "out" THEN <<v("dh", k + 1)>> ELSE IntoLin(i, k)
      operand == IF p[2] = "out" THEN v("mixed", k) ELSE v("ln_y", k)
  IN CASE p[2] \in {"in", "out"} /\ p[1] = "w" -> One("dB", 0, <<operand>> \o upstream)
       [] p[2] \in {"in", "out"} /\ p[1] = "b" -> One("sum", 0, upstream)
       [] p[1] = "gamma" -> One("ln_dgamma", 0, <<v("xhat", k), v("d_ln", k)>>)
       [] p[1] = "beta"  -> One("sum", 0, <<v("d_ln", k)>>)
       [] p[2] = "wte"   -> BagSumOver(LAMBDA r : One("outer", r, <<v("dlogits", r), v("ln_y", Top)>>), Rows(m))
                            (+) One("embed_dw", 0, <<v("tokens", 0), v("dh", 0)>>)
       [] p[2] = "wpe"   -> One("sum_rows", 0, <<v("dh", 0)>>)

\* The loss of sequence i: one term per trained row.
ReferenceLoss(m, i) ==
  BagSumOver(LAMBDA r : One("loss", Label(m, r), <<<<i, "logits", r>>>>), Rows(m))
=============================================================================
