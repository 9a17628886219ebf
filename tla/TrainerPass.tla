----------------------------- MODULE TrainerPass -----------------------------
(***************************************************************************)
(* One GPU training step of gpt2_trainer.cpp up to the optimiser: zero the *)
(* gradients, then for each sequence of the batch a fixed program of some  *)
(* hundred dispatches over a few buffers that are used again and again.    *)
(* dh_buf_ holds both projections' outputs going forward and the gradient  *)
(* of the stream going back, lnf_y_buf_ the final LayerNorm and then three *)
(* different gradients, the first third of d_qkv_buf_ also d_ln2_y.        *)
(*                                                                         *)
(* A dispatch reads buffers bound as SRV and writes buffers bound as UAV.  *)
(* D3D11 unbinds an SRV of a buffer that is bound as UAV too, and the      *)
(* kernel then reads zeros: the two comments on a former defect of that    *)
(* kind (final LayerNorm, GELU) are why the buffers are copied around.     *)
(***************************************************************************)
EXTENDS TrainerReference

CONSTANTS
  Modes        \* [full, bias, S, n]: fullseq_, the enabled biases, batch shape

VARIABLES
  mode,        \* the configuration of this step
  seq,         \* the sequence of the batch being run, 0 before the first
  pc,          \* the next dispatch of the program
  buf,         \* buffer -> content
  total,       \* the losses read back so far
  lost         \* a staging buffer for the tokens could not be created

vars == <<mode, seq, pc, buf, total, lost>>

-----------------------------------------------------------------------------
(* Dispatches *)

\* One written buffer: `how` it is written, and the kernel's result from the
\* SRVs and from the UAVs the kernel reads back.
Eff(out, how, op, lit, srv, rw) ==
  [out |-> out, how |-> how, op |-> op, lit |-> lit, srv |-> srv, rw |-> rw]
Put(out, op, lit, srv) == Eff(out, "set", op, lit, srv, << >>)
Acc(out, op, lit, srv) == Eff(out, "add", op, lit, srv, << >>)

Bind(effects, dummies) == [effects |-> effects, uav |-> {e.out : e \in effects} \cup dummies]
Run1(effects) == Bind(effects, {})

\* "id" sums its sources: ClearUnorderedAccessView has none, CopyResource one.
Zero(b) == Run1({Put(b, "id", 0, << >>)})
CopyResource(to, from) == Run1({Put(to, "id", 0, <<from>>)})

dh == <<"dh", 0>>
lnf == <<"ln_y", Top>>          \* lnf_y_buf_
d_mlp == <<"d_mlp", 0>>
dP == <<"dP_tmp", 0>>
dot == <<"dot_row", 0>>
logits == <<"logits", 0>>
dlogits == <<"dlogits", 0>>
loss == <<"loss", 0>>
d_qkv(third) == <<"d_qkv", third>>
ZeroQkv == [t \in 1 .. 3 |-> Zero(d_qkv(t - 1))]

\* h_buf_[l]: the halves of layer l work on h_buf_[l] and h_buf_[l + 1].
hidden(l) == <<"h", l>>

-----------------------------------------------------------------------------
(* The forward pass *)

LayerNorm(k, from) ==
  << Run1({Put(<<x, k>>, x, k, <<from>>) : x \in {"ln_y", "xhat", "inv"}}) >>

MatMul(to, lit, from) == << Zero(to), Run1({Acc(to, "mm", lit, <<from>>)}) >>

BiasPasses(m, k) ==
  LET pass(b) == IF b \in m.bias
                 THEN << Run1({Acc(<<"P", k>>, b, k, BiasFrom(b, k))}) >> ELSE << >>
  IN pass("gravity") \o pass("fold") \o pass("think")

AttentionForward(m, k) ==
  LET l == k \div 2 IN
  LayerNorm(k, hidden(l))
  \o MatMul(<<"lin", k>>, <<"in", k>>, <<"ln_y", k>>)
  \o << Run1({Put(<<"P", k>>, "qk", 0, <<<<"lin", k>>>>)}) >>
  \o BiasPasses(m, k)
  \o << Zero(<<"mixed", k>>),
        Run1({Eff(<<"P", k>>, "set", "softmax", 0, << >>, <<<<"P", k>>>>),
              Eff(<<"mixed", k>>, "add", "pv", 0, <<<<"lin", k>>>>, <<<<"P", k>>>>)}) >>
  \o MatMul(dh, <<"out", k>>, <<"mixed", k>>)
  \o << Run1({Put(hidden(l + 1), "id", 0, <<hidden(l), dh>>)}) >>

MlpForward(k) ==
  LET l == k \div 2 IN
  LayerNorm(k, hidden(l + 1))
  \o MatMul(<<"lin", k>>, <<"in", k>>, <<"ln_y", k>>)
  \o << Zero(<<"mixed", k>>), Run1({Acc(<<"mixed", k>>, "gelu", 0, <<<<"lin", k>>>>)}) >>
  \o MatMul(dh, <<"out", k>>, <<"mixed", k>>)
  \o << Run1({Acc(hidden(l + 1), "id", 0, <<dh>>)}) >>

LmHead(m, r) ==
  << Zero(logits), Run1({Acc(logits, "lm", r, <<lnf>>)}),
     Run1({Put(dlogits, "dloss", <<Label(m, r), Divisor(m)>>, <<logits>>),
           Put(loss, "loss", Label(m, r), <<logits>>)}) >>

Forward(m) ==
  (IF "fold" \in m.bias THEN << Run1({Put(<<"sorted", 0>>, "argsort", 0, <<<<"bones", 0>>>>)}) >>
   ELSE << >>)
  \o << Zero(hidden(0)), Run1({Acc(hidden(0), "embed", 0, <<<<"tokens", 0>>>>)}) >>
  \o FlattenSeq([j \in 1 .. Top |-> IF Attention(j - 1) THEN AttentionForward(m, j - 1)
                                     ELSE MlpForward(j - 1)])
  \o LayerNorm(Top, hidden(NL))
  \o LmHead([m EXCEPT !.full = FALSE], m.S - 2)
-----------------------------------------------------------------------------
(* The backward pass *)

w(x, k) == <<"w", x, k>>
b(x, k) == <<"b", x, k>>

\* mmBwdA and mmBwdB bind loss_buf_ as the UAV their kernel leaves alone.
mmBwdA(to, lit, from) == Bind({Acc(to, "dA", lit, from)}, {loss})
mmBwdB(to, operand, from) == Bind({Acc(to, "dB", 0, <<operand>> \o from)}, {loss})
biasBwd(to, from) == Run1({Acc(to, "sum", 0, from)})

\* lnBwd: the gradient of the input is added to dh_buf_, then the parameters.
lnBwd(k, dout) ==
  << Run1({Acc(dh, "ln_dx", k, <<<<"xhat", k>>, dout, <<"inv", k>>>>)}),
     Run1({Acc(<<"gamma", "ln", k>>, "ln_dgamma", 0, <<<<"xhat", k>>, dout>>),
           Acc(<<"beta", "ln", k>>, "sum", 0, <<dout>>)}) >>

\* d_wte and the gradient of one row of the final LayerNorm.
OuterWte(r) == << Run1({Acc(w("wte", 0), "outer", r, <<dlogits, lnf>>)}) >>
IntoRow(r) == << Run1({Acc(dh, "lm_dx", r, <<dlogits>>)}) >>

\* Variant: the destination offset of the row's loss is left out.
RecordLossAtZero(r) == << CopyResource(<<"loss_all", 0>>, loss) >>

\* The loss of row r, kept without stalling the CPU.
RecordLoss(r) == << CopyResource(<<"loss_all", r>>, loss) >>

HeadBackward(m) ==
  IF m.full
  THEN << Zero(dh) >>
       \o FlattenSeq([j \in 1 .. m.S |-> LmHead(m, j - 1) \o RecordLoss(j - 1)
                                         \o OuterWte(j - 1) \o IntoRow(j - 1)])
  ELSE OuterWte(m.S - 2) \o << Zero(dh) >> \o IntoRow(m.S - 2)

\* Variant: d_lnf_y stays in dh_buf_, bound as SRV and as UAV.
FinalNormInPlace == lnBwd(Top, dh)

\* d_lnf_y moves to lnf_y_buf_, idle by now, since dh_buf_ is the UAV.
FinalNormBackward == << CopyResource(lnf, dh), Zero(dh) >> \o lnBwd(Top, lnf)

MlpBackward(k) ==
  << mmBwdB(w("out", k), <<"mixed", k>>, <<dh>>), biasBwd(b("out", k), <<dh>>),
     Zero(d_mlp), mmBwdA(d_mlp, <<"out", k>>, <<dh>>),
     Run1({Eff(d_mlp, "set", "gelu_dx", 0, <<<<"lin", k>>>>, <<d_mlp>>)}),
     mmBwdB(w("in", k), <<"ln_y", k>>, <<d_mlp>>), biasBwd(b("in", k), <<d_mlp>>),
     Zero(d_qkv(0)), mmBwdA(d_qkv(0), <<"in", k>>, <<d_mlp>>) >>
  \o lnBwd(k, d_qkv(0))

\* The three kernels of one head all bind d_qkv_buf_, dP_tmp_buf_, dot_row_buf_.
HeadAttention(k, h) ==
  LET lin == <<"lin", k>>
      P == <<"P", k>>
      bound == {d_qkv(0), dP, dot}
  IN << Zero(dP), Zero(dot),
        Bind({Acc(d_qkv(2), "dV", h, <<P, lnf>>), Put(dP, "dP", h, <<lin, lnf>>)}, bound),
        Bind({Eff(d_qkv(0), "add", "dQ", h, <<lin, P>>, <<dP>>),
              Eff(dot, "set", "dot", h, <<P>>, <<dP>>)}, bound),
        Bind({Eff(d_qkv(1), "add", "dK", h, <<lin, P>>, <<dP, dot>>)}, bound) >>

AttentionBackward(k) ==
  LET all == <<d_qkv(0), d_qkv(1), d_qkv(2)>> IN
  << mmBwdB(w("out", k), <<"mixed", k>>, <<dh>>), biasBwd(b("out", k), <<dh>>),
     Zero(lnf), mmBwdA(lnf, <<"out", k>>, <<dh>>) >>
  \o ZeroQkv
  \o FlattenSeq([h \in 1 .. NH |-> HeadAttention(k, h - 1)])
  \o << mmBwdB(w("in", k), <<"ln_y", k>>, all), biasBwd(b("in", k), all),
        Zero(lnf), mmBwdA(lnf, <<"in", k>>, all) >>
  \o lnBwd(k, lnf)

EmbedBackward ==
  << Run1({Acc(w("wte", 0), "embed_dw", 0, <<<<"tokens", 0>>, dh>>),
           Acc(w("wpe", 0), "sum_rows", 0, <<dh>>)}) >>

\* gpuForwardBackward after the tokens are uploaded.
Program(m) ==
  Forward(m) \o HeadBackward(m) \o FinalNormBackward
  \o FlattenSeq([j \in 1 .. Top |-> IF Attention(Top - j) THEN AttentionBackward(Top - j)
                                     ELSE MlpBackward(Top - j)])
  \o EmbedBackward

-----------------------------------------------------------------------------
(* Contents *)

\* The thirds of d_qkv_buf_ are one resource.
Resource(x) == IF x[1] = "d_qkv" THEN d_qkv(0) ELSE x

Wrong == <<0, "wrong", 0>>       \* no array of the reference holds this
Nulled == <<0, "zeros", 0>>      \* an SRV unbound by D3D11

\* Tables, and @@ to have TLC evaluate them once.
Table(f) == f @@ << >>

Programs == Table([m \in Modes |-> Program(m)])
Buffers == Params \cup {e.out : e \in UNION {d.effects : d \in UNION {Range(Programs[m]) : m \in Modes}}}
           \cup {<<"tokens", 0>>, <<"bones", 0>>}
           \cup {<<"loss_all", r>> : r \in 0 .. Max({m.S : m \in Modes}) - 1}

References == Table([m \in Modes |-> Table(
  [x \in {<<i>> \o y : i \in 1 .. m.n, y \in Names(m)} |-> Value(m, x[1], x[2], x[3])])])

\* The array of the reference with this content.
NameOf(content) ==
  IF \E x \in DOMAIN References[mode] : References[mode][x] = content
  THEN CHOOSE x \in DOMAIN References[mode] : References[mode][x] = content
  ELSE Wrong

\* What the effect adds to or leaves in its buffer, dispatched as part of d.
Result(d, e) ==
  LET taken == {Resource(x) : x \in d.uav}
      read(x) == IF Resource(x) \in taken THEN Nulled ELSE NameOf(buf[x])
      back(x) == NameOf(buf[x])
  IN IF e.op = "id"
     THEN FoldLeft(LAMBDA acc, x : acc (+) buf[x], EmptyBag, e.srv)
     ELSE One(e.op, e.lit, [j \in DOMAIN e.srv |-> read(e.srv[j])]
                           \o [j \in DOMAIN e.rw |-> back(e.rw[j])])

-----------------------------------------------------------------------------
(* Steps *)

\* Nothing is known of a buffer's content: it is that of an earlier step.
Init ==
  /\ mode \in Modes
  /\ seq = 0 /\ pc = 1
  /\ buf = [x \in Buffers |-> One("stale", 0, << >>)]
  /\ total = EmptyBag
  /\ lost = FALSE

\* train_step: zeroGPUGrads.
ZeroGPUGrads ==
  /\ seq = 0
  /\ buf' = [x \in Buffers |->
               IF x \in Params \cup {dh, d_mlp, dP, dot, logits} \cup {d_qkv(t) : t \in 0 .. 2}
               THEN EmptyBag ELSE buf[x]]
  /\ seq' = 1 /\ pc' = 0
  /\ UNCHANGED <<mode, total, lost>>

\* The tokens go through a staging buffer; without one the old tokens stay.
UploadTokens ==
  /\ seq \in 1 .. mode.n /\ pc = 0
  /\ \E ok \in BOOLEAN :
       /\ buf' = [x \in Buffers |->
                    IF x = <<"tokens", 0>> /\ ok THEN One("upload", seq, << >>)
                    ELSE IF x = <<"bones", 0>> /\ mode.bias # {} THEN One("build", seq, << >>)
                    ELSE buf[x]]
       /\ lost' = (lost \/ ~ok)
  /\ pc' = 1
  /\ UNCHANGED <<mode, seq, total>>

Dispatch ==
  /\ seq \in 1 .. mode.n /\ pc \in 1 .. Len(Programs[mode])
  /\ LET d == Programs[mode][pc]
         written(x) == CHOOSE e \in d.effects : e.out = x
     IN buf' = [x \in Buffers |->
                  IF ~\E e \in d.effects : e.out = x THEN buf[x]
                  ELSE IF written(x).how = "set" THEN Result(d, written(x))
                  ELSE buf[x] (+) Result(d, written(x))]
  /\ pc' = pc + 1
  /\ UNCHANGED <<mode, seq, total, lost>>

\* The loss is read back: loss_buf_, or one record per row.
ReadbackLoss ==
  /\ seq \in 1 .. mode.n /\ pc = Len(Programs[mode]) + 1
  /\ total' = total (+) (IF mode.full
                         THEN BagSumOver(LAMBDA r : buf[<<"loss_all", r>>], 0 .. mode.S - 1)
                         ELSE buf[loss])
  /\ seq' = seq + 1 /\ pc' = 0
  /\ UNCHANGED <<mode, buf, lost>>

Next == ZeroGPUGrads \/ UploadTokens \/ Dispatch \/ ReadbackLoss

Spec == Init /\ [][Next]_vars

-----------------------------------------------------------------------------
(* Properties *)

Finished == seq = mode.n + 1 /\ ~lost

\* After the batch the gradient buffer of every parameter holds exactly what
\* the CPU path accumulates for the same sequences, extended by the biases and
\* rows it has not where the mode has them: no dispatch read a buffer
\* after its next use began, read one it was writing, added to a buffer nobody
\* cleared or left out a contribution.
GradientsAgree ==
  Finished => \A p \in Params :
    buf[p] = BagSumOver(LAMBDA i : ReferenceGradient(mode, i, p), 1 .. mode.n)

\* The loss a step reports is that of its own sequences, row for row, though
\* loss_buf_ serves as dummy UAV through the whole backward pass.
LossReported ==
  Finished => total = BagSumOver(LAMBDA i : ReferenceLoss(mode, i), 1 .. mode.n)

\* Every row is trained towards the token after it, which its hidden state
\* has not seen; the fullseq_ loop says it follows the last-position path.
TargetUnseen ==
  Finished => \A t \in BagToSet(total) : t[2] > t[3][1][3]
=============================================================================
