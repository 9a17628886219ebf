------------------------ MODULE SpeculativeRuntime ------------------------
(***************************************************************************)
(* The stream_decode command of the semantic kernel                        *)
(* (kxml-sk/semantic_kernel_cpp/src/runtime_loop.cpp): main_debug_stream   *)
(* fills the KV cache from the prompt, starts controlLoop on a detached    *)
(* thread and runs speculativeDecodeBatched on its own.  The two threads   *)
(* share the atomic knobs (knobs.h) and the credit scheduler (scheduler.h).*)
(*                                                                         *)
(* One action per access to shared state; what the decoder does between    *)
(* two such accesses touches only its own locals and is part of the next   *)
(* action.  A token is its origin: n > 0 is the n-th draft token of its    *)
(* round, Fallback the token picked at the first mismatch.  A cell of the  *)
(* KV cache holds the TempKV slot copied into it.  The verdict of          *)
(* verifyPrefixProb depends on the model's logits: it is an input here.    *)
(***************************************************************************)
EXTENDS Integers, Sequences

CONSTANTS InitialM,        \* Knobs::M before the control loop runs (4)
          InitialCredits,  \* credits of "verify" and "kv" at start (2)
          DraftCredits,    \* credits of the unused "draft" stage (4)
          KnobCap,         \* ceiling of M and of the credit knobs (8)
          PromptLen,       \* tokens prefilled by main_debug_stream (3)
          MaxTokens,       \* RuntimeState::max_tokens (16)
          MaxSeq           \* KVCache::max_seq (512)

ASSUME RuntimeAssumption ==
  /\ KnobCap \in Nat \ {0}
  /\ InitialM \in 1..KnobCap
  /\ InitialCredits \in 1..KnobCap
  /\ DraftCredits \in 1..KnobCap
  /\ PromptLen \in Nat
  /\ MaxTokens \in Nat
  /\ MaxSeq \in Nat

\* What main_debug_stream relies on and never checks: the cache has room for
\* the prompt, the tokens asked for and the overshoot of the last round.
ASSUME CacheAssumption == PromptLen + MaxTokens + KnobCap - 1 <= MaxSeq

VARIABLES
  stages,      \* g_scheduler's table
  knobs,       \* g_knobs: M, credits_verify, credits_kv
  ctl,         \* where the control loop is
  dec,         \* where the decoder is
  m,           \* length of the draft of this round
  accepted,    \* VerifyResult::accepted of this round
  tokens,      \* rt.tokens
  current_seq, \* rt.kv.current_seq
  cells        \* rt.kv, by position

vars == <<stages, knobs, ctl, dec, m, accepted, tokens, current_seq, cells>>

decoderVars == <<dec, m, accepted, tokens, current_seq, cells>>

Fallback == 0
Empty == -1                            \* the zero vectors of KVCache::init
StageIds == {"draft", "verify", "kv"}
Positions == 0..(MaxSeq - 1)
AtMost(x, y) == IF x < y THEN x ELSE y
AtLeast(x, y) == IF x > y THEN x ELSE y

HoldsVerify == dec \in {"verify", "acquire_kv", "commit", "release_kv",
                        "acquire_kv1", "commit1", "release_kv1",
                        "release_verify"}
HoldsKv == dec \in {"commit", "release_kv", "commit1", "release_kv1"}

\* Who holds a credit follows from where the decoder is.
Outstanding ==
  [s \in StageIds |-> IF \/ s = "verify" /\ HoldsVerify
                         \/ s = "kv" /\ HoldsKv
                       THEN 1 ELSE 0]

Sched == INSTANCE CreditScheduler WITH
           Stages <- StageIds, CreditCap <- KnobCap, Workers <- 1,
           outstanding <- Outstanding

-----------------------------------------------------------------------------
Init ==
  /\ stages = [s \in {} |-> 0]
  /\ knobs = [M |-> InitialM, credits_verify |-> InitialCredits,
              credits_kv |-> InitialCredits]
  /\ ctl = "idle"
  /\ dec = "init_draft"
  /\ m = 0
  /\ accepted = 0
  /\ tokens = <<>>
  /\ current_seq = 0
  /\ cells = [p \in Positions |-> Empty]

Goto(from, to) == dec = from /\ dec' = to

\* main_debug_stream: the three init_stage calls, then prefill and the
\* thread.  prefill writes zero vectors, which is what the cells hold.
BootStage(from, s, n, to) ==
  /\ Goto(from, to)
  /\ Sched!InitStage(s, n)
  /\ UNCHANGED <<knobs, ctl, m, accepted, tokens, current_seq, cells>>

Boot == \/ BootStage("init_draft", "draft", DraftCredits, "init_verify")
        \/ BootStage("init_verify", "verify", InitialCredits, "init_kv")
        \/ BootStage("init_kv", "kv", InitialCredits, "prefill")

Prefill ==
  /\ Goto("prefill", "loop")
  /\ current_seq' = current_seq + PromptLen
  /\ ctl' = "policy"
  /\ UNCHANGED <<stages, knobs, m, accepted, tokens, cells>>

-----------------------------------------------------------------------------
(* controlLoop.  Its readings of g_metrics are inputs: nothing in the      *)
(* repository writes them.  It is the only writer of the knobs, so only    *)
(* the two stores of M, which the decoder loads, have to be told apart.    *)
(* It is detached: when the decoder returns from main it is gone.          *)

CtlAt(from, to) == dec # "done" /\ ctl = from /\ ctl' = to

\* Variants with one slip each; see PROJECT.json, mutants.
GuardrailWithoutFloor ==
  /\ CtlAt("policy", "init_verify")
  /\ knobs' = [k \in DOMAIN knobs |-> AtLeast(0, knobs[k] - 1)]
  /\ UNCHANGED <<stages, decoderVars>>

PushUncapped ==
  /\ CtlAt("policy", "adapt")
  /\ knobs' = [k \in DOMAIN knobs |-> knobs[k] + 1]
  /\ UNCHANGED <<stages, decoderVars>>

\* p95 above the 120 ms target: every knob goes down, to 1 at the least.
Guardrail ==
  /\ CtlAt("policy", "init_verify")
  /\ knobs' = [k \in DOMAIN knobs |-> AtLeast(1, knobs[k] - 1)]
  /\ UNCHANGED <<stages, decoderVars>>

\* p95 within the target: with GPU headroom every knob goes up.
Push ==
  /\ CtlAt("policy", "adapt")
  /\ \/ knobs' = [k \in DOMAIN knobs |-> AtMost(KnobCap, knobs[k] + 1)]
     \/ UNCHANGED knobs
  /\ UNCHANGED <<stages, decoderVars>>

\* A second store of M in the same pass, from the acceptance rate.
Adapt ==
  /\ CtlAt("adapt", "init_verify")
  /\ \E M \in {AtMost(KnobCap, knobs.M + 1), AtLeast(1, knobs.M - 1), knobs.M} :
       knobs' = [knobs EXCEPT !.M = M]
  /\ UNCHANGED <<stages, decoderVars>>

\* The credits are applied with init_stage, also while the decoder holds one.
ApplyVerify ==
  /\ CtlAt("init_verify", "init_kv")
  /\ Sched!InitStage("verify", knobs.credits_verify)
  /\ UNCHANGED <<knobs, decoderVars>>

ApplyKv ==
  /\ CtlAt("init_kv", "policy")
  /\ Sched!InitStage("kv", knobs.credits_kv)
  /\ UNCHANGED <<knobs, decoderVars>>

ControlLoop == Guardrail \/ Push \/ Adapt \/ ApplyVerify \/ ApplyKv

-----------------------------------------------------------------------------
(* speculativeDecodeBatched.                                               *)

\* Variants with one slip each.
StartRoundOneMore ==
  /\ Len(tokens) <= MaxTokens
  /\ Goto("loop", "acquire_verify")
  /\ m' = knobs.M
  /\ UNCHANGED <<stages, knobs, ctl, accepted, tokens, current_seq, cells>>

EmitFallbackInPlace ==
  /\ Goto("release_kv1", "release_verify")
  /\ Sched!Release("kv")
  /\ tokens' = Append(tokens, Fallback)
  /\ UNCHANGED <<knobs, ctl, m, accepted, current_seq, cells>>

ReleaseVerifyForgotten ==
  /\ Goto("release_verify", "loop")
  /\ UNCHANGED <<stages, knobs, ctl, m, accepted, tokens, current_seq, cells>>

ReleaseWrongStage ==
  /\ Goto("release_verify", "loop")
  /\ Sched!Release("kv")
  /\ UNCHANGED <<knobs, ctl, m, accepted, tokens, current_seq, cells>>

\* The loop test, the load of M, the draft and its TempKV.
StartRound ==
  /\ Len(tokens) < MaxTokens
  /\ Goto("loop", "acquire_verify")
  /\ m' = knobs.M
  /\ UNCHANGED <<stages, knobs, ctl, accepted, tokens, current_seq, cells>>

Finish ==
  /\ Len(tokens) >= MaxTokens
  /\ Goto("loop", "done")
  /\ UNCHANGED <<stages, knobs, ctl, m, accepted, tokens, current_seq, cells>>

AcquireVerify ==
  /\ Goto("acquire_verify", "verify")
  /\ Sched!TryAcquire("verify")
  /\ UNCHANGED <<knobs, ctl, m, accepted, tokens, current_seq, cells>>

\* Attention batch, logits and verifyPrefixProb: some prefix is accepted.
VerifyPrefix ==
  /\ \E a \in 0..m : accepted' = a
  /\ Goto("verify", IF accepted' > 0 THEN "acquire_kv" ELSE "acquire_kv1")
  /\ UNCHANGED <<stages, knobs, ctl, m, tokens, current_seq, cells>>

AcquireKv ==
  /\ \/ Goto("acquire_kv", "commit")
     \/ Goto("acquire_kv1", "commit1")
  /\ Sched!TryAcquire("kv")
  /\ UNCHANGED <<knobs, ctl, m, accepted, tokens, current_seq, cells>>

\* commit_prefix_from_temp copies slots 1..n to current_seq onwards.
CommitPrefix(n) ==
  cells' = [p \in Positions |-> IF p - current_seq \in 0..(n - 1)
                                  THEN p - current_seq + 1 ELSE cells[p]]

Commit ==
  /\ \/ Goto("commit", "release_kv") /\ CommitPrefix(accepted)
     \/ Goto("commit1", "release_kv1") /\ CommitPrefix(1)
  /\ UNCHANGED <<stages, knobs, ctl, m, accepted, tokens, current_seq>>

\* The first a tokens of the draft.
DraftPrefix(a) == [i \in 1..a |-> i]

\* release("kv"), then the accepted tokens are pushed.
EmitAccepted ==
  /\ Goto("release_kv",
          IF accepted < m THEN "acquire_kv1" ELSE "release_verify")
  /\ Sched!Release("kv")
  /\ tokens' = tokens \o DraftPrefix(accepted)
  /\ current_seq' = current_seq + accepted
  /\ UNCHANGED <<knobs, ctl, m, accepted, cells>>

\* release("kv"), then the token chosen at the mismatch is pushed.
EmitFallback ==
  /\ Goto("release_kv1", "release_verify")
  /\ Sched!Release("kv")
  /\ tokens' = Append(tokens, Fallback)
  /\ current_seq' = current_seq + 1
  /\ UNCHANGED <<knobs, ctl, m, accepted, cells>>

\* updateStats and adjustM change a local M that the next round reloads.
ReleaseVerify ==
  /\ Goto("release_verify", "loop")
  /\ Sched!Release("verify")
  /\ UNCHANGED <<knobs, ctl, m, accepted, tokens, current_seq, cells>>

Decoder ==
  \/ Boot \/ Prefill \/ StartRound \/ Finish \/ AcquireVerify \/ VerifyPrefix
  \/ AcquireKv \/ Commit \/ EmitAccepted \/ EmitFallback \/ ReleaseVerify

Next == Decoder \/ ControlLoop

\* The decoder's thread is scheduled; its polls of try_acquire repeat.  No
\* fairness for the control loop: the decoder must not depend on it.
Fairness == WF_vars(Decoder)

Spec == Init /\ [][Next]_vars /\ Fairness

-----------------------------------------------------------------------------
DecoderPoints ==
  {"init_draft", "init_verify", "init_kv", "prefill", "loop", "acquire_verify",
   "verify", "acquire_kv", "commit", "release_kv", "acquire_kv1", "commit1",
   "release_kv1", "release_verify", "done"}

TypeOK ==
  /\ knobs \in [{"M", "credits_verify", "credits_kv"} -> 1..KnobCap]
  /\ ctl \in {"idle", "policy", "adapt", "init_verify", "init_kv"}
  /\ dec \in DecoderPoints
  /\ m \in 0..KnobCap
  /\ accepted \in 0..KnobCap
  /\ tokens \in Seq(0..KnobCap)
  /\ current_seq \in Nat
  /\ cells \in [Positions -> Empty..KnobCap]
  /\ DOMAIN stages \subseteq StageIds
  /\ stages \in [DOMAIN stages ->
                   [credits : 0..KnobCap, max_credits : 1..KnobCap]]

\* The cache slot a token's KV entry was copied from: its own draft slot, or
\* the first slot for the fallback token.
SlotOf(tok) == IF tok = Fallback THEN 1 ELSE tok

\* The KV cache and the token stream stay aligned: the position counter is
\* the prompt plus what was emitted, and the entry of every emitted token is
\* the one that was committed for it and not overwritten since.
KvAligned ==
  dec \notin {"init_draft", "init_verify", "init_kv", "prefill"} =>
    /\ current_seq = PromptLen + Len(tokens)
    /\ \A i \in 1..Len(tokens) :
         cells[PromptLen + i - 1] = SlotOf(tokens[i])

\* commit_from_temp has no bounds check: a commit that starts too late would
\* spill into the rows of the next head.  The overshoot of the last round is
\* what makes this close.
CommitInsideCache ==
  /\ dec = "commit" => current_seq + accepted <= MaxSeq
  /\ dec = "commit1" => current_seq + 1 <= MaxSeq

\* The decoder may emit more than max_tokens, but only by less than one
\* draft, even when the control loop changes M in the middle of a round.
OvershootBounded == Len(tokens) <= MaxTokens + KnobCap - 1

\* The two threads use the credit table as its specification allows: a
\* credit is given back only by the holder, once.
ImplementsScheduler == Sched!Spec

\* No credit of either stage is ever lost between a refill by the control
\* loop and a late release by the decoder.
NoCreditLost == Sched!NoCreditLost

\* Decoding ends, whatever the control loop does to the credits meanwhile.
DecodeTerminates == <>(dec = "done")
=============================================================================
