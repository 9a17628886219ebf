---------------------- MODULE SpeculativeRuntimeProofs ----------------------
(* Proofs about SpeculativeRuntime, for any knobs, prompt, token limit and *)
(* cache size that satisfy the assumptions of that module.                 *)
EXTENDS SpeculativeRuntime, TLAPS

Booting == dec \in {"init_draft", "init_verify", "init_kv", "prefill"}

\* Nothing was emitted before the prompt is in the cache.
BootInv == Booting => current_seq = 0 /\ tokens = <<>>

\* How long the output can be at each point of a round.
RoundInv ==
  /\ dec \in {"acquire_verify", "verify", "acquire_kv", "commit", "release_kv"}
       => Len(tokens) + 1 <= MaxTokens
  /\ dec \in {"acquire_verify", "verify"} => m >= 1
  /\ dec \in {"acquire_kv", "commit", "release_kv"} => accepted <= m
  /\ dec \in {"acquire_kv1", "commit1", "release_kv1"}
       => accepted < m /\ Len(tokens) + 1 <= MaxTokens + accepted

\* What Commit wrote and EmitAccepted or EmitFallback has still to push.
PendingInv ==
  /\ dec = "release_kv" =>
       \A i \in 1..accepted : cells[current_seq + i - 1] = i
  /\ dec = "release_kv1" => cells[current_seq] = 1

IInv == /\ TypeOK
        /\ BootInv
        /\ RoundInv
        /\ PendingInv
        /\ KvAligned
        /\ OvershootBounded

-----------------------------------------------------------------------------
(* The credit table.                                                       *)

StagesOK == /\ DOMAIN stages \subseteq StageIds
            /\ stages \in [DOMAIN stages ->
                             [credits : 0..KnobCap, max_credits : 1..KnobCap]]

\* Each method of the scheduler keeps the table well formed.
LEMMA InitStageTyped ==
  ASSUME StagesOK, NEW s \in StageIds, NEW n \in 1..KnobCap, Sched!InitStage(s, n)
  PROVE  StagesOK'
  BY RuntimeAssumption DEF StagesOK, Sched!InitStage

LEMMA TryAcquireTyped ==
  ASSUME StagesOK, NEW s \in StageIds, Sched!TryAcquire(s)
  PROVE  StagesOK'
<1>1. stages[s] \in [credits : 0..KnobCap, max_credits : 1..KnobCap]
  BY DEF StagesOK, Sched!TryAcquire
<1>2. stages[s].credits - 1 \in 0..KnobCap
  BY <1>1, RuntimeAssumption DEF Sched!TryAcquire
<1> QED BY <1>1, <1>2 DEF StagesOK, Sched!TryAcquire

LEMMA ReleaseTyped ==
  ASSUME StagesOK, NEW s \in StageIds, Sched!Release(s)
  PROVE  StagesOK'
<1>1. CASE s \notin DOMAIN stages
  BY <1>1 DEF StagesOK, Sched!Release
<1>2. CASE s \in DOMAIN stages
  <2>1. stages[s] \in [credits : 0..KnobCap, max_credits : 1..KnobCap]
    BY <1>2 DEF StagesOK
  <2> DEFINE c == IF stages[s].credits + 1 <= stages[s].max_credits
                    THEN stages[s].credits + 1 ELSE stages[s].max_credits
  <2>2. c \in 0..KnobCap
    BY <2>1, RuntimeAssumption
  <2>3. stages' = [stages EXCEPT ![s].credits = c]
    BY <1>2 DEF Sched!Release
  <2> HIDE DEF c
  <2> QED BY <1>2, <2>1, <2>2, <2>3 DEF StagesOK
<1> QED BY <1>1, <1>2

-----------------------------------------------------------------------------
(* The token stream.                                                       *)

\* Pushing a accepted draft tokens appends 1, 2, ..., a.
LEMMA PushDraft ==
  ASSUME NEW s \in Seq(0..KnobCap), NEW a \in 0..KnobCap
  PROVE  /\ s \o DraftPrefix(a) \in Seq(0..KnobCap)
         /\ Len(s \o DraftPrefix(a)) = Len(s) + a
         /\ \A i \in 1..Len(s) : (s \o DraftPrefix(a))[i] = s[i]
         /\ \A i \in 1..a : (s \o DraftPrefix(a))[Len(s) + i] = i
<1>1. DraftPrefix(a) \in Seq(0..KnobCap) /\ Len(DraftPrefix(a)) = a
  BY RuntimeAssumption DEF DraftPrefix
<1>2. \A i \in 1..a : DraftPrefix(a)[i] = i
  BY DEF DraftPrefix
<1> QED BY <1>1, <1>2

-----------------------------------------------------------------------------
LEMMA InitEstablishes == Init => IInv
  BY RuntimeAssumption, CacheAssumption
     DEF Init, IInv, TypeOK, BootInv, Booting, RoundInv, PendingInv, KvAligned,
         OvershootBounded, DecoderPoints, Empty, Positions

\* The arithmetic facts that the invariant gives about a round.
LEMMA RoundFacts ==
  ASSUME IInv
  PROVE  /\ KnobCap \in Nat \ {0} /\ PromptLen \in Nat
         /\ MaxTokens \in Nat /\ MaxSeq \in Nat
         /\ m \in 0..KnobCap /\ accepted \in 0..KnobCap
         /\ tokens \in Seq(0..KnobCap)
         /\ Len(tokens) \in Nat /\ current_seq \in Nat
         /\ ~Booting => current_seq = PromptLen + Len(tokens)
  BY RuntimeAssumption DEF IInv, TypeOK, KvAligned, Booting

\* A step of main_debug_stream before the loop.
LEMMA BootStep ==
  ASSUME IInv, Boot \/ Prefill
  PROVE  IInv'
<1>1. StagesOK'
  BY InitStageTyped, RuntimeAssumption
     DEF IInv, TypeOK, StagesOK, Boot, BootStage, Prefill, StageIds
<1>2. UNCHANGED <<knobs, m, accepted, tokens, cells>>
  BY DEF Boot, BootStage, Prefill
<1>3. /\ ctl' \in {ctl, "policy"}
      /\ \/ Booting /\ Booting' /\ current_seq' = current_seq
         \/ Booting /\ dec' = "loop" /\ current_seq' = current_seq + PromptLen
  BY DEF Boot, BootStage, Prefill, Goto, Booting
<1>4. TypeOK'
  <2>1. ctl' \in {"idle", "policy", "adapt", "init_verify", "init_kv"}
    BY <1>3 DEF IInv, TypeOK
  <2>2. dec' \in DecoderPoints
    BY <1>3 DEF Booting, DecoderPoints
  <2>3. current_seq' \in Nat
    BY <1>3, RoundFacts
  <2>4. /\ m' \in 0..KnobCap /\ accepted' \in 0..KnobCap
        /\ knobs' \in [{"M", "credits_verify", "credits_kv"} -> 1..KnobCap]
        /\ tokens' \in Seq(0..KnobCap)
        /\ cells' \in [Positions -> Empty..KnobCap]
    BY <1>2 DEF IInv, TypeOK
  <2> QED BY <1>1, <2>1, <2>2, <2>3, <2>4 DEF TypeOK, StagesOK
<1>5. BootInv' /\ RoundInv' /\ PendingInv' /\ OvershootBounded'
  BY <1>2, <1>3 DEF IInv, BootInv, Booting, RoundInv, PendingInv, OvershootBounded
<1>6. KvAligned'
  <2>1. CASE Booting'
    BY <2>1 DEF KvAligned, Booting
  <2>2. CASE ~Booting'
    <3>1. tokens' = <<>> /\ Len(tokens') = 0 /\ current_seq' = PromptLen
      BY <1>2, <1>3, <2>2, RuntimeAssumption DEF IInv, BootInv
    <3> QED BY <3>1, RuntimeAssumption DEF KvAligned
  <2> QED BY <2>1, <2>2
<1> QED BY <1>4, <1>5, <1>6 DEF IInv

\* A step of the control loop changes nothing the decoder has in hand.
LEMMA ControlStep ==
  ASSUME IInv, ControlLoop
  PROVE  IInv'
<1>1. StagesOK'
  <2>1. ASSUME ApplyVerify PROVE StagesOK'
    BY <2>1, InitStageTyped DEF IInv, TypeOK, StagesOK, ApplyVerify, StageIds
  <2>2. ASSUME ApplyKv PROVE StagesOK'
    BY <2>2, InitStageTyped DEF IInv, TypeOK, StagesOK, ApplyKv, StageIds
  <2>3. ASSUME Guardrail \/ Push \/ Adapt PROVE StagesOK'
    BY <2>3 DEF IInv, TypeOK, StagesOK, Guardrail, Push, Adapt
  <2> QED BY <2>1, <2>2, <2>3 DEF ControlLoop
<1>2. UNCHANGED decoderVars
  BY DEF ControlLoop, Guardrail, Push, Adapt, ApplyVerify, ApplyKv
<1>3. ctl' \in {"policy", "adapt", "init_verify", "init_kv"}
  BY DEF ControlLoop, Guardrail, Push, Adapt, ApplyVerify, ApplyKv, CtlAt
<1>4. knobs' \in [{"M", "credits_verify", "credits_kv"} -> 1..KnobCap]
  <2>1. /\ DOMAIN knobs = {"M", "credits_verify", "credits_kv"}
        /\ knobs \in [DOMAIN knobs -> 1..KnobCap]
    BY DEF IInv, TypeOK
  <2>2. \A n \in 1..KnobCap : /\ AtLeast(1, n - 1) \in 1..KnobCap
                              /\ AtMost(KnobCap, n + 1) \in 1..KnobCap
    BY RuntimeAssumption DEF AtLeast, AtMost
  <2>3. ASSUME Guardrail \/ Push
        PROVE  knobs' \in [DOMAIN knobs -> 1..KnobCap]
    BY <2>1, <2>2, <2>3 DEF Guardrail, Push
  <2>4. ASSUME Adapt
        PROVE  knobs' \in [DOMAIN knobs -> 1..KnobCap]
    <3>1. PICK M \in {AtMost(KnobCap, knobs.M + 1), AtLeast(1, knobs.M - 1), knobs.M} :
            knobs' = [knobs EXCEPT !.M = M]
      BY <2>4 DEF Adapt
    <3>2. M \in 1..KnobCap
      BY <2>1, <2>2, <3>1
    <3> QED BY <2>1, <3>1, <3>2
  <2>5. ASSUME ApplyVerify \/ ApplyKv
        PROVE  knobs' = knobs
    BY <2>5 DEF ApplyVerify, ApplyKv
  <2> QED BY <2>1, <2>3, <2>4, <2>5 DEF ControlLoop
<1>5. TypeOK'
  BY <1>1, <1>2, <1>3, <1>4 DEF IInv, TypeOK, StagesOK, decoderVars
<1> QED
  BY <1>2, <1>5 DEF IInv, decoderVars, BootInv, Booting, RoundInv, PendingInv,
                    KvAligned, OvershootBounded

\* A step of the decoder that neither writes the cache nor emits a token.
LEMMA QuietStep ==
  ASSUME IInv,
         StartRound \/ Finish \/ AcquireVerify \/ VerifyPrefix \/ AcquireKv
           \/ ReleaseVerify
  PROVE  IInv'
<1>1. StagesOK'
  <2>1. ASSUME AcquireVerify \/ AcquireKv PROVE StagesOK'
    BY <2>1, TryAcquireTyped
       DEF IInv, TypeOK, StagesOK, AcquireVerify, AcquireKv, StageIds
  <2>2. ASSUME ReleaseVerify PROVE StagesOK'
    BY <2>2, ReleaseTyped DEF IInv, TypeOK, StagesOK, ReleaseVerify, StageIds
  <2>3. ASSUME StartRound \/ Finish \/ VerifyPrefix PROVE StagesOK'
    BY <2>3 DEF IInv, TypeOK, StagesOK, StartRound, Finish, VerifyPrefix
  <2> QED BY <2>1, <2>2, <2>3
<1>2. UNCHANGED <<knobs, ctl, tokens, current_seq, cells>>
  BY DEF StartRound, Finish, AcquireVerify, VerifyPrefix, AcquireKv, ReleaseVerify
<1>3. Len(tokens) \in Nat
  BY DEF IInv, TypeOK
<1>4. TypeOK'
  <2>1. CASE StartRound
    <3>1. m' \in 1..KnobCap /\ accepted' = accepted /\ dec' \in DecoderPoints
      BY <2>1 DEF StartRound, IInv, TypeOK, Goto, DecoderPoints
    <3>2. m' \in 0..KnobCap
      BY <3>1, RoundFacts
    <3> QED
      BY <1>1, <1>2, <3>1, <3>2 DEF IInv, TypeOK, StagesOK
  <2>2. CASE VerifyPrefix
    <3>1. accepted' \in 0..m /\ m' = m /\ dec' \in DecoderPoints
      BY <2>2 DEF VerifyPrefix, Goto, DecoderPoints
    <3>2. accepted' \in 0..KnobCap
      BY <3>1, RoundFacts
    <3> QED
      BY <1>1, <1>2, <3>1, <3>2 DEF IInv, TypeOK, StagesOK
  <2>3. CASE Finish \/ AcquireVerify \/ AcquireKv \/ ReleaseVerify
    BY <1>1, <1>2, <2>3
       DEF IInv, TypeOK, StagesOK, Finish, AcquireVerify, AcquireKv, ReleaseVerify,
           Goto, DecoderPoints
  <2> QED
    BY <2>1, <2>2, <2>3
<1>5. RoundInv'
  <2>1. CASE StartRound
    <3>1. m' \in 1..KnobCap
      BY <2>1 DEF StartRound, IInv, TypeOK
    <3> QED BY <2>1, <3>1, <1>3, RoundFacts DEF RoundInv, StartRound, Goto
  <2>2. CASE VerifyPrefix
    <3>1. accepted' \in 0..m /\ m' = m /\ tokens' = tokens /\ dec = "verify"
      BY <2>2 DEF VerifyPrefix, Goto
    <3>2. dec' = IF accepted' > 0 THEN "acquire_kv" ELSE "acquire_kv1"
      BY <2>2 DEF VerifyPrefix, Goto
    <3>3. m >= 1 /\ Len(tokens) + 1 <= MaxTokens
      BY <3>1 DEF IInv, RoundInv
    <3> QED BY <3>1, <3>2, <3>3, RoundFacts DEF RoundInv
  <2>3. CASE Finish \/ AcquireVerify \/ AcquireKv \/ ReleaseVerify
    BY <2>3, <1>2 DEF IInv, RoundInv, Finish, AcquireVerify, AcquireKv,
                      ReleaseVerify, Goto
  <2> QED BY <2>1, <2>2, <2>3
<1>6. PendingInv' /\ BootInv' /\ KvAligned' /\ OvershootBounded'
  BY <1>2 DEF IInv, BootInv, Booting, PendingInv, KvAligned, OvershootBounded,
              StartRound, Finish, AcquireVerify, VerifyPrefix, AcquireKv,
              ReleaseVerify, Goto
<1> QED BY <1>4, <1>5, <1>6 DEF IInv

\* Commit writes the slots that PendingInv promises, beyond the emitted part.
LEMMA CommitStep ==
  ASSUME IInv, Commit
  PROVE  IInv'
<1>1. UNCHANGED <<stages, knobs, ctl, m, accepted, tokens, current_seq>>
  BY DEF Commit
<1>2. PICK n \in 0..KnobCap :
        /\ CommitPrefix(n)
        /\ \/ dec = "commit" /\ dec' = "release_kv" /\ n = accepted
           \/ dec = "commit1" /\ dec' = "release_kv1" /\ n = 1
    BY RoundFacts DEF Commit, Goto
<1>3. /\ current_seq = PromptLen + Len(tokens)
      /\ Len(tokens) \in Nat /\ current_seq \in Nat /\ PromptLen \in Nat
      /\ MaxSeq \in Nat
      /\ current_seq + n <= MaxSeq
  <2>1. ~Booting
    BY <1>2 DEF Booting
  <2>2. /\ KnobCap \in Nat /\ PromptLen \in Nat /\ MaxTokens \in Nat /\ MaxSeq \in Nat
        /\ m \in 0..KnobCap /\ accepted \in 0..KnobCap
        /\ current_seq = PromptLen + Len(tokens) /\ Len(tokens) \in Nat
    BY <2>1, RoundFacts
  <2>3. CASE dec = "commit"
    <3>1. n = accepted /\ accepted <= m /\ Len(tokens) + 1 <= MaxTokens
      BY <2>3, <1>2 DEF IInv, RoundInv
    <3> QED
      BY <2>2, <3>1, CacheAssumption
  <2>4. CASE dec = "commit1"
    <3>1. n = 1 /\ accepted < m /\ Len(tokens) + 1 <= MaxTokens + accepted
      BY <2>4, <1>2 DEF IInv, RoundInv
    <3> QED
      BY <2>2, <3>1, CacheAssumption
  <2> QED BY <2>3, <2>4, <1>2
<1>4. /\ cells' \in [Positions -> Empty..KnobCap]
      /\ \A i \in 1..n : cells'[current_seq + i - 1] = i
      /\ \A p \in Positions : p < current_seq => cells'[p] = cells[p]
  <2>1. cells' = [p \in Positions |-> IF p - current_seq \in 0..(n - 1)
                                       THEN p - current_seq + 1 ELSE cells[p]]
    BY <1>2 DEF CommitPrefix
  <2>2. ASSUME NEW p \in Positions
        PROVE  /\ cells'[p] \in Empty..KnobCap
               /\ p < current_seq => cells'[p] = cells[p]
    <3>1. p \in Int /\ cells[p] \in Empty..KnobCap
      BY DEF IInv, TypeOK, Positions
    <3>2. CASE p - current_seq \in 0..(n - 1)
      <4>1. cells'[p] = p - current_seq + 1
        BY <2>1, <3>2
      <4>2. p - current_seq + 1 \in 1..n
        BY <3>1, <3>2, <1>3
      <4>3. p - current_seq + 1 \in Empty..KnobCap
        BY <4>2, RoundFacts DEF Empty
      <4>4. ~(p < current_seq)
        BY <3>1, <3>2, <1>3
      <4> QED BY <4>1, <4>3, <4>4
    <3>3. CASE p - current_seq \notin 0..(n - 1)
      BY <2>1, <3>1, <3>3
    <3> QED BY <3>2, <3>3
  <2>3. ASSUME NEW i \in 1..n
        PROVE  cells'[current_seq + i - 1] = i
    <3>1. /\ current_seq + i - 1 \in Positions
          /\ (current_seq + i - 1) - current_seq \in 0..(n - 1)
          /\ (current_seq + i - 1) - current_seq + 1 = i
      BY <1>3 DEF Positions
    <3> QED BY <2>1, <3>1
  <2> QED BY <2>1, <2>2, <2>3
<1>5. TypeOK' /\ RoundInv' /\ BootInv' /\ OvershootBounded'
  <2>1. TypeOK'
    BY <1>1, <1>2, <1>4 DEF IInv, TypeOK, DecoderPoints
  <2>2. RoundInv' /\ BootInv' /\ OvershootBounded'
    BY <1>1, <1>2 DEF IInv, RoundInv, BootInv, Booting, OvershootBounded
  <2> QED BY <2>1, <2>2
<1>6. PendingInv'
  BY <1>1, <1>2, <1>3, <1>4 DEF PendingInv
<1>7. KvAligned'
  <2>1. ASSUME NEW i \in 1..Len(tokens)
        PROVE  cells'[PromptLen + i - 1] = SlotOf(tokens[i])
    <3>1. PromptLen + i - 1 \in Positions /\ PromptLen + i - 1 < current_seq
      BY <1>2, <1>3, RuntimeAssumption DEF Positions
    <3>2. cells[PromptLen + i - 1] = SlotOf(tokens[i])
      BY <1>2 DEF IInv, KvAligned
    <3> QED BY <1>4, <3>1, <3>2
  <2> QED BY <1>1, <1>3, <2>1 DEF KvAligned
<1> QED BY <1>5, <1>6, <1>7 DEF IInv

\* The accepted prefix is emitted: its cache entries are already in place.
LEMMA EmitAcceptedStep ==
  ASSUME IInv, EmitAccepted
  PROVE  IInv'
<1>1. /\ UNCHANGED <<knobs, ctl, m, accepted, cells>>
      /\ dec = "release_kv"
      /\ \/ dec' = "acquire_kv1" /\ accepted < m
         \/ dec' = "release_verify"
      /\ tokens' = tokens \o DraftPrefix(accepted)
      /\ current_seq' = current_seq + accepted
      /\ Sched!Release("kv")
  BY DEF EmitAccepted, Goto
<1>2. /\ tokens \in Seq(0..KnobCap) /\ accepted \in 0..KnobCap
      /\ accepted <= m /\ m \in 0..KnobCap
      /\ Len(tokens) + 1 <= MaxTokens
      /\ current_seq = PromptLen + Len(tokens)
      /\ Len(tokens) \in Nat
  BY <1>1 DEF IInv, TypeOK, RoundInv, KvAligned
<1>n. PromptLen \in Nat /\ MaxTokens \in Nat /\ KnobCap \in Nat
  BY RuntimeAssumption
<1>3. /\ tokens' \in Seq(0..KnobCap)
      /\ Len(tokens') = Len(tokens) + accepted
      /\ \A i \in 1..Len(tokens) : tokens'[i] = tokens[i]
      /\ \A i \in 1..accepted : tokens'[Len(tokens) + i] = i
  <2> DEFINE t == tokens \o DraftPrefix(accepted)
  <2>1. /\ t \in Seq(0..KnobCap)
        /\ Len(t) = Len(tokens) + accepted
        /\ \A i \in 1..Len(tokens) : t[i] = tokens[i]
        /\ \A i \in 1..accepted : t[Len(tokens) + i] = i
    <3>1. tokens \in Seq(0..KnobCap) /\ accepted \in 0..KnobCap
      BY <1>2
    <3> QED BY <3>1, PushDraft
  <2>2. tokens' = t
    BY <1>1
  <2> HIDE DEF t
  <2> QED BY <2>1, <2>2
<1>4. StagesOK'
  BY <1>1, ReleaseTyped DEF IInv, TypeOK, StagesOK, StageIds
<1>5. TypeOK'
  <2>1. current_seq' \in Nat
    BY <1>1, <1>2, <1>n
  <2>2. dec' \in DecoderPoints
    BY <1>1 DEF DecoderPoints
  <2> QED BY <1>1, <1>3, <1>4, <2>1, <2>2 DEF IInv, TypeOK, StagesOK
<1>6. BootInv' /\ RoundInv' /\ PendingInv' /\ OvershootBounded'
  <2>1. Len(tokens') + 1 <= MaxTokens + accepted /\ accepted <= m
    BY <1>2, <1>3, <1>n
  <2>2. OvershootBounded'
    BY <2>1, <1>2, <1>3, <1>n DEF OvershootBounded
  <2>3. BootInv' /\ PendingInv'
    BY <1>1 DEF BootInv, Booting, PendingInv
  <2>4. RoundInv'
    BY <1>1, <2>1 DEF RoundInv
  <2> QED BY <2>2, <2>3, <2>4
<1>7. KvAligned'
  <2>1. current_seq' = PromptLen + Len(tokens')
    BY <1>1, <1>2, <1>3, RuntimeAssumption
  <2>2. ASSUME NEW i \in 1..Len(tokens')
        PROVE  cells[PromptLen + i - 1] = SlotOf(tokens'[i])
    <3>1. CASE i <= Len(tokens)
      <4>1. i \in 1..Len(tokens)
        BY <3>1, <1>2
      <4> QED BY <4>1, <1>1, <1>3 DEF IInv, KvAligned
    <3>2. CASE i > Len(tokens)
      <4> DEFINE j == i - Len(tokens)
      <4>1. j \in 1..accepted /\ i = Len(tokens) + j
        BY <3>2, <1>2, <1>3
      <4>2. cells[current_seq + j - 1] = j
        BY <4>1, <1>1 DEF IInv, PendingInv
      <4>3. tokens'[i] = j /\ PromptLen + i - 1 = current_seq + j - 1
        BY <4>1, <1>2, <1>3, RuntimeAssumption
      <4> QED BY <4>1, <4>2, <4>3, <1>2 DEF SlotOf, Fallback
    <3> QED BY <3>1, <3>2, <1>2, <1>3
  <2> QED BY <2>1, <2>2, <1>1 DEF KvAligned
<1> QED BY <1>5, <1>6, <1>7 DEF IInv

\* The fallback token is emitted: its entry is the first slot.
LEMMA EmitFallbackStep ==
  ASSUME IInv, EmitFallback
  PROVE  IInv'
<1>1. /\ UNCHANGED <<knobs, ctl, m, accepted, cells>>
      /\ dec = "release_kv1" /\ dec' = "release_verify"
      /\ tokens' = Append(tokens, Fallback)
      /\ current_seq' = current_seq + 1
      /\ Sched!Release("kv")
  BY DEF EmitFallback, Goto
<1>2. /\ tokens \in Seq(0..KnobCap) /\ accepted \in 0..KnobCap
      /\ accepted < m /\ m \in 0..KnobCap
      /\ Len(tokens) + 1 <= MaxTokens + accepted
      /\ current_seq = PromptLen + Len(tokens)
      /\ Len(tokens) \in Nat
  BY <1>1 DEF IInv, TypeOK, RoundInv, KvAligned
<1>n. PromptLen \in Nat /\ MaxTokens \in Nat /\ KnobCap \in Nat
  BY RuntimeAssumption
<1>3. /\ tokens' \in Seq(0..KnobCap)
      /\ Len(tokens') = Len(tokens) + 1
      /\ \A i \in 1..Len(tokens) : tokens'[i] = tokens[i]
      /\ tokens'[Len(tokens) + 1] = Fallback
  BY <1>1, <1>2, RuntimeAssumption DEF Fallback
<1>4. StagesOK'
  BY <1>1, ReleaseTyped DEF IInv, TypeOK, StagesOK, StageIds
<1>5. TypeOK'
  <2>1. current_seq' \in Nat
    BY <1>1, <1>2, <1>n
  <2>2. dec' \in DecoderPoints
    BY <1>1 DEF DecoderPoints
  <2> QED BY <1>1, <1>3, <1>4, <2>1, <2>2 DEF IInv, TypeOK, StagesOK
<1>6. BootInv' /\ RoundInv' /\ PendingInv' /\ OvershootBounded'
  BY <1>1, <1>2, <1>3, RuntimeAssumption
     DEF BootInv, Booting, RoundInv, PendingInv, OvershootBounded
<1>7. KvAligned'
  <2>1. current_seq' = PromptLen + Len(tokens')
    BY <1>1, <1>2, <1>3, RuntimeAssumption
  <2>2. ASSUME NEW i \in 1..Len(tokens')
        PROVE  cells[PromptLen + i - 1] = SlotOf(tokens'[i])
    <3>1. CASE i \in 1..Len(tokens)
      BY <3>1, <1>1, <1>3 DEF IInv, KvAligned
    <3>2. CASE i = Len(tokens) + 1
      <4>1. cells[current_seq] = 1 /\ current_seq = PromptLen + i - 1
        BY <3>2, <1>1, <1>2, RuntimeAssumption DEF IInv, PendingInv
      <4> QED BY <4>1, <3>2, <1>3 DEF SlotOf
    <3> QED BY <3>1, <3>2, <1>2, <1>3
  <2> QED BY <2>1, <2>2, <1>1 DEF KvAligned
<1> QED BY <1>5, <1>6, <1>7 DEF IInv

LEMMA StepPreserves == IInv /\ [Next]_vars => IInv'
<1> SUFFICES ASSUME IInv, [Next]_vars PROVE IInv'
  OBVIOUS
<1>1. CASE UNCHANGED vars
  BY <1>1 DEF vars, IInv, TypeOK, BootInv, Booting, RoundInv, PendingInv,
              KvAligned, OvershootBounded
<1> QED
  BY <1>1, BootStep, ControlStep, QuietStep, CommitStep, EmitAcceptedStep,
     EmitFallbackStep DEF Next, Decoder

LEMMA Invariance == Spec => []IInv
  BY InitEstablishes, StepPreserves, PTL DEF Spec

-----------------------------------------------------------------------------
\* Every variable of the two threads stays in its type.
THEOREM TypeCorrect == Spec => []TypeOK
  BY Invariance, PTL DEF IInv

\* runtime_loop.cpp keeps cache positions and emitted tokens in step.
THEOREM CacheAlignment == Spec => []KvAligned
  BY Invariance, PTL DEF IInv

\* A run emits fewer than max_tokens plus one draft window.
THEOREM OutputBounded == Spec => []OvershootBounded
  BY Invariance, PTL DEF IInv

\* commit_prefix_from_temp never writes past the cache, if main_debug_stream
\* sizes it as CacheAssumption says.
THEOREM CacheBounds == Spec => []CommitInsideCache
<1>1. IInv => CommitInsideCache
  <2> SUFFICES ASSUME IInv PROVE CommitInsideCache
    OBVIOUS
  <2>1. /\ KnobCap \in Nat /\ PromptLen \in Nat /\ MaxTokens \in Nat /\ MaxSeq \in Nat
        /\ m \in 0..KnobCap /\ accepted \in 0..KnobCap
        /\ ~Booting => current_seq = PromptLen + Len(tokens)
        /\ Len(tokens) \in Nat
    BY RoundFacts
  <2>2. CASE dec = "commit"
    <3>1. ~Booting /\ accepted <= m /\ Len(tokens) + 1 <= MaxTokens
      BY <2>2 DEF IInv, RoundInv, Booting
    <3> QED
      BY <2>1, <2>2, <3>1, CacheAssumption DEF CommitInsideCache
  <2>3. CASE dec = "commit1"
    <3>1. ~Booting /\ accepted < m /\ Len(tokens) + 1 <= MaxTokens + accepted
      BY <2>3 DEF IInv, RoundInv, Booting
    <3> QED
      BY <2>1, <2>3, <3>1, CacheAssumption DEF CommitInsideCache
  <2> QED BY <2>2, <2>3 DEF CommitInsideCache
<1> QED BY <1>1, Invariance, PTL

-----------------------------------------------------------------------------
(* The two threads implement CreditScheduler: every step of theirs is one  *)
(* of its steps or leaves the table and the credits held alone.            *)

LEMMA SchedInit == Init => Sched!Init
  BY DEF Init, Sched!Init, Outstanding, HoldsVerify, HoldsKv, StageIds

\* A change of the decoder's position that takes or gives back no credit.
LEMMA OutstandingSame ==
  ASSUME HoldsVerify' <=> HoldsVerify, HoldsKv' <=> HoldsKv
  PROVE  Outstanding' = Outstanding
  BY DEF Outstanding

\* Taking or giving back one credit of a stage moves its counter by one.
LEMMA OutstandingMoves ==
  ASSUME NEW s \in StageIds, NEW n,
         Outstanding'[s] = n,
         \A t \in StageIds : t # s => Outstanding'[t] = Outstanding[t]
  PROVE  Outstanding' = [Outstanding EXCEPT ![s] = n]
<1>1. /\ Outstanding = [t \in StageIds |-> Outstanding[t]]
      /\ Outstanding' = [t \in StageIds |-> Outstanding'[t]]
  BY DEF Outstanding
<1> HIDE DEF Outstanding
<1> QED BY <1>1

LEMMA TakesCredit ==
  ASSUME NEW s \in StageIds, Sched!TryAcquire(s),
         Outstanding[s] = 0, Outstanding'[s] = 1,
         \A t \in StageIds : t # s => Outstanding'[t] = Outstanding[t]
  PROVE  Sched!Next
<1>1. Outstanding' = [Outstanding EXCEPT ![s] = Outstanding[s] + 1]
  <2>1. Outstanding'[s] = Outstanding[s] + 1
    OBVIOUS
  <2> QED BY <2>1, OutstandingMoves
<1>2. Sched!Acquire(s)
  BY <1>1 DEF Sched!Acquire
<1> QED BY <1>2 DEF Sched!Next

LEMMA ReturnsCredit ==
  ASSUME NEW s \in StageIds, Sched!Release(s),
         Outstanding[s] = 1, Outstanding'[s] = 0,
         \A t \in StageIds : t # s => Outstanding'[t] = Outstanding[t]
  PROVE  Sched!Next
<1>1. Outstanding' = [Outstanding EXCEPT ![s] = Outstanding[s] - 1]
  <2>1. Outstanding'[s] = Outstanding[s] - 1
    OBVIOUS
  <2> QED BY <2>1, OutstandingMoves
<1>2. Sched!GiveBack(s)
  BY <1>1 DEF Sched!GiveBack
<1> QED BY <1>2 DEF Sched!Next

LEMMA SchedStep ==
  ASSUME IInv, [Next]_vars
  PROVE  [Sched!Next]_(Sched!schedVars)
<1> USE DEF Sched!schedVars
<1>1. ASSUME Boot PROVE Sched!Next
  <2>1. PICK s \in StageIds : \E n \in 1..KnobCap : Sched!InitStage(s, n)
    BY <1>1, RuntimeAssumption DEF Boot, BootStage, StageIds
  <2>2. Outstanding' = Outstanding
    BY <1>1, OutstandingSame DEF Boot, BootStage, Goto, HoldsVerify, HoldsKv
  <2> QED BY <2>1, <2>2 DEF Sched!Next, Sched!Configure
<1>2. ASSUME ApplyVerify \/ ApplyKv PROVE Sched!Next
  <2>1. /\ knobs.credits_verify \in 1..KnobCap
        /\ knobs.credits_kv \in 1..KnobCap
    BY DEF IInv, TypeOK
  <2>2. PICK s \in StageIds : \E n \in 1..KnobCap : Sched!InitStage(s, n)
    BY <1>2, <2>1 DEF ApplyVerify, ApplyKv, StageIds
  <2>3. Outstanding' = Outstanding
    BY <1>2, OutstandingSame
       DEF ApplyVerify, ApplyKv, decoderVars, HoldsVerify, HoldsKv
  <2> QED BY <2>2, <2>3 DEF Sched!Next, Sched!Configure
<1>3. ASSUME Guardrail \/ Push \/ Adapt
      PROVE  UNCHANGED <<stages, Outstanding>>
  BY <1>3, OutstandingSame
     DEF Guardrail, Push, Adapt, decoderVars, HoldsVerify, HoldsKv
<1>4. ASSUME Prefill \/ StartRound \/ Finish \/ VerifyPrefix \/ Commit
      PROVE  UNCHANGED <<stages, Outstanding>>
  <2>1. stages' = stages
    BY <1>4 DEF Prefill, StartRound, Finish, VerifyPrefix, Commit
  <2>2. Outstanding' = Outstanding
    BY <1>4, OutstandingSame
       DEF Prefill, StartRound, Finish, VerifyPrefix, Commit, Goto,
           HoldsVerify, HoldsKv
  <2> QED BY <2>1, <2>2
<1>5. ASSUME AcquireVerify PROVE Sched!Next
  <2>1. dec = "acquire_verify" /\ dec' = "verify" /\ Sched!TryAcquire("verify")
    BY <1>5 DEF AcquireVerify, Goto
  <2>2. ~HoldsVerify /\ HoldsVerify' /\ ~HoldsKv /\ ~HoldsKv'
    BY <2>1 DEF HoldsVerify, HoldsKv
  <2>3. /\ Outstanding["verify"] = 0 /\ Outstanding'["verify"] = 1
        /\ \A t \in StageIds : t # "verify" => Outstanding'[t] = Outstanding[t]
    BY <2>2 DEF Outstanding, StageIds
  <2> QED BY <2>1, <2>3, TakesCredit DEF StageIds
<1>6. ASSUME AcquireKv PROVE Sched!Next
  <2>1. /\ \/ dec = "acquire_kv" /\ dec' = "commit"
           \/ dec = "acquire_kv1" /\ dec' = "commit1"
        /\ Sched!TryAcquire("kv")
    BY <1>6 DEF AcquireKv, Goto
  <2>2. ~HoldsKv /\ HoldsKv' /\ HoldsVerify /\ HoldsVerify'
    BY <2>1 DEF HoldsVerify, HoldsKv
  <2>3. /\ Outstanding["kv"] = 0 /\ Outstanding'["kv"] = 1
        /\ \A t \in StageIds : t # "kv" => Outstanding'[t] = Outstanding[t]
    BY <2>2 DEF Outstanding, StageIds
  <2> QED BY <2>1, <2>3, TakesCredit DEF StageIds
<1>7. ASSUME EmitAccepted \/ EmitFallback PROVE Sched!Next
  <2>1. /\ \/ dec = "release_kv" /\ dec' \in {"acquire_kv1", "release_verify"}
           \/ dec = "release_kv1" /\ dec' = "release_verify"
        /\ Sched!Release("kv")
    BY <1>7 DEF EmitAccepted, EmitFallback, Goto
  <2>2. HoldsKv /\ ~HoldsKv' /\ HoldsVerify /\ HoldsVerify'
    BY <2>1 DEF HoldsVerify, HoldsKv
  <2>3. /\ Outstanding["kv"] = 1 /\ Outstanding'["kv"] = 0
        /\ \A t \in StageIds : t # "kv" => Outstanding'[t] = Outstanding[t]
    BY <2>2 DEF Outstanding, StageIds
  <2> QED BY <2>1, <2>3, ReturnsCredit DEF StageIds
<1>8. ASSUME ReleaseVerify PROVE Sched!Next
  <2>1. dec = "release_verify" /\ dec' = "loop" /\ Sched!Release("verify")
    BY <1>8 DEF ReleaseVerify, Goto
  <2>2. HoldsVerify /\ ~HoldsVerify' /\ ~HoldsKv /\ ~HoldsKv'
    BY <2>1 DEF HoldsVerify, HoldsKv
  <2>3. /\ Outstanding["verify"] = 1 /\ Outstanding'["verify"] = 0
        /\ \A t \in StageIds : t # "verify" => Outstanding'[t] = Outstanding[t]
    BY <2>2 DEF Outstanding, StageIds
  <2> QED BY <2>1, <2>3, ReturnsCredit DEF StageIds
<1>9. CASE UNCHANGED vars
  BY <1>9, OutstandingSame DEF vars, HoldsVerify, HoldsKv
<1> QED
  BY <1>1, <1>2, <1>3, <1>4, <1>5, <1>6, <1>7, <1>8, <1>9
     DEF Next, Decoder, ControlLoop

\* stream_decode uses the credit table as CreditScheduler allows.
THEOREM Refinement == Spec => ImplementsScheduler
  BY Invariance, SchedInit, SchedStep, PTL
     DEF Spec, ImplementsScheduler, Sched!Spec

-----------------------------------------------------------------------------
(* What the scheduler guarantees, first of its table alone: S are stages,  *)
(* st is the table, held the credits that are out.                         *)

StageRecord == [credits : Nat, max_credits : Nat]

TableTyped(S, st, held) ==
  /\ DOMAIN st \subseteq S
  /\ st \in [DOMAIN st -> StageRecord]
  /\ held \in [S -> Nat]

\* No stage offers more than its maximum; what it offers and what is out are
\* no less.  Release needs the first to know that capping loses nothing.
TableSound(S, st, held) ==
  /\ TableTyped(S, st, held)
  /\ \A s \in DOMAIN st : /\ st[s].credits <= st[s].max_credits
                          /\ st[s].credits + held[s] >= st[s].max_credits

Stage(n) == [credits |-> n, max_credits |-> n]

Filled(st, s, n) ==
  [t \in DOMAIN st \cup {s} |-> IF t = s THEN Stage(n) ELSE st[t]]

Returned(st, s) ==
  [st EXCEPT ![s].credits = IF @ + 1 <= st[s].max_credits
                              THEN @ + 1 ELSE st[s].max_credits]

LEMMA FillKeeps ==
  ASSUME NEW S, NEW st, NEW held, TableSound(S, st, held),
         NEW s \in S, NEW n \in Nat
  PROVE  TableSound(S, Filled(st, s, n), held)
<1> DEFINE u == Filled(st, s, n)
<1>1. /\ DOMAIN u = DOMAIN st \cup {s}
      /\ u[s] = Stage(n)
      /\ \A t \in DOMAIN st : t # s => u[t] = st[t]
      /\ u = [t \in DOMAIN u |-> u[t]]
  BY DEF Filled
<1> HIDE DEF u
<1>2. Stage(n) \in StageRecord /\ Stage(n).credits = n /\ Stage(n).max_credits = n
  BY DEF Stage, StageRecord
<1>3. /\ DOMAIN st \subseteq S /\ held \in [S -> Nat]
      /\ \A t \in DOMAIN st : st[t] \in StageRecord
  BY DEF TableSound, TableTyped
<1>4. \A t \in DOMAIN u : u[t] \in StageRecord
  BY <1>1, <1>2, <1>3
<1>5. TableTyped(S, u, held)
  BY <1>1, <1>3, <1>4 DEF TableTyped
<1>6. ASSUME NEW t \in DOMAIN u
      PROVE  u[t].credits <= u[t].max_credits /\ u[t].credits + held[t] >= u[t].max_credits
  <2>1. CASE t = s
    BY <1>1, <1>2, <1>3, <2>1
  <2>2. CASE t # s
    BY <1>1, <1>6, <2>2 DEF TableSound
  <2> QED
    BY <2>1, <2>2
<1> QED
  BY <1>5, <1>6 DEF TableSound, u

LEMMA TakeKeeps ==
  ASSUME NEW S, NEW st, NEW held, TableSound(S, st, held),
         NEW s \in DOMAIN st, st[s].credits > 0
  PROVE  TableSound(S, [st EXCEPT ![s].credits = @ - 1],
                    [held EXCEPT ![s] = @ + 1])
BY DEF TableSound, TableTyped, StageRecord

LEMMA ReturnKeeps ==
  ASSUME NEW S, NEW st, NEW held, TableSound(S, st, held),
         NEW s \in S, held[s] > 0
  PROVE  /\ s \in DOMAIN st =>
              TableSound(S, Returned(st, s), [held EXCEPT ![s] = @ - 1])
         /\ s \notin DOMAIN st => TableSound(S, st, [held EXCEPT ![s] = @ - 1])
<1>1. CASE s \in DOMAIN st
  BY <1>1 DEF TableSound, TableTyped, StageRecord, Returned
<1>2. CASE s \notin DOMAIN st
  BY <1>2 DEF TableSound, TableTyped
<1> QED
  BY <1>1, <1>2

-----------------------------------------------------------------------------
(* The scheduler on its own: any stages, credits and callers.              *)

CONSTANTS AnyStages, AnyCap, AnyWorkers
VARIABLES table, held

Any == INSTANCE CreditScheduler WITH
         Stages <- AnyStages, CreditCap <- AnyCap, Workers <- AnyWorkers,
         stages <- table, outstanding <- held

AnySound == TableSound(AnyStages, table, held)

LEMMA AnyInit == Any!Init => AnySound
  BY DEF Any!Init, AnySound, TableSound, TableTyped

LEMMA AnyStep == AnySound /\ [Any!Next]_(Any!schedVars) => AnySound'
<1> SUFFICES ASSUME AnySound, [Any!Next]_(Any!schedVars) PROVE AnySound'
  OBVIOUS
<1> USE DEF AnySound
<1>1. ASSUME NEW s \in AnyStages, Any!Configure(s) PROVE AnySound'
  <2>1. PICK n \in 1..AnyCap : Any!InitStage(s, n)
    BY <1>1 DEF Any!Configure
  <2>2. table' = Filled(table, s, n) /\ held' = held
    BY <1>1, <2>1 DEF Any!Configure, Any!InitStage, Filled, Stage
  <2> QED
    BY <2>2, FillKeeps
<1>2. ASSUME NEW s \in AnyStages, Any!Acquire(s) PROVE AnySound'
  BY <1>2, TakeKeeps DEF Any!Acquire, Any!TryAcquire
<1>3. ASSUME NEW s \in AnyStages, Any!GiveBack(s) PROVE AnySound'
  <2>1. Any!Release(s) /\ held[s] > 0 /\ held' = [held EXCEPT ![s] = @ - 1]
    BY <1>3 DEF Any!GiveBack
  <2>2. CASE s \in DOMAIN table
    <3>1. table' = Returned(table, s)
      BY <2>1, <2>2, Zenon DEF Any!Release, Returned
    <3> QED
      BY <2>1, <2>2, <3>1, ReturnKeeps
  <2>3. CASE s \notin DOMAIN table
    <3>1. table' = table
      BY <2>1, <2>3 DEF Any!Release
    <3> QED
      BY <2>1, <2>3, <3>1, ReturnKeeps
  <2> QED
    BY <2>2, <2>3
<1>4. CASE UNCHANGED Any!schedVars
  BY <1>4 DEF Any!schedVars
<1> QED
  BY <1>1, <1>2, <1>3, <1>4 DEF Any!Next

LEMMA AnyInvariance == Any!Spec => []AnySound
  BY AnyInit, AnyStep, PTL DEF Any!Spec

\* Every reachable table maps initialised stages to non-negative credits.
THEOREM SchedulerTypeCorrect == Any!Spec => []Any!TypeOK
<1>1. AnySound => Any!TypeOK
  BY DEF AnySound, TableSound, TableTyped, StageRecord, Any!TypeOK, Any!StageState
<1> QED
  BY <1>1, AnyInvariance, PTL

\* scheduler.h never offers more credits of a stage than its maximum.
THEOREM NeverOverfull == Any!Spec => []Any!CreditsWithinMax
<1>1. AnySound => Any!CreditsWithinMax
  BY DEF AnySound, TableSound, Any!CreditsWithinMax
<1> QED
  BY <1>1, AnyInvariance, PTL

\* No interleaving of try_acquire, release and init_stage loses a credit.
THEOREM CreditsConserved == Any!Spec => []Any!NoCreditLost
<1>1. AnySound => Any!NoCreditLost
  BY DEF AnySound, TableSound, Any!NoCreditLost
<1> QED
  BY <1>1, AnyInvariance, PTL

-----------------------------------------------------------------------------
(* The scheduler under the two threads of the runtime.                     *)

SchedSound == TableSound(StageIds, stages, Outstanding)

LEMMA SchedKeeps == SchedSound /\ [Sched!Next]_(Sched!schedVars) => SchedSound'
<1> SUFFICES ASSUME SchedSound, [Sched!Next]_(Sched!schedVars) PROVE SchedSound'
  OBVIOUS
<1> USE DEF SchedSound
<1>1. ASSUME NEW s \in StageIds, Sched!Configure(s) PROVE SchedSound'
  <2>1. PICK n \in 1..KnobCap : Sched!InitStage(s, n)
    BY <1>1 DEF Sched!Configure
  <2>2. stages' = Filled(stages, s, n) /\ Outstanding' = Outstanding
    BY <1>1, <2>1 DEF Sched!Configure, Sched!InitStage, Filled, Stage
  <2>3. n \in Nat
    BY <2>1, RuntimeAssumption
  <2> QED
    BY <2>2, <2>3, FillKeeps
<1>2. ASSUME NEW s \in StageIds, Sched!Acquire(s) PROVE SchedSound'
  BY <1>2, TakeKeeps DEF Sched!Acquire, Sched!TryAcquire
<1>3. ASSUME NEW s \in StageIds, Sched!GiveBack(s) PROVE SchedSound'
  <2>1. Sched!Release(s) /\ Outstanding[s] > 0 /\ Outstanding' = [Outstanding EXCEPT ![s] = @ - 1]
    BY <1>3 DEF Sched!GiveBack
  <2>2. CASE s \in DOMAIN stages
    <3>1. stages' = Returned(stages, s)
      BY <2>1, <2>2, Zenon DEF Sched!Release, Returned
    <3> QED
      BY <2>1, <2>2, <3>1, ReturnKeeps
  <2>3. CASE s \notin DOMAIN stages
    <3>1. stages' = stages
      BY <2>1, <2>3 DEF Sched!Release
    <3> QED
      BY <2>1, <2>3, <3>1, ReturnKeeps
  <2> QED
    BY <2>2, <2>3
<1>4. CASE UNCHANGED Sched!schedVars
  BY <1>4 DEF Sched!schedVars
<1> QED
  BY <1>1, <1>2, <1>3, <1>4 DEF Sched!Next

\* Between a refill by controlLoop and a late release by the decoder no credit
\* of any stage is lost.
THEOREM CreditsKept == Spec => []NoCreditLost
<1>1. Init => SchedSound
  <2>1. Sched!Init => SchedSound
    BY DEF Sched!Init, SchedSound, TableSound, TableTyped
  <2> QED
    BY <2>1, SchedInit
<1>2. IInv /\ SchedSound /\ [Next]_vars => SchedSound'
  BY SchedStep, SchedKeeps
<1>3. SchedSound => NoCreditLost
  BY DEF SchedSound, TableSound, NoCreditLost, Sched!NoCreditLost
<1> QED
  BY <1>1, <1>2, <1>3, Invariance, PTL DEF Spec
=============================================================================
