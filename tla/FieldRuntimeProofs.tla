-------------------------- MODULE FieldRuntimeProofs --------------------------
(***************************************************************************)
(* The replay lane and its session files, for any size of the lane, any    *)
(* interval of the archive, any folds and thresholds.  A trace carries the *)
(* tick at which it was recorded and a session file the tick of its last   *)
(* trace: a file once written is not written again in that run, and only   *)
(* traces newer than the file enter the lane behind it.                    *)
(*                                                                         *)
(* Then the tiles of the folds' shards: each fold starts where the one     *)
(* before it ends, so that what is mapped for a fold stays its own.        *)
(***************************************************************************)
EXTENDS FieldRuntime, SequenceTheorems, WellFoundedInduction, TLAPS

AnyTrace == [tick : Nat, fold : Folds]

TypeOK ==
  /\ tick \in Nat /\ DOMAIN disk = 1..MaxTick
  /\ ~loaded => lane \in Seq(AnyTrace)

\* Session files are named after ticks of the past.
Named == ~loaded => \A t \in archived : t \in 1..MaxTick /\ t <= tick

IInv == TypeOK /\ Named /\ LaneIsHistory /\ ArchiveComplete

-----------------------------------------------------------------------------
\* The lane after a trace: the trace comes last, behind what was there, less
\* the oldest trace when the lane is full.
LEMMA PushedLane ==
  ASSUME lane \in Seq(AnyTrace), Len(lane) <= LaneSize, NEW trace \in AnyTrace
  PROVE  /\ Pushed(trace) \in Seq(AnyTrace)
         /\ Len(Pushed(trace)) \in 1..LaneSize
         /\ Pushed(trace)[Len(Pushed(trace))] = trace
         /\ \E d \in {0, 1} : \A k \in 1..(Len(Pushed(trace)) - 1) :
              k + d \in 1..Len(lane) /\ Pushed(trace)[k] = lane[k + d]
<1> DEFINE longer == Append(lane, trace)
<1>1. LaneSize \in Nat /\ LaneSize >= 1 /\ Len(lane) \in Nat
  BY FieldEngineAssumption, LenProperties
<1>2. /\ longer \in Seq(AnyTrace) /\ Len(longer) = Len(lane) + 1
      /\ longer[Len(lane) + 1] = trace
      /\ \A k \in 1..Len(lane) : longer[k] = lane[k]
  BY AppendProperties
<1> HIDE DEF longer
<1>3. CASE Len(longer) > LaneSize
  <2>1. Pushed(trace) = Tail(longer)
    BY <1>3 DEF Pushed, longer
  <2>2. longer # << >>
    BY <1>1, <1>2, EmptySeq
  <2>3. /\ Tail(longer) \in Seq(AnyTrace) /\ Len(Tail(longer)) = Len(lane)
        /\ \A k \in 1..Len(lane) : Tail(longer)[k] = longer[k + 1]
    BY <1>1, <1>2, <2>2, HeadTailProperties
  <2>4. Len(lane) >= 1
    BY <1>1, <1>2, <1>3
  <2>5. \A k \in 1..(Len(lane) - 1) : k + 1 \in 1..Len(lane) /\ Tail(longer)[k] = lane[k + 1]
    BY <1>1, <1>2, <2>3
  <2>6. Tail(longer)[Len(lane)] = trace
    BY <1>1, <1>2, <2>3, <2>4
  <2> QED
    BY <1>1, <2>1, <2>3, <2>4, <2>5, <2>6
<1>4. CASE ~(Len(longer) > LaneSize)
  <2>1. Pushed(trace) = longer
    BY <1>4 DEF Pushed, longer
  <2>2. \A k \in 1..(Len(longer) - 1) : k + 0 \in 1..Len(lane) /\ longer[k] = lane[k + 0]
    BY <1>1, <1>2
  <2> QED
    BY <1>1, <1>2, <1>4, <2>1, <2>2
<1> QED
  BY <1>3, <1>4

LEMMA InitInv == Init => IInv
<1> SUFFICES ASSUME Init PROVE IInv
  OBVIOUS
<1>1. lane = << >> /\ archived = {} /\ tick = 0
  BY DEF Init, Boot
<1>2. lane \in Seq(AnyTrace) /\ Len(lane) = 0 /\ DOMAIN lane = {}
  BY <1>1, EmptySeq, LenProperties
<1> QED
  BY <1>1, <1>2, FieldEngineAssumption DEF Init, IInv, TypeOK, Named, LaneIsHistory, ArchiveComplete

\* A restart begins a history anew.
LEMMA RestartInv == ASSUME IInv, Restart PROVE IInv'
<1>1. lane' = << >> /\ archived' = {} /\ tick' = 0 /\ disk' = disk
  BY DEF Restart, Boot
<1>2. lane' \in Seq(AnyTrace) /\ Len(lane') = 0 /\ DOMAIN lane' = {}
  BY <1>1, EmptySeq, LenProperties
<1> QED
  BY <1>1, <1>2, FieldEngineAssumption DEF IInv, TypeOK, Named, LaneIsHistory, ArchiveComplete

LEMMA LoadInv == ASSUME IInv, NEW t \in DOMAIN disk, LoadFromDisk(t) PROVE IInv'
BY DEF LoadFromDisk, IInv, TypeOK, Named, LaneIsHistory, ArchiveComplete

\* Archiving touches the file of the lane's last tick only.
LEMMA ArchiveFile ==
  ASSUME NEW l, DOMAIN disk = 1..MaxTick, Last(l).tick \in 1..MaxTick, Archive(l)
  PROVE  /\ DOMAIN disk' = 1..MaxTick
         /\ \A t \in 1..MaxTick : t # Last(l).tick => disk'[t] = disk[t]
         /\ \/ archived' = archived
            \/ /\ archived' = archived \cup {Last(l).tick}
               /\ disk'[Last(l).tick] = [count |-> Len(l), traces |-> l]
BY DEF Archive

\* A step whose trace is recorded.
LEMMA RecordInv ==
  ASSUME IInv, ~loaded, tick < MaxTick, tick' = tick + 1, loaded' = loaded,
         NEW fold \in Folds, Record([tick |-> tick + 1, fold |-> fold])
  PROVE  IInv'
<1> DEFINE trace == [tick |-> tick + 1, fold |-> fold]
           l == Pushed(trace)
<1>1. /\ tick \in Nat /\ MaxTick \in Nat /\ LaneSize \in Nat
      /\ lane \in Seq(AnyTrace) /\ Len(lane) \in Nat /\ DOMAIN lane = 1..Len(lane)
      /\ Len(lane) <= LaneSize /\ \A k \in 1..Len(lane) : lane[k] \in AnyTrace
  BY FieldEngineAssumption, LenProperties DEF IInv, TypeOK, LaneIsHistory
<1>2. trace \in AnyTrace /\ trace.tick = tick + 1
  BY <1>1 DEF AnyTrace
<1> HIDE DEF trace
<1>3. PICK d \in {0, 1} : \A k \in 1..(Len(l) - 1) : k + d \in 1..Len(lane) /\ l[k] = lane[k + d]
  BY <1>1, <1>2, PushedLane
<1>4. /\ lane' = l /\ l \in Seq(AnyTrace) /\ Len(l) \in 1..LaneSize /\ l[Len(l)] = trace
      /\ DOMAIN l = 1..Len(l) /\ Last(l) = trace
  <2>1. l \in Seq(AnyTrace) /\ Len(l) \in 1..LaneSize /\ l[Len(l)] = trace
    BY <1>1, <1>2, PushedLane
  <2>2. DOMAIN l = 1..Len(l)
    BY <2>1, LenProperties
  <2> QED
    BY <2>1, <2>2 DEF Record, trace, Last
<1>5. /\ DOMAIN disk' = 1..MaxTick
      /\ \A t \in 1..MaxTick : t # tick + 1 => disk'[t] = disk[t]
      /\ \/ archived' = archived
         \/ /\ archived' = archived \cup {tick + 1}
            /\ disk'[tick + 1] = [count |-> Len(l), traces |-> l]
  <2>1. Archive(l) \/ UNCHANGED <<disk, archived>>
    BY <1>4 DEF Record, trace
  <2>2. DOMAIN disk = 1..MaxTick /\ tick + 1 \in 1..MaxTick
    BY <1>1 DEF IInv, TypeOK
  <2>3. Last(l).tick = tick + 1
    BY <1>2, <1>4
  <2> HIDE DEF l
  <2>4. CASE Archive(l)
    BY <2>2, <2>3, <2>4, ArchiveFile
  <2> QED
    BY <2>1, <2>2, <2>4
<1> HIDE DEF l
<1>6. TypeOK' /\ Named'
  BY <1>1, <1>4, <1>5 DEF IInv, TypeOK, Named
<1>7. \A k \in 1..(Len(l) - 1) : l[k].tick \in Nat /\ l[k].tick <= tick
  BY <1>1, <1>3 DEF IInv, LaneIsHistory, AnyTrace
<1>8. LaneIsHistory'
  <2>1. ASSUME NEW k \in 1..Len(l) PROVE l[k].tick <= tick + 1
    BY <1>1, <1>2, <1>4, <1>7
  <2>2. ASSUME NEW k \in 1..Len(l), NEW j \in 1..(k - 1) PROVE l[j].tick < l[k].tick
    <3>1. CASE k = Len(l)
      BY <1>1, <1>2, <1>4, <1>7, <3>1
    <3>2. CASE k # Len(l)
      <4>1. Len(l) \in Nat
        BY <1>1, <1>4
      <4>2. k \in 1..(Len(l) - 1) /\ j \in 1..(Len(l) - 1)
        BY <3>2, <4>1
      <4>3. /\ l[k] = lane[k + d] /\ l[j] = lane[j + d]
            /\ k + d \in DOMAIN lane /\ j + d \in 1..((k + d) - 1)
        BY <1>1, <1>3, <4>2
      <4> QED
        BY <4>3 DEF IInv, LaneIsHistory
    <3> QED
      BY <3>1, <3>2
  <2> QED
    BY <1>4, <2>1, <2>2 DEF LaneIsHistory
<1>9. ArchiveComplete'
  <2>1. ASSUME NEW t \in archived
        PROVE  /\ disk'[t] = disk[t]
               /\ \A k \in 1..Len(l) : l[k].tick <= t => l[k] \in Range(disk[t].traces)
    <3>1. t \in 1..MaxTick /\ t <= tick
      BY DEF IInv, Named
    <3>2. disk'[t] = disk[t]
      BY <1>1, <1>5, <3>1
    <3>3. ASSUME NEW k \in 1..Len(l), l[k].tick <= t
          PROVE  l[k] \in Range(disk[t].traces)
      <4>1. k # Len(l)
        BY <1>1, <1>2, <1>4, <3>1, <3>3
      <4>2. Len(l) \in Nat
        BY <1>1, <1>4
      <4>3. k \in 1..(Len(l) - 1)
        BY <4>1, <4>2
      <4>4. k + d \in DOMAIN lane /\ l[k] = lane[k + d]
        BY <1>1, <1>3, <4>3
      <4> QED
        BY <3>3, <4>4 DEF IInv, ArchiveComplete
    <3> QED
      BY <3>2, <3>3
  <2>2. ASSUME archived' = archived \cup {tick + 1},
               disk'[tick + 1] = [count |-> Len(l), traces |-> l]
        PROVE  /\ Len(disk'[tick + 1].traces) = disk'[tick + 1].count
               /\ \A k \in 1..Len(l) : l[k] \in Range(disk'[tick + 1].traces)
    BY <1>4, <2>2 DEF Range
  <2>3. ASSUME NEW t \in archived' 
        PROVE  /\ Len(disk'[t].traces) = disk'[t].count
               /\ \A k \in 1..Len(l) : l[k].tick <= t => l[k] \in Range(disk'[t].traces)
    <3>1. CASE t \in archived
      BY <2>1, <3>1 DEF IInv, ArchiveComplete
    <3>2. CASE t \notin archived
      BY <1>5, <2>2, <2>3, <3>2
    <3> QED
      BY <3>1, <3>2
  <2> QED
    BY <1>4, <2>3 DEF ArchiveComplete
<1> QED
  BY <1>6, <1>8, <1>9 DEF IInv

\* While a recovered lane is in use nothing but the files' names is kept.
LEMMA StepInv ==
  ASSUME IInv, NEW fold \in Folds, NEW query, Step(fold, query)
  PROVE  IInv'
<1>1. tick < MaxTick /\ tick' = tick + 1 /\ loaded' = loaded /\ tick \in Nat /\ MaxTick \in Nat
  BY FieldEngineAssumption DEF Step, IInv, TypeOK
<1>2. CASE UNCHANGED <<lane, disk, archived>>
  <2>1. TypeOK' /\ Named'
    BY <1>1, <1>2 DEF IInv, TypeOK, Named
  <2>2. LaneIsHistory'
    <3> SUFFICES ASSUME ~loaded, NEW k \in DOMAIN lane PROVE lane[k].tick <= tick + 1
      BY <1>1, <1>2 DEF IInv, LaneIsHistory
    <3>1. lane[k] \in AnyTrace
      <4>1. lane \in Seq(AnyTrace)
        BY DEF IInv, TypeOK
      <4> QED
        BY <4>1, LenProperties
    <3>2. lane[k].tick \in Nat /\ lane[k].tick <= tick
      BY <3>1 DEF AnyTrace, IInv, LaneIsHistory
    <3> QED
      BY <1>1, <3>2
  <2>3. ArchiveComplete'
    BY <1>1, <1>2 DEF IInv, ArchiveComplete
  <2> QED
    BY <2>1, <2>2, <2>3 DEF IInv
<1>3. CASE Record([tick |-> tick + 1, fold |-> fold])
  <2>1. CASE ~loaded
    BY <1>1, <1>3, <2>1, RecordInv
  <2>2. CASE loaded
    <3>1. DOMAIN disk' = 1..MaxTick
      BY <1>3 DEF Record, Archive, IInv, TypeOK
    <3> QED
      BY <1>1, <2>2, <3>1 DEF IInv, TypeOK, Named, LaneIsHistory, ArchiveComplete
  <2> QED
    BY <2>1, <2>2
<1> QED
  BY <1>1, <1>2, <1>3 DEF Step

LEMMA NextInv == IInv /\ [Next]_vars => IInv'
<1> SUFFICES ASSUME IInv, [Next]_vars PROVE IInv'
  OBVIOUS
<1>1. ASSUME NEW fold \in Folds, NEW query \in Queries, Step(fold, query) PROVE IInv'
  BY <1>1, StepInv
<1>2. CASE Restart
  BY <1>2, RestartInv
<1>3. ASSUME NEW t \in DOMAIN disk, LoadFromDisk(t) PROVE IInv'
  BY <1>3, LoadInv
<1>4. CASE UNCHANGED vars
  BY <1>4 DEF vars, IInv, TypeOK, Named, LaneIsHistory, ArchiveComplete
<1> QED
  BY <1>1, <1>2, <1>3, <1>4 DEF Next

LEMMA Invariance == Spec => []IInv
BY InitInv, NextInv, PTL DEF Spec

-----------------------------------------------------------------------------
\* Until load_from_disk is called the lane is bounded, in the order of ticks,
\* and of this run only.
THEOREM LaneKeepsHistory == Spec => []LaneIsHistory
BY Invariance, PTL DEF IInv

\* A session file this run wrote whole holds every trace of the lane up to
\* its tick, whichever later writes fail.
THEOREM SessionFilesKeepTraces == Spec => []ArchiveComplete
BY Invariance, PTL DEF IInv

\* Whatever becomes of the loader, the engine goes its own way.
THEOREM LoaderStopsNothing == RuntimeSpec => Spec
<1>1. RuntimeInit => Init
  BY DEF RuntimeInit
<1>2. [RuntimeNext]_<<vars, loaderVars>> => [Next]_vars
  BY DEF RuntimeNext, RuntimeStep, RuntimeRestart, Recover, Register, Next, loaderVars
<1> QED
  BY <1>1, <1>2, PTL DEF RuntimeSpec, Spec

-----------------------------------------------------------------------------
(* The layout of the folds.                                                *)

\* A set of numbers has a least one: what stands in for an induction.
LEMMA NatMin ==
  ASSUME NEW T, T \subseteq Nat, T # {}
  PROVE  \E x \in T : \A y \in T : x <= y
<1> DEFINE R == {ss \in Nat \X Nat : ss[1] < ss[2]}
<1>1. R = OpToRel(<, Nat)
  BY Zenon DEF OpToRel
<1>2. IsWellFoundedOn(R, Nat)
  BY <1>1, NatLessThanWellFounded, Zenon
<1>3. \A x, y \in Nat : x < y => <<x, y>> \in R
  OBVIOUS
<1> HIDE DEF R
<1>4. PICK x \in T : \A y \in T : ~(<<y, x>> \in R)
  BY <1>2, WFMin
<1>5. \A y \in T : ~(y < x)
  BY <1>3, <1>4
<1> QED
  BY <1>5

\* The sum of what comes before a number, for any numbers.
LEMMA SumsExist ==
  ASSUME NEW w
  PROVE  \A m \in Nat : \E f :
           f = [i \in 0..m |-> IF i = 0 THEN 0 ELSE f[i - 1] + w[i - 1]]
<1> DEFINE Is(f, m) == f = [i \in 0..m |-> IF i = 0 THEN 0 ELSE f[i - 1] + w[i - 1]]
           T == {m \in Nat : ~(\E f : Is(f, m))}
<1> SUFFICES ASSUME T # {} PROVE FALSE
  OBVIOUS
<1>1. PICK m \in T : \A k \in T : m <= k
  <2>1. T \subseteq Nat
    OBVIOUS
  <2> HIDE DEF T
  <2> QED
    BY <2>1, NatMin
<1>2. m \in Nat /\ ~(\E f : Is(f, m))
  BY <1>1
<1>3. m # 0
  <2> SUFFICES ASSUME m = 0 PROVE FALSE
    OBVIOUS
  <2> DEFINE f == [i \in 0..0 |-> 0]
  <2>1. f = [i \in 0..0 |-> IF i = 0 THEN 0 ELSE f[i - 1] + w[i - 1]]
    OBVIOUS
  <2> QED
    BY <1>2, <2>1
<1>4. m - 1 \in Nat /\ m - 1 \notin T
  <2>1. m - 1 \in Nat /\ ~(m <= m - 1)
    BY <1>2, <1>3
  <2> HIDE DEF T
  <2> QED
    BY <1>1, <2>1
<1>5. PICK f : Is(f, m - 1)
  BY <1>4
<1> DEFINE g == [i \in 0..m |-> IF i < m THEN f[i] ELSE f[m - 1] + w[m - 1]]
           h == [i \in 0..m |-> IF i = 0 THEN 0 ELSE g[i - 1] + w[i - 1]]
<1>6. ASSUME NEW i \in 0..m PROVE g[i] = h[i]
  <2>1. CASE i < m
    <3>1. i \in 0..(m - 1) /\ g[i] = f[i]
      BY <1>2, <2>1
    <3>2. f[i] = IF i = 0 THEN 0 ELSE f[i - 1] + w[i - 1]
      BY <1>5, <3>1
    <3>3. i # 0 => i - 1 \in 0..m /\ i - 1 < m
      BY <1>2, <2>1
    <3> QED
      BY <3>1, <3>2, <3>3
  <2>2. CASE ~(i < m)
    <3>1. i = m /\ i - 1 \in 0..m /\ i - 1 < m /\ i # 0
      BY <1>2, <1>3, <2>2
    <3> QED
      BY <3>1
  <2> QED
    BY <2>1, <2>2
<1>7. g = h
  BY <1>6
<1>8. Is(g, m)
  BY <1>7
<1> QED
  BY <1>2, <1>8

Tiles(f) == Loader!TilesOf(size[f])

\* A fold starts at or behind the end of every fold before it.
LEMMA FoldsInOrder ==
  ASSUME \A f \in Folds : Tiles(f) \in Nat
  PROVE  /\ \A f \in Folds : Loader!StartTile(f) \in Nat
         /\ \A f, g \in Folds :
              f < g => Loader!StartTile(f) + Tiles(f) <= Loader!StartTile(g)
<1> DEFINE w == [i \in Folds |-> Tiles(i)]
           s == CHOOSE f : f = [i \in 0..MaxFold |->
                                  IF i = 0 THEN 0 ELSE f[i - 1] + w[i - 1]]
<1>1. MaxFold \in Nat /\ Folds = 0..MaxFold
  BY RuntimeAssumption
<1>2. \A f : [i \in 0..MaxFold |-> IF i = 0 THEN 0 ELSE f[i - 1] + w[i - 1]]
           = [i \in 0..MaxFold |-> IF i = 0 THEN 0
                                   ELSE f[i - 1] + Loader!TilesOf(size[i - 1])]
  <2>1. \A i \in 0..MaxFold : i # 0 => w[i - 1] = Loader!TilesOf(size[i - 1])
    BY <1>1 DEF Tiles
  <2> HIDE DEF w
  <2> QED
    BY <2>1
<1>3. \A f \in Folds : Loader!StartTile(f) = s[f]
  <2>1. s = CHOOSE f : f = [i \in 0..MaxFold |->
                              IF i = 0 THEN 0 ELSE f[i - 1] + Loader!TilesOf(size[i - 1])]
    BY <1>2
  <2> HIDE DEF s
  <2> QED
    BY <1>1, <2>1 DEF Loader!StartTile, Loader!FoldIds
<1> HIDE DEF w
<1>4. s = [i \in 0..MaxFold |-> IF i = 0 THEN 0 ELSE s[i - 1] + w[i - 1]]
  BY <1>1, SumsExist
<1> HIDE DEF s
<1>5. s[0] = 0 /\ \A i \in 1..MaxFold : s[i] = s[i - 1] + w[i - 1]
  <2> DEFINE r == [i \in 0..MaxFold |-> IF i = 0 THEN 0 ELSE s[i - 1] + w[i - 1]]
  <2>1. \A i \in 0..MaxFold : r[i] = IF i = 0 THEN 0 ELSE s[i - 1] + w[i - 1]
    OBVIOUS
  <2>2. s = r
    BY <1>4
  <2>3. 0 \in 0..MaxFold /\ \A i \in 1..MaxFold : i \in 0..MaxFold /\ i # 0
    BY <1>1
  <2> HIDE DEF r
  <2> QED
    BY <2>1, <2>2, <2>3
<1>6. \A i \in 0..MaxFold : w[i] \in Nat /\ w[i] = Tiles(i)
  BY <1>1 DEF w
<1>7. \A i \in 0..MaxFold : s[i] \in Nat
  <2> DEFINE T == {i \in 0..MaxFold : s[i] \notin Nat}
  <2> SUFFICES ASSUME T # {} PROVE FALSE
    OBVIOUS
  <2>1. PICK i \in T : \A k \in T : i <= k
    <3>1. T \subseteq Nat
      BY <1>1
    <3> HIDE DEF T
    <3> QED
      BY <3>1, NatMin
  <2>2. i \in 0..MaxFold /\ s[i] \notin Nat
    BY <2>1
  <2>3. i # 0
    BY <1>5, <2>2
  <2>4. i - 1 \in 0..MaxFold /\ i \in 1..MaxFold /\ ~(i <= i - 1)
    BY <1>1, <2>2, <2>3
  <2>5. i - 1 \notin T
    <3> HIDE DEF T
    <3> QED
      BY <2>1, <2>4
  <2>6. s[i - 1] \in Nat
    BY <2>4, <2>5
  <2> QED
    BY <1>5, <1>6, <2>2, <2>4, <2>6
<1>8. ASSUME NEW f \in 0..MaxFold
      PROVE  \A g \in 0..MaxFold : f < g => s[f] + w[f] <= s[g]
  <2> DEFINE T == {g \in 0..MaxFold : f < g /\ ~(s[f] + w[f] <= s[g])}
  <2> SUFFICES ASSUME T # {} PROVE FALSE
    OBVIOUS
  <2>1. PICK g \in T : \A k \in T : g <= k
    <3>1. T \subseteq Nat
      BY <1>1
    <3> HIDE DEF T
    <3> QED
      BY <3>1, NatMin
  <2>2. g \in 0..MaxFold /\ f < g /\ ~(s[f] + w[f] <= s[g])
    BY <2>1
  <2>3. g \in 1..MaxFold /\ g - 1 \in 0..MaxFold /\ ~(g <= g - 1)
    BY <1>1, <2>2
  <2>4. g - 1 \notin T
    <3> HIDE DEF T
    <3> QED
      BY <2>1, <2>3
  <2>5. /\ s[g] = s[g - 1] + w[g - 1] /\ s[g - 1] \in Nat /\ w[g - 1] \in Nat
        /\ s[f] \in Nat /\ w[f] \in Nat
    BY <1>5, <1>6, <1>7, <2>3
  <2>6. f # g - 1
    <3> SUFFICES ASSUME f = g - 1 PROVE FALSE
      OBVIOUS
    <3>1. s[g] = s[f] + w[f]
      BY <2>5
    <3> QED
      BY <2>2, <2>5, <3>1
  <2>7. f < g - 1
    BY <1>1, <2>2, <2>3, <2>6
  <2>8. s[f] + w[f] <= s[g - 1]
    BY <2>3, <2>4, <2>7
  <2> QED
    BY <2>2, <2>5, <2>8
<1> QED
  BY <1>1, <1>3, <1>6, <1>7, <1>8

-----------------------------------------------------------------------------
(* The tiles.                                                              *)

\* What the property speaks of: folds and tiles that are not left over from a
\* registration, and no tile of a fold behind the end of the buffer.
Holds(f, t) == f \notin left.folds /\ heap[f] # 0 /\ t \in Loader!Span(f)

Settled(t) == t \notin left.tiles /\ \A f \in Folds : t \in Loader!Span(f) => Loader!Inside(f)

\* A tile has the heap of a fold that reaches it, and else none.
TileExact(t) ==
  /\ \A f \in Folds : Holds(f, t) => mapped[t] = heap[f]
  /\ (\A f \in Folds : ~Holds(f, t)) => mapped[t] = 0

Exact == \A t \in Loader!TileSpace : Settled(t) => TileExact(t)

\* Without a buffer only what a registration left has a heap.
LoaderInv ==
  /\ made \in Nat
  /\ size \in [Folds -> Nat] /\ hot \in [Folds -> BOOLEAN] /\ heap \in [Folds -> Nat]
  /\ mapped = [t \in Loader!TileSpace |-> mapped[t]]
  /\ \A f \in Folds \ left.folds : heap[f] # 0 => hot[f] /\ device /\ buffer # 0
  /\ Exact

LEMMA SpansApart ==
  ASSUME size \in [Folds -> Nat], NEW f \in Folds, NEW g \in Folds, f # g,
         NEW t, t \in Loader!Span(f), t \in Loader!Span(g)
  PROVE  FALSE
<1>1. Tile \in Nat \ {0} /\ \A h \in Folds : h \in Nat
  BY RuntimeAssumption
<1>2. \A h \in Folds : Tiles(h) \in Nat
  <2> SUFFICES ASSUME NEW h \in Folds PROVE (size[h] + (Tile - 1)) \div Tile \in Nat
    BY DEF Tiles, Loader!TilesOf
  <2>1. size[h] + (Tile - 1) \in Nat
    BY <1>1
  <2> DEFINE n == size[h] + (Tile - 1)
  <2> HIDE DEF n
  <2>2. n \div Tile \in Nat
    BY <1>1, <2>1 DEF n
  <2> QED
    BY <2>2 DEF n
<1>3. /\ \A h \in Folds : Loader!StartTile(h) \in Nat
      /\ \A h, k \in Folds :
           h < k => Loader!StartTile(h) + Tiles(h) <= Loader!StartTile(k)
  BY <1>2, FoldsInOrder
<1>4. /\ t \in Loader!StartTile(f)..(Loader!StartTile(f) + Tiles(f) - 1)
      /\ t \in Loader!StartTile(g)..(Loader!StartTile(g) + Tiles(g) - 1)
  BY DEF Loader!Span, Tiles
<1>5. f < g \/ g < f
  BY <1>1
<1> QED
  BY <1>2, <1>3, <1>4, <1>5

\* Where every heap and every mapped tile is left over, nothing remains to hold.
LEMMA AllLeft ==
  ASSUME \A f \in Folds : heap'[f] # 0 => f \in (left').folds,
         \A t \in Loader!TileSpace : mapped'[t] # 0 => t \in (left').tiles
  PROVE  Exact'
<1>1. Loader!TileSpace' = Loader!TileSpace
  BY DEF Loader!TileSpace, Loader!FoldIds
<1> QED
  BY <1>1 DEF Exact, Settled, TileExact, Holds

LEMMA LoaderInitInv == Loader!Init => LoaderInv
<1> SUFFICES ASSUME Loader!Init PROVE LoaderInv
  OBVIOUS
<1>1. Folds = Loader!FoldIds
  BY RuntimeAssumption DEF Loader!FoldIds
<1> QED
  BY <1>1 DEF Loader!Init, Loader!Absent, LoaderInv, Exact, TileExact, Holds

\* With the heaps and the tiles as they are.
LEMMA ExactKept ==
  ASSUME Exact, size' = size, heap' = heap, buffer' = buffer, mapped' = mapped, left' = left
  PROVE  Exact'
<1>1. \A g : Loader!Span(g)' = Loader!Span(g)
  BY DEF Loader!Span, Loader!StartTile, Loader!TilesOf
<1>2. \A g : Loader!Inside(g)' = Loader!Inside(g)
  BY <1>1 DEF Loader!Inside, Loader!BufferTiles, Loader!TilesOf
<1>3. Loader!TileSpace' = Loader!TileSpace
  BY DEF Loader!TileSpace, Loader!FoldIds
<1> QED
  BY <1>1, <1>2, <1>3 DEF Exact, Settled, TileExact, Holds

LEMMA MappedKept ==
  ASSUME NEW h, mapped' = [t \in Loader!TileSpace |-> h[t]]
  PROVE  mapped' = [t \in Loader!TileSpace' |-> mapped'[t]]
<1>1. Loader!TileSpace' = Loader!TileSpace
  BY DEF Loader!TileSpace, Loader!FoldIds
<1> QED
  BY <1>1

LEMMA FlagInv ==
  ASSUME LoaderInv, NEW f \in Folds, NEW to \in BOOLEAN, Loader!FlagOnly(f, to)
  PROVE  LoaderInv'
<1>1. /\ ~device \/ buffer = 0
      /\ hot' = [hot EXCEPT ![f] = to]
      /\ device' = device /\ size' = size /\ heap' = heap /\ buffer' = buffer
      /\ mapped' = mapped /\ made' = made /\ left' = left
  BY DEF Loader!FlagOnly, Loader!Absent
<1>2. Exact'
  BY <1>1, ExactKept DEF LoaderInv
<1>3. mapped' = [t \in Loader!TileSpace' |-> mapped'[t]]
  BY <1>1, MappedKept DEF LoaderInv
<1>4. \A g \in Folds \ left.folds : heap[g] = 0
  BY <1>1 DEF LoaderInv
<1> QED
  BY <1>1, <1>2, <1>3, <1>4 DEF LoaderInv

\* A fold's tiles are given to a heap of its own, or taken back.  When the fold
\* is behind the end of the buffer the mapping may be dropped; its tiles are not
\* spoken of then, and those of the other folds stay as they are.
LEMMA RemapInv ==
  ASSUME LoaderInv, NEW f \in Folds, NEW to \in Nat, NEW flag \in BOOLEAN,
         device, buffer # 0, to # 0 => flag,
         mapped' \in Loader!Mappings(f, to), heap' = [heap EXCEPT ![f] = to],
         hot' = [hot EXCEPT ![f] = flag], left' = Loader!DealtWith(f),
         device' = device, size' = size, buffer' = buffer, made' \in Nat
  PROVE  LoaderInv'
<1>1. /\ size \in [Folds -> Nat] /\ hot \in [Folds -> BOOLEAN] /\ heap \in [Folds -> Nat]
      /\ mapped = [t \in Loader!TileSpace |-> mapped[t]] /\ Exact
      /\ \A g \in Folds \ left.folds : heap[g] # 0 => hot[g]
  BY DEF LoaderInv
<1>2. (left').folds = left.folds \ {f} /\ (left').tiles = left.tiles \ Loader!Span(f)
  BY DEF Loader!DealtWith
<1>3. heap'[f] = to /\ hot'[f] = flag
      /\ \A g \in Folds \ {f} : heap'[g] = heap[g] /\ hot'[g] = hot[g]
  BY <1>1
<1>4. \A g : Loader!Span(g)' = Loader!Span(g)
  BY DEF Loader!Span, Loader!StartTile, Loader!TilesOf
<1>5. \A g : Loader!Inside(g)' = Loader!Inside(g)
  BY <1>4 DEF Loader!Inside, Loader!BufferTiles, Loader!TilesOf
<1>6. Loader!TileSpace' = Loader!TileSpace
  BY DEF Loader!TileSpace, Loader!FoldIds
<1>7. /\ Loader!Inside(f) => \A t \in Loader!TileSpace :
                               mapped'[t] = IF t \in Loader!Span(f) THEN to ELSE mapped[t]
      /\ \A t \in Loader!TileSpace \ Loader!Span(f) : mapped'[t] = mapped[t]
      /\ mapped' = [t \in Loader!TileSpace |-> mapped'[t]]
  <2> DEFINE there == Loader!Span(f) \cap Loader!BufferTiles
             done == [t \in Loader!TileSpace |-> IF t \in there THEN to ELSE mapped[t]]
  <2>1. mapped' = done \/ (~Loader!Inside(f) /\ mapped' = mapped)
    BY DEF Loader!Mappings
  <2>2. Loader!Inside(f) => there = Loader!Span(f)
    BY DEF Loader!Inside
  <2>3. CASE mapped' = done
    <3>1. \A t \in Loader!TileSpace : mapped'[t] = IF t \in there THEN to ELSE mapped[t]
      BY <2>3
    <3>2. there \subseteq Loader!Span(f)
      OBVIOUS
    <3>3. mapped' = [t \in Loader!TileSpace |-> mapped'[t]]
      BY <2>3
    <3> HIDE DEF there, done
    <3> QED
      BY <2>2, <3>1, <3>2, <3>3
  <2>4. CASE ~Loader!Inside(f) /\ mapped' = mapped
    BY <1>1, <2>4
  <2> QED
    BY <2>1, <2>3, <2>4
<1>8. Exact'
  <2> SUFFICES ASSUME NEW t \in Loader!TileSpace, Settled(t)'
               PROVE  TileExact(t)'
    BY <1>6 DEF Exact
  <2>1. /\ t \notin left.tiles \ Loader!Span(f)
        /\ \A g \in Folds : t \in Loader!Span(g) => Loader!Inside(g)
    BY <1>2, <1>4, <1>5 DEF Settled
  <2>2. CASE t \in Loader!Span(f)
    <3>1. mapped'[t] = to
      BY <1>7, <2>1, <2>2
    <3>2. \A g \in Folds \ {f} : t \notin Loader!Span(g)
      BY <1>1, <2>2, SpansApart
    <3> QED
      BY <1>2, <1>3, <1>4, <2>2, <3>1, <3>2 DEF TileExact, Holds
  <2>3. CASE t \notin Loader!Span(f)
    <3>1. mapped'[t] = mapped[t] /\ TileExact(t)
      BY <1>1, <1>7, <2>1, <2>3 DEF Exact, Settled
    <3>2. \A g \in Folds : Holds(g, t)' <=> Holds(g, t)
      BY <1>2, <1>3, <1>4, <2>3 DEF Holds
    <3>3. \A g \in Folds : Holds(g, t) => heap'[g] = heap[g]
      BY <1>3, <2>3 DEF Holds
    <3> QED
      BY <3>1, <3>2, <3>3 DEF TileExact
  <2> QED
    BY <2>2, <2>3
<1>9. mapped' = [t \in Loader!TileSpace' |-> mapped'[t]]
  BY <1>6, <1>7
<1>10. \A g \in Folds \ (left').folds : heap'[g] # 0 => hot'[g] /\ device' /\ buffer' # 0
  BY <1>1, <1>2, <1>3
<1>11. heap' \in [Folds -> Nat] /\ hot' \in [Folds -> BOOLEAN]
  BY <1>1
<1> QED
  BY <1>1, <1>8, <1>9, <1>10, <1>11 DEF LoaderInv

LEMMA PromoteInv == ASSUME LoaderInv, NEW f \in Folds, Loader!Promote(f) PROVE LoaderInv'
<1>1. CASE Loader!FlagOnly(f, TRUE)
  BY <1>1, FlagInv
<1>2. CASE ~Loader!FlagOnly(f, TRUE)
  <2>1. /\ device /\ buffer # 0 /\ made' = made + 1 /\ heap' = [heap EXCEPT ![f] = made + 1]
        /\ mapped' \in Loader!Mappings(f, made + 1) /\ hot' = [hot EXCEPT ![f] = TRUE]
        /\ left' = Loader!DealtWith(f)
        /\ device' = device /\ size' = size /\ buffer' = buffer
    BY <1>2 DEF Loader!Promote, Loader!Absent
  <2>2. made + 1 \in Nat
    BY DEF LoaderInv
  <2> QED
    BY <2>1, <2>2, RemapInv
<1> QED
  BY <1>1, <1>2

LEMMA DemoteInv == ASSUME LoaderInv, NEW f \in Folds, Loader!Demote(f) PROVE LoaderInv'
<1>1. CASE Loader!FlagOnly(f, FALSE)
  BY <1>1, FlagInv
<1>2. CASE ~Loader!FlagOnly(f, FALSE)
  <2>1. /\ device /\ buffer # 0 /\ made' = made /\ heap' = [heap EXCEPT ![f] = 0]
        /\ mapped' \in Loader!Mappings(f, 0) /\ hot' = [hot EXCEPT ![f] = FALSE]
        /\ left' = Loader!DealtWith(f)
        /\ device' = device /\ size' = size /\ buffer' = buffer
    BY <1>2 DEF Loader!Demote, Loader!Absent
  <2>2. made' \in Nat
    BY <2>1 DEF LoaderInv
  <2> QED
    BY <2>1, <2>2, RemapInv
<1> QED
  BY <1>1, <1>2

\* Whatever has a heap or a mapping when a manifest comes is left over by it.
LEMMA ManifestInv ==
  ASSUME LoaderInv, NEW F \in SUBSET Folds, NEW manifest \in [F -> Sizes],
         NEW specialists \in SUBSET (Folds \ F), Loader!LoadManifest(manifest, specialists)
  PROVE  LoaderInv'
<1>1. /\ DOMAIN manifest = F /\ heap' = heap /\ made' = made
      /\ size' = [f \in Folds |-> IF f \in F THEN manifest[f] ELSE size[f]]
      /\ hot' = [f \in Folds |-> f \notin F \cup specialists /\ hot[f]]
      /\ mapped' = [t \in Loader!TileSpace |-> 0] \/ mapped' = mapped
      /\ (left').folds = {f \in Folds : heap[f] # 0}
      /\ (left').tiles = {t \in Loader!TileSpace : mapped'[t] # 0}
  BY RuntimeAssumption DEF Loader!LoadManifest, Loader!Absent, Loader!FoldIds
<1>2. size' \in [Folds -> Nat] /\ hot' \in [Folds -> BOOLEAN]
  BY <1>1, RuntimeAssumption DEF LoaderInv
<1>3. Exact'
  BY <1>1, AllLeft
<1>4. mapped' = [t \in Loader!TileSpace' |-> mapped'[t]]
  BY <1>1, MappedKept DEF LoaderInv
<1>5. \A f \in Folds \ (left').folds : heap'[f] = 0
  BY <1>1
<1> QED
  BY <1>1, <1>2, <1>3, <1>4, <1>5 DEF LoaderInv

LEMMA LoaderRestart == ASSUME LoaderInv, RuntimeRestart PROVE LoaderInv'
<1>1. /\ size' = [f \in Folds |-> 0] /\ hot' = [f \in Folds |-> FALSE]
      /\ heap' = [f \in Folds |-> 0] /\ buffer' = 0
      /\ mapped' = [t \in DOMAIN mapped |-> 0]
      /\ made' = 0
  BY DEF RuntimeRestart, Loader!Absent
<1>2. DOMAIN mapped = Loader!TileSpace
  BY DEF LoaderInv
<1>3. Loader!TileSpace' = Loader!TileSpace
  BY DEF Loader!TileSpace, Loader!FoldIds
<1>4. Exact'
  BY <1>1, <1>2, AllLeft
<1> QED
  BY <1>1, <1>2, <1>3, <1>4 DEF LoaderInv

LEMMA LoaderKept == ASSUME LoaderInv, UNCHANGED loaderVars PROVE LoaderInv'
<1>1. /\ device' = device /\ size' = size /\ hot' = hot /\ heap' = heap /\ buffer' = buffer
      /\ mapped' = mapped /\ made' = made /\ left' = left
  BY DEF loaderVars
<1>2. Exact'
  BY <1>1, ExactKept DEF LoaderInv
<1>3. mapped' = [t \in Loader!TileSpace' |-> mapped'[t]]
  BY <1>1, MappedKept DEF LoaderInv
<1> QED
  BY <1>1, <1>2, <1>3 DEF LoaderInv

\* For any folds, sizes and tile and any number of manifests, whatever the steps
\* promote and a host demotes: a fold that was promoted since the last manifest
\* has its heap on all of its tiles, as long as they are inside the buffer, and
\* on no tile of another fold; a tile of no such fold is mapped to nothing.
THEOREM ResidencyStaysExact == RuntimeSpec => []ResidencyExact
<1>1. RuntimeInit => LoaderInv
  BY LoaderInitInv DEF RuntimeInit
<1>2. LoaderInv /\ [RuntimeNext]_<<vars, loaderVars>> => LoaderInv'
  <2> SUFFICES ASSUME LoaderInv, [RuntimeNext]_<<vars, loaderVars>> PROVE LoaderInv'
    OBVIOUS
  <2>1. ASSUME NEW fold \in Folds, Route(fold) PROVE LoaderInv'
    BY <2>1, PromoteInv, LoaderKept DEF Route
  <2>2. CASE RuntimeRestart
    BY <2>2, LoaderRestart
  <2>3. CASE Recover
    BY <2>3, LoaderKept DEF Recover
  <2>4. CASE Register
    BY <2>4, ManifestInv, DemoteInv DEF Register
  <2>5. CASE UNCHANGED loaderVars
    BY <2>5, LoaderKept
  <2> QED
    BY <2>1, <2>2, <2>3, <2>4, <2>5 DEF RuntimeNext, RuntimeStep
<1>3. LoaderInv => ResidencyExact
  <2> SUFFICES ASSUME LoaderInv PROVE Loader!ResidencyExact
    BY DEF ResidencyExact
  <2>1. Loader!FoldIds = Folds
    BY RuntimeAssumption DEF Loader!FoldIds
  <2>2. \A f \in Folds \ left.folds : heap[f] # 0 => hot[f]
    BY DEF LoaderInv
  <2> DEFINE behind == UNION {Loader!Span(f) : f \in {g \in Folds : ~Loader!Inside(g)}}
             Owner(t) == {f \in Folds \ left.folds : heap[f] # 0 /\ t \in Loader!Span(f)}
  <2>3. ASSUME NEW t \in Loader!TileSpace \ (left.tiles \cup behind)
        PROVE  mapped[t] = IF Owner(t) = {} THEN 0 ELSE heap[CHOOSE f \in Owner(t) : TRUE]
    <3>1. TileExact(t)
      BY DEF LoaderInv, Exact, Settled
    <3>2. \A f \in Owner(t) : mapped[t] = heap[f]
      BY <3>1 DEF TileExact, Holds
    <3>3. Owner(t) = {} => mapped[t] = 0
      BY <3>1 DEF TileExact, Holds
    <3>4. Owner(t) # {} => (CHOOSE f \in Owner(t) : TRUE) \in Owner(t)
      OBVIOUS
    <3> HIDE DEF Owner
    <3> QED
      BY <3>2, <3>3, <3>4
  <2> QED
    BY <2>1, <2>2, <2>3 DEF Loader!ResidencyExact, Loader!Absent
<1> QED
  BY <1>1, <1>2, <1>3, PTL DEF RuntimeSpec
===============================================================================
