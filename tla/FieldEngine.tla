---------------------------- MODULE FieldEngine -----------------------------
(***************************************************************************)
(* The ASX runtime loop: FieldExecutionEngine.run_end_to_end_step with the *)
(* evolver, the legality verifier and the replay lane it drives, across    *)
(* restarts of the process, which keep the session files.                  *)
(*                                                                         *)
(* Entropy is counted in hundredths; no reachable value is at a threshold, *)
(* so rounding of the code's floats decides nothing.  Attention, pressure, *)
(* gravity and the metric tensor steer no branch and are left out, as is   *)
(* the residency of shards (ShardLoader).                                  *)
(***************************************************************************)
EXTENDS Integers, Sequences, SequencesExt, FiniteSets

CONSTANTS
  Folds,      \* the folds queried
  LaneSize,   \* m_max_lane_size, 1000 in the code
  Interval,   \* m_archive_interval, 100 in the code
  Entropy0,   \* entropy at the start, 14
  Threshold,  \* entropy above it is a breach, 85
  Storage,    \* may writing a session file fail
  Restore,    \* does an operator call load_from_disk
  MaxTick,    \* bound: ticks of a run
  MaxRuns     \* bound: runs of the process

ASSUME FieldEngineAssumption ==
  /\ LaneSize \in Nat \ {0} /\ Interval \in Nat \ {0} /\ MaxTick \in Nat
  /\ {Entropy0, Threshold} \subseteq Nat /\ MaxRuns \in Nat
  /\ {Storage, Restore} \subseteq BOOLEAN

VARIABLES
  run,      \* runs of the process so far
  tick,     \* m_total_ticks
  entropy,  \* m_current_entropy
  lane,     \* m_active_lane: traces [tick, fold]
  disk,     \* session_<tick>.replay: count in its header, traces written
  shm,      \* the shared header other processes read: tick and fold
  archived, \* history: ticks at which this run wrote a whole session file
  loaded    \* history: has this run called load_from_disk

vars == <<run, tick, entropy, lane, disk, shm, archived, loaded>>

Traces == [tick : 0..MaxTick, fold : Folds]
Garbage == [tick |-> 0, fold |-> -1]  \* stands for any trace
NoFile == [count |-> 0, traces |-> <<>>]

\* What the constructors set; initialize_host clears the shared header.
Boot ==
  [tick |-> 0, entropy |-> Entropy0, lane |-> <<>>, shm |-> [tick |-> 0, fold |-> 0]]

Init ==
  /\ run = 1 /\ disk = [t \in 1..MaxTick |-> NoFile]
  /\ tick = Boot.tick /\ entropy = Boot.entropy /\ lane = Boot.lane
  /\ shm = Boot.shm /\ archived = {} /\ loaded = FALSE

-----------------------------------------------------------------------------
(* Routing and verification.                                               *)

\* A query goes to AgentCoder, to AgentFactory, or to neither.
Queries == {"code", "create", "other"}

Drift(query) ==
  CASE query = "code" -> -5 [] query = "create" -> 10 [] OTHER -> 0

\* initialize_population has no caller: the evolver's population is empty, so
\* no fitness is kept, no step of it mutates anything, and the adapter put to
\* the verifier is for ever the default one - no weights, generation 0.  What
\* is left of verify_mutation is its first and its last check.
Lawful(e) == e <= Threshold /\ e >= 1

-----------------------------------------------------------------------------
(* The replay lane.                                                        *)

\* Variant: the lane is cut one trace late.
PushedLate(trace) ==
  LET longer == Append(lane, trace) IN
  IF Len(longer) > LaneSize + 1 THEN Tail(longer) ELSE longer

Pushed(trace) ==
  LET longer == Append(lane, trace) IN
  IF Len(longer) > LaneSize THEN Tail(longer) ELSE longer

\* Variant: the file holds the lane without its newest trace.
ArchiveBehind(l) ==
  /\ disk' = [disk EXCEPT ![Last(l).tick] =
                [count |-> Len(l) - 1, traces |-> Front(l)]]
  /\ archived' = archived \cup {Last(l).tick}

\* archive_to_disk: the whole lane goes to a file named for its last tick.  The
\* file may not open, and a failing write is not noticed: the traces end early.
Archive(l) ==
  LET t == Last(l).tick IN
  \/ /\ disk' = [disk EXCEPT ![t] = [count |-> Len(l), traces |-> l]]
     /\ archived' = archived \cup {t}
  \/ /\ Storage
     /\ \/ UNCHANGED disk
        \/ \E n \in 0..(Len(l) - 1) :
             disk' = [disk EXCEPT ![t] =
                        [count |-> Len(l), traces |-> SubSeq(l, 1, n)]]
     /\ UNCHANGED archived

\* record_trace
Record(trace) ==
  /\ lane' = Pushed(trace)
  /\ \/ trace.tick % Interval = 0 /\ Archive(lane')
     \/ trace.tick % Interval # 0 /\ UNCHANGED <<disk, archived>>

-----------------------------------------------------------------------------
(* One end-to-end step, a restart, a recovery.                             *)

\* run_end_to_end_step
Step(fold, query) ==
  /\ tick < MaxTick
  /\ tick' = tick + 1 /\ entropy' = entropy + Drift(query)
  /\ \/ /\ Lawful(entropy')
        /\ Record([tick |-> tick', fold |-> fold])
     \/ /\ ~Lawful(entropy')
        /\ UNCHANGED <<lane, disk, archived>>
  /\ shm' = [tick |-> tick', fold |-> fold]
  /\ UNCHANGED <<run, loaded>>

\* The process dies and starts again.
Restart ==
  /\ run < MaxRuns /\ run' = run + 1
  /\ tick' = Boot.tick /\ entropy' = Boot.entropy /\ lane' = Boot.lane
  /\ shm' = Boot.shm
  /\ archived' = {} /\ loaded' = FALSE
  /\ UNCHANGED disk

\* The first n traces load_from_disk reads: behind the end of a file cut short
\* the variables it reads into keep whatever they hold.
ReadFrom(file, n) ==
  [i \in 1..n |-> IF i <= Len(file.traces) THEN file.traces[i] ELSE Garbage]

\* load_from_disk appends to the lane.  Decompression reserves room for an
\* original_size nobody set: it may throw at any trace.
LoadFromDisk(t) ==
  LET file == disk[t] IN
  /\ Restore /\ ~loaded /\ file # NoFile
  /\ \E n \in 0..file.count : lane' = lane \o ReadFrom(file, n)
  /\ loaded' = TRUE
  /\ UNCHANGED <<run, tick, entropy, disk, shm, archived>>

-----------------------------------------------------------------------------
Next ==
  \/ \E fold \in Folds, query \in Queries : Step(fold, query)
  \/ Restart
  \/ \E t \in DOMAIN disk : LoadFromDisk(t)

Spec == Init /\ [][Next]_vars

-----------------------------------------------------------------------------
(* Properties.                                                             *)

\* Until a recovery the lane is the run's own history: bounded, in order of
\* ticks, with nothing from the future and nothing of an earlier run.
LaneIsHistory ==
  ~loaded =>
    /\ Len(lane) <= LaneSize
    /\ \A i \in DOMAIN lane :
         /\ lane[i].tick <= tick
         /\ \A j \in 1..(i - 1) : lane[j].tick < lane[i].tick

\* A session file this run wrote whole holds every trace of the lane up to its
\* tick: what the lane then drops is on disk, whatever is rejected, whichever
\* later writes fail.
ArchiveComplete ==
  ~loaded =>
    \A t \in archived :
      /\ Len(disk[t].traces) = disk[t].count
      /\ \A i \in DOMAIN lane : lane[i].tick <= t => lane[i] \in Range(disk[t].traces)
=============================================================================
