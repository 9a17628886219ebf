------------------------- MODULE BridgeServerProofs -------------------------
(***************************************************************************)
(* What the dictionary of running tasks is good for, for any ids, number   *)
(* of tasks and length of replies.  The entry of an id is the latest task  *)
(* of that id (Entries); with it a cancel read by the loop, or its end,    *)
(* reaches every task that has an id of its own (Reached), and a cancelled *)
(* task sends nothing.                                                     *)
(***************************************************************************)
EXTENDS BridgeServer, SequenceTheorems, TLAPS

Frames == {"error", "chunk", "done"}

Tasks == [id : Ids, pc : Pcs, cancel : BOOLEAN, told : BOOLEAN,
          words : Nat, sent : Seq(Frames)]

TypeOK ==
  /\ router \in BOOLEAN /\ open \in BOOLEAN /\ reader \in BOOLEAN
  /\ tasks \in [Ids -> Nat] /\ task \in Seq(Tasks)

\* An entry is a task of its id.
Entries ==
  \A id \in Ids : tasks[id] # 0 =>
    tasks[id] \in DOMAIN task /\ task[tasks[id]].id = id

\* A task that has not begun has done nothing.
Fresh ==
  \A t \in DOMAIN task : task[t].pc = "created" =>
    task[t].words = 0 /\ task[t].sent = <<>>

\* A cancel that was read has reached the task.
Reached ==
  \A t \in DOMAIN task : Sole(t) /\ Running(t) /\ task[t].told => task[t].cancel

IInv == TypeOK /\ Entries /\ Fresh /\ TableExact /\ Reached /\ StopCancelsAll

-----------------------------------------------------------------------------
(* What the reader and a task can change.                                  *)

\* The reader marks tasks, no more: the rest of every task stays.
Marked ==
  /\ task' \in Seq(Tasks) /\ DOMAIN task' = DOMAIN task
  /\ \A t \in DOMAIN task :
       /\ task'[t].id = task[t].id /\ task'[t].pc = task[t].pc
       /\ task'[t].words = task[t].words /\ task'[t].sent = task[t].sent
       /\ task[t].cancel => task'[t].cancel

\* Task t becomes r; its entry goes when its finally block runs.
Becomes(t, r) ==
  /\ task' = [task EXCEPT ![t] = r]
  /\ r \in Tasks /\ r.pc # "created"
  /\ r.id = task[t].id /\ r.cancel = task[t].cancel /\ r.told = task[t].told
  /\ task[t].cancel => r.sent = task[t].sent
  /\ \/ tasks' = [tasks EXCEPT ![task[t].id] = 0] /\ r.pc \in Done
     \/ tasks' = tasks /\ r.pc \notin Done
     \/ /\ tasks' = tasks /\ r.pc = "cancelled" /\ task[t].pc = "created"
        /\ r.words = task[t].words /\ r.sent = task[t].sent

LEMMA TaskType ==
  ASSUME TypeOK, NEW t \in DOMAIN task
  PROVE  task[t] \in Tasks /\ t \in 1..Len(task) /\ Len(task) \in Nat /\ t # 0
<1>1. task \in Seq(Tasks)
  BY DEF TypeOK
<1>2. Len(task) \in Nat /\ DOMAIN task = 1..Len(task) /\ task \in [1..Len(task) -> Tasks]
  BY <1>1, LenProperties
<1> QED
  BY <1>2

LEMMA ResumeBecomes ==
  ASSUME TypeOK, NEW t \in DOMAIN task, Resume(t)
  PROVE  \E r : Becomes(t, r)
<1>1. task[t] \in Tasks /\ tasks \in [Ids -> Nat] /\ open \in BOOLEAN
  BY TaskType DEF TypeOK
<1> DEFINE at(pc) == [task[t] EXCEPT !.pc = pc]
           with(frame, pc) == [task[t] EXCEPT !.sent = Append(@, frame), !.pc = pc]
<1>2. ASSUME NEW pc \in Pcs
      PROVE  /\ at(pc) \in Tasks /\ at(pc).pc = pc /\ at(pc).id = task[t].id
             /\ at(pc).cancel = task[t].cancel /\ at(pc).told = task[t].told
             /\ at(pc).words = task[t].words /\ at(pc).sent = task[t].sent
  BY <1>1 DEF Tasks
<1>3. ASSUME NEW pc \in Pcs, NEW frame \in Frames
      PROVE  /\ with(frame, pc) \in Tasks /\ with(frame, pc).pc = pc
             /\ with(frame, pc).id = task[t].id
             /\ with(frame, pc).cancel = task[t].cancel
             /\ with(frame, pc).told = task[t].told
  <2>1. Append(task[t].sent, frame) \in Seq(Frames)
    BY <1>1, AppendProperties DEF Tasks
  <2> QED
    BY <1>1, <2>1 DEF Tasks
<1>4. ASSUME NEW pc \in Done, End(t, pc) PROVE \E r : Becomes(t, r)
  <2>1. task' = [task EXCEPT ![t] = at(pc)] /\ tasks' = [tasks EXCEPT ![task[t].id] = 0]
    BY <1>4 DEF End, Step
  <2>2. pc \in Pcs /\ pc # "created"
    BY DEF Done, Pcs
  <2>3. Becomes(t, at(pc))
    BY <1>2, <2>1, <2>2 DEF Becomes
  <2> QED
    BY <2>3
<1>5. ASSUME NEW pc \in Pcs \ (Done \cup {"created"}), NEW frame \in Frames,
             ~task[t].cancel, Send(t, frame, pc)
      PROVE  \E r : Becomes(t, r)
  <2>1. CASE open /\ task' = [task EXCEPT ![t].sent = Append(@, frame), ![t].pc = pc]
             /\ UNCHANGED tasks
    <3>1. task' = [task EXCEPT ![t] = with(frame, pc)]
      BY <1>1, <2>1
    <3>2. pc \in Pcs /\ pc # "created" /\ pc \notin Done /\ tasks' = tasks
          /\ ~task[t].cancel
      BY <1>5, <2>1
    <3> HIDE DEF with
    <3>3. Becomes(t, with(frame, pc))
      BY <1>3, <3>1, <3>2 DEF Becomes
    <3> QED
      BY <3>3
  <2>2. CASE ~open /\ End(t, "finished")
    BY <1>4, <2>2 DEF Done
  <2> QED
    BY <1>5, <2>1, <2>2 DEF Send
<1>6. CASE Interrupt(t)
  <2>1. CASE task[t].pc = "created" /\ Step(t, "cancelled") /\ UNCHANGED tasks
    <3>1. task' = [task EXCEPT ![t] = at("cancelled")]
      BY <2>1 DEF Step
    <3>2. Becomes(t, at("cancelled"))
      BY <1>2, <2>1, <3>1 DEF Becomes, Pcs
    <3> QED
      BY <3>2
  <2>2. CASE task[t].pc # "created" /\ End(t, "cancelled")
    BY <1>4, <2>2 DEF Done
  <2> QED
    BY <1>6, <2>1, <2>2 DEF Interrupt
<1>7. CASE Start(t)
  <2>1. CASE router /\ Step(t, "routing") /\ UNCHANGED tasks
    <3>1. task' = [task EXCEPT ![t] = at("routing")]
      BY <2>1 DEF Step
    <3>2. Becomes(t, at("routing"))
      BY <1>2, <2>1, <3>1 DEF Becomes, Pcs, Done
    <3> QED
      BY <3>2
  <2>2. CASE ~router /\ Send(t, "error", "closing")
    BY <1>5, <1>7, <2>2 DEF Start, Pcs, Done, Frames
  <2> QED
    BY <1>7, <2>1, <2>2 DEF Start
<1>8. CASE Route(t)
  <2>1. ASSUME NEW words \in 0..MaxWords,
               task' = [task EXCEPT ![t].pc = "stream", ![t].words = words], UNCHANGED tasks
        PROVE  \E r : Becomes(t, r)
    <3> DEFINE r == [task[t] EXCEPT !.pc = "stream", !.words = words]
    <3>1. task' = [task EXCEPT ![t] = r]
      BY <1>1, <2>1
    <3>2. words \in Nat
      BY BridgeServerAssumption
    <3>3. /\ r \in Tasks /\ r.pc = "stream" /\ r.id = task[t].id /\ r.sent = task[t].sent
          /\ r.cancel = task[t].cancel /\ r.told = task[t].told
      BY <1>1, <3>2 DEF Tasks, Pcs
    <3>4. Becomes(t, r)
      BY <2>1, <3>1, <3>3 DEF Becomes, Done
    <3> QED
      BY <3>4
  <2>2. CASE Send(t, "error", "closing")
    BY <1>5, <1>8, <2>2 DEF Route, Pcs, Done, Frames
  <2> QED
    BY <1>8, <2>1, <2>2 DEF Route
<1>9. CASE Stream(t)
  <2>1. CASE End(t, "finished")
    BY <1>4, <2>1 DEF Done
  <2>2. CASE Send(t, "chunk", "stream") \/ Send(t, "done", "closing")
    BY <1>5, <1>9, <2>2 DEF Stream, Pcs, Done, Frames
  <2> QED
    BY <1>9, <2>1, <2>2 DEF Stream
<1>10. CASE Close(t)
  BY <1>4, <1>10 DEF Close, Done
<1> QED
  BY <1>6, <1>7, <1>8, <1>9, <1>10 DEF Resume

\* task.cancel() only marks.
LEMMA CancellingTypes ==
  ASSUME TypeOK, NEW S
  PROVE  /\ Cancelling(S) \in Seq(Tasks) /\ DOMAIN Cancelling(S) = DOMAIN task
         /\ \A t \in DOMAIN task :
              /\ Cancelling(S)[t].id = task[t].id /\ Cancelling(S)[t].pc = task[t].pc
              /\ Cancelling(S)[t].words = task[t].words
              /\ Cancelling(S)[t].sent = task[t].sent
              /\ Cancelling(S)[t].told = task[t].told
              /\ task[t].cancel => Cancelling(S)[t].cancel
              /\ t \in S => Cancelling(S)[t].cancel
<1> DEFINE ts == Cancelling(S)
<1>1. /\ Len(task) \in Nat /\ DOMAIN task = 1..Len(task)
      /\ \A t \in DOMAIN task : task[t] \in Tasks
  BY TaskType, LenProperties DEF TypeOK
<1>2. DOMAIN ts = DOMAIN task
  BY DEF Cancelling
<1>3. ASSUME NEW t \in DOMAIN task
      PROVE  /\ ts[t] \in Tasks /\ ts[t].told = task[t].told
             /\ ts[t].id = task[t].id /\ ts[t].pc = task[t].pc
             /\ ts[t].words = task[t].words /\ ts[t].sent = task[t].sent
             /\ task[t].cancel => ts[t].cancel
             /\ t \in S => ts[t].cancel
  <2>1. CASE t \in S
    <3>1. ts[t] = [task[t] EXCEPT !.cancel = TRUE]
      BY <2>1 DEF Cancelling
    <3> QED
      BY <1>1, <3>1 DEF Tasks
  <2>2. CASE t \notin S
    <3>1. ts[t] = task[t]
      BY <2>2 DEF Cancelling
    <3> QED
      BY <1>1, <2>2, <3>1
  <2> QED
    BY <2>1, <2>2
<1>4. ts \in Seq(Tasks)
  <2>1. ts = [t \in 1..Len(task) |-> ts[t]]
    BY <1>1 DEF Cancelling
  <2> HIDE DEF ts
  <2>2. ts \in [1..Len(task) -> Tasks]
    BY <1>1, <1>3, <2>1
  <2> QED
    BY <1>1, <2>2
<1> HIDE DEF ts
<1> QED
  BY <1>2, <1>3, <1>4 DEF ts

LEMMA CancellingMarks ==
  ASSUME TypeOK, NEW S, task' = Cancelling(S)
  PROVE  Marked /\ \A t \in DOMAIN task : /\ task'[t].told = task[t].told
                                          /\ t \in S => task'[t].cancel
BY CancellingTypes DEF Marked

\* So does reading a cancel.
LEMMA TellingMarks ==
  ASSUME TypeOK, NEW id \in Ids, NEW ts \in Seq(Tasks), task' = Told(id, ts),
         DOMAIN ts = DOMAIN task,
         \A t \in DOMAIN task :
            /\ ts[t].id = task[t].id /\ ts[t].pc = task[t].pc
            /\ ts[t].words = task[t].words /\ ts[t].sent = task[t].sent
            /\ ts[t].told = task[t].told
            /\ task[t].cancel => ts[t].cancel
  PROVE  Marked /\ \A t \in DOMAIN task : /\ task'[t].told = (task[t].told \/ task[t].id = id)
                                          /\ ts[t].cancel => task'[t].cancel
<1>1. Len(ts) \in Nat /\ DOMAIN ts = 1..Len(ts) /\ \A t \in DOMAIN ts : ts[t] \in Tasks
  BY LenProperties
<1>2. DOMAIN task' = DOMAIN task
  BY DEF Told
<1>3. ASSUME NEW t \in DOMAIN task
      PROVE  /\ task'[t] \in Tasks /\ task'[t].told = (task[t].told \/ task[t].id = id)
             /\ task'[t].id = task[t].id /\ task'[t].pc = task[t].pc
             /\ task'[t].words = task[t].words /\ task'[t].sent = task[t].sent
             /\ task[t].cancel => task'[t].cancel
             /\ ts[t].cancel => task'[t].cancel
  <2>1. task'[t] = [ts[t] EXCEPT !.told = @ \/ ts[t].id = id]
    BY DEF Told
  <2>2. ts[t] \in Tasks
    BY <1>1
  <2> QED
    BY <2>1, <2>2 DEF Tasks
<1>4. task' \in Seq(Tasks)
  <2>1. task' \in [1..Len(ts) -> Tasks]
    <3>1. \A t \in 1..Len(ts) : task'[t] \in Tasks
      BY <1>1, <1>3
    <3>2. task' = [t \in 1..Len(ts) |-> task'[t]]
      BY <1>1 DEF Told
    <3> QED
      BY <3>1, <3>2
  <2> QED
    BY <1>1, <2>1
<1> QED
  BY <1>2, <1>3, <1>4 DEF Marked

-----------------------------------------------------------------------------
(* The invariant.                                                          *)

LEMMA InitInv == Init => IInv
<1> SUFFICES ASSUME Init PROVE IInv
  OBVIOUS
<1>1. TypeOK
  BY EmptySeq DEF Init, TypeOK
<1>2. DOMAIN task = {}
  BY DEF Init
<1> QED
  BY <1>1, <1>2 DEF Init, IInv, Entries, Fresh, TableExact, Reached, StopCancelsAll

\* A request's task takes over the entry of its id.
LEMMA RequestInv ==
  ASSUME IInv, NEW id \in Ids, Request(id)
  PROVE  IInv'
<1> DEFINE n == Len(task) + 1
           new == [id |-> id, pc |-> "created", cancel |-> FALSE,
                   told |-> FALSE, words |-> 0, sent |-> <<>>]
<1>1. /\ task \in Seq(Tasks) /\ tasks \in [Ids -> Nat] /\ Len(task) \in Nat
      /\ DOMAIN task = 1..Len(task) /\ \A t \in DOMAIN task : task[t] \in Tasks
  BY TaskType, LenProperties DEF IInv, TypeOK
<1>2. new \in Tasks
  BY EmptySeq DEF Tasks, Pcs
<1>3. /\ task' \in Seq(Tasks) /\ DOMAIN task' = DOMAIN task \cup {n} /\ n \notin DOMAIN task
      /\ task'[n] = new /\ \A t \in DOMAIN task : task'[t] = task[t]
  <2>1. task' = Append(task, new)
    BY DEF Request
  <2> HIDE DEF new
  <2>2. /\ task' \in Seq(Tasks) /\ Len(task') = n /\ task'[n] = new
        /\ \A t \in 1..Len(task) : task'[t] = task[t]
    BY <1>1, <1>2, <2>1, AppendProperties
  <2>3. DOMAIN task' = 1..n
    BY <2>2, LenProperties
  <2> QED
    BY <1>1, <2>2, <2>3
<1>4. /\ tasks' \in [Ids -> Nat] /\ tasks'[id] = n /\ n \in Nat /\ n # 0
      /\ \A x \in Ids \ {id} : tasks'[x] = tasks[x]
  BY <1>1 DEF Request, Enter
<1>5. TypeOK'
  BY <1>3, <1>4 DEF IInv, TypeOK, Request
<1>6. ASSUME NEW t \in DOMAIN task, Sole(t)'
      PROVE  Sole(t) /\ task[t].id # id
  BY <1>3, <1>6 DEF Sole
<1> HIDE DEF n
<1>7. Entries'
  BY <1>3, <1>4 DEF IInv, Entries
<1>8. Fresh'
  BY <1>3 DEF IInv, Fresh
<1>9. TableExact'
  <2>1. ASSUME NEW t \in DOMAIN task
        PROVE  /\ Sole(t)' /\ Running(t)' => tasks'[task'[t].id] = t
               /\ tasks'[task'[t].id] = t /\ ~Running(t)' =>
                    Cancelled(t)' /\ task'[t].words = 0 /\ task'[t].sent = <<>>
    <3>1. task'[t] = task[t] /\ task[t].id \in Ids
      BY <1>1, <1>3 DEF Tasks
    <3>2. task[t].id = id => tasks'[task[t].id] # t
      BY <1>3, <1>4
    <3>3. task[t].id # id => tasks'[task[t].id] = tasks[task[t].id]
      BY <1>4, <3>1
    <3>4. Running(t)' = Running(t) /\ Cancelled(t)' = Cancelled(t)
      BY <3>1 DEF Running, Cancelled
    <3> QED
      BY <1>6, <3>1, <3>2, <3>3, <3>4 DEF IInv, TableExact
  <2>2. ASSUME NEW t \in DOMAIN task', t \notin DOMAIN task
        PROVE  tasks'[task'[t].id] = t /\ Running(t)'
    BY <1>3, <1>4, <2>2 DEF Running, Done
  <2> QED
    BY <1>3, <2>1, <2>2 DEF TableExact
<1>10. Reached'
  <2>1. ASSUME NEW t \in DOMAIN task, Sole(t)', Running(t)', task'[t].told
        PROVE  task'[t].cancel
    BY <1>3, <1>6, <2>1 DEF IInv, Reached, Running
  <2>2. ASSUME NEW t \in DOMAIN task', t \notin DOMAIN task
        PROVE  ~task'[t].told
    BY <1>3, <2>2
  <2> QED
    BY <1>3, <2>1, <2>2 DEF Reached
<1>11. StopCancelsAll'
  BY DEF Request, StopCancelsAll
<1> QED
  BY <1>5, <1>7, <1>8, <1>9, <1>10, <1>11 DEF IInv

\* Marking moves no task.
LEMMA MarkedKeeps ==
  ASSUME TypeOK, Marked, NEW t \in DOMAIN task
  PROVE  Sole(t)' = Sole(t) /\ Running(t)' = Running(t) /\ Cancelled(t)' = Cancelled(t)
BY DEF Marked, Sole, Running, Cancelled

LEMMA MarkedInv ==
  ASSUME TypeOK, Marked, tasks' = tasks
  PROVE  /\ Entries => Entries'
         /\ Fresh => Fresh'
         /\ TableExact => TableExact'
<1>1. Entries => Entries'
  BY DEF Marked, Entries
<1>2. Fresh => Fresh'
  BY DEF Marked, Fresh
<1>3. TableExact => TableExact'
  BY MarkedKeeps DEF Marked, TableExact
<1> QED
  BY <1>1, <1>2, <1>3

\* The end of the loop reaches every task with an id of its own: the entry
\* of that id is the task.
LEMMA StopReaches ==
  ASSUME IInv, StopReader
  PROVE  /\ Marked
         /\ \A t \in DOMAIN task : Sole(t) /\ Running(t) => task'[t].cancel
         /\ \A t \in DOMAIN task : task'[t].told = task[t].told
<1> DEFINE S == {t \in {tasks[id] : id \in Ids} : Live(t)}
<1>1. task' = Cancelling(S) /\ TypeOK
  BY DEF StopReader, IInv
<1>2. Marked /\ \A t \in DOMAIN task : /\ task'[t].told = task[t].told
                                       /\ t \in S => task'[t].cancel
  <2> HIDE DEF S
  <2> QED
    BY <1>1, CancellingMarks
<1>3. ASSUME NEW t \in DOMAIN task, Sole(t), Running(t) PROVE t \in S
  <2>1. task[t].id \in Ids /\ t # 0
    BY <1>1, TaskType DEF Tasks
  <2>2. tasks[task[t].id] = t
    BY <1>3 DEF IInv, TableExact
  <2> QED
    BY <1>3, <2>1, <2>2 DEF Live
<1> QED
  BY <1>2, <1>3

LEMMA StopInv ==
  ASSUME IInv, StopReader, UNCHANGED <<router, tasks, open>>
  PROVE  IInv'
<1>1. /\ Marked /\ TypeOK
      /\ \A t \in DOMAIN task : Sole(t) /\ Running(t) => task'[t].cancel
  BY StopReaches DEF IInv
<1>2. TypeOK'
  BY <1>1 DEF Marked, TypeOK, StopReader
<1>3. Entries' /\ Fresh' /\ TableExact'
  BY <1>1, MarkedInv DEF IInv
<1>4. Reached' /\ StopCancelsAll'
  BY <1>1, MarkedKeeps DEF Marked, Reached, StopCancelsAll
<1> QED
  BY <1>2, <1>3, <1>4 DEF IInv

LEMMA CancelMarks ==
  ASSUME IInv, NEW id \in Ids, Cancel(id)
  PROVE  Marked
<1>1. TypeOK /\ task \in Seq(Tasks)
  BY DEF IInv, TypeOK
<1>2. CASE task' = Told(id, Cancelling({tasks[id]}))
  <2> DEFINE ts == Cancelling({tasks[id]})
  <2>1. /\ ts \in Seq(Tasks) /\ DOMAIN ts = DOMAIN task
        /\ \A t \in DOMAIN task :
              /\ ts[t].id = task[t].id /\ ts[t].pc = task[t].pc
              /\ ts[t].words = task[t].words /\ ts[t].sent = task[t].sent
              /\ ts[t].told = task[t].told
              /\ task[t].cancel => ts[t].cancel
    BY <1>1, CancellingTypes
  <2>2. task' = Told(id, ts)
    BY <1>2
  <2> HIDE DEF ts
  <2> QED
    BY <1>1, <2>1, <2>2, TellingMarks
<1>3. CASE task' = Told(id, task)
  BY <1>1, <1>3, TellingMarks
<1>4. CASE StopReader
  BY <1>4, StopReaches
<1> QED
  BY <1>2, <1>3, <1>4 DEF Cancel

\* A cancel that is read reaches the task of its id.
LEMMA CancelInv ==
  ASSUME IInv, NEW id \in Ids, Cancel(id)
  PROVE  IInv'
<1>1. TypeOK /\ task \in Seq(Tasks)
  BY DEF IInv, TypeOK
<1>2. ASSUME NEW ts \in Seq(Tasks), task' = Told(id, ts), UNCHANGED <<reader, router, tasks, open>>,
             DOMAIN ts = DOMAIN task,
             \A t \in DOMAIN task :
                /\ ts[t].id = task[t].id /\ ts[t].pc = task[t].pc
                /\ ts[t].words = task[t].words /\ ts[t].sent = task[t].sent
                /\ ts[t].told = task[t].told
                /\ task[t].cancel => ts[t].cancel,
             Live(tasks[id]) => ts[tasks[id]].cancel
      PROVE  IInv'
  <2>1. Marked /\ \A t \in DOMAIN task : /\ task'[t].told = (task[t].told \/ task[t].id = id)
                                         /\ ts[t].cancel => task'[t].cancel
    BY <1>1, <1>2, TellingMarks
  <2>2. TypeOK'
    BY <1>2, <2>1 DEF Marked, TypeOK, IInv
  <2>3. Entries' /\ Fresh' /\ TableExact'
    BY <1>1, <1>2, <2>1, MarkedInv DEF IInv
  <2>4. Reached'
    <3>1. ASSUME NEW t \in DOMAIN task, Sole(t), Running(t), task'[t].told
          PROVE  task'[t].cancel
      <4>1. CASE task[t].told
        BY <2>1, <3>1, <4>1 DEF IInv, Reached, Marked
      <4>2. CASE task[t].id = id
        <5>1. tasks[id] = t /\ t # 0
          BY <1>1, <3>1, <4>2, TaskType DEF IInv, TableExact
        <5> QED
          BY <1>2, <2>1, <3>1, <5>1 DEF Live
      <4> QED
        BY <2>1, <3>1, <4>1, <4>2
    <3> QED
      BY <1>1, <2>1, <3>1, MarkedKeeps DEF Marked, Reached
  <2>5. StopCancelsAll'
    BY <1>2 DEF Cancel, StopCancelsAll
  <2> QED
    BY <2>2, <2>3, <2>4, <2>5 DEF IInv
<1>3. CASE Live(tasks[id]) /\ task' = Told(id, Cancelling({tasks[id]})) /\ UNCHANGED reader
  <2> DEFINE ts == Cancelling({tasks[id]})
  <2>1. /\ ts \in Seq(Tasks) /\ DOMAIN ts = DOMAIN task
        /\ \A t \in DOMAIN task :
                /\ ts[t].id = task[t].id /\ ts[t].pc = task[t].pc
                /\ ts[t].words = task[t].words /\ ts[t].sent = task[t].sent
                /\ ts[t].told = task[t].told
                /\ task[t].cancel => ts[t].cancel
                /\ t = tasks[id] => ts[t].cancel
    BY <1>1, CancellingTypes
  <2>2. tasks[id] \in DOMAIN task
    BY <1>3 DEF IInv, Entries, Live
  <2> HIDE DEF ts
  <2>3. task' = Told(id, ts) /\ UNCHANGED <<reader, router, tasks, open>>
    BY <1>3 DEF Cancel, ts
  <2> QED
    BY <1>2, <2>1, <2>2, <2>3
<1>4. CASE ~Live(tasks[id]) /\ task' = Told(id, task) /\ UNCHANGED reader
  BY <1>1, <1>2, <1>4 DEF Cancel
<1>5. CASE StopReader
  BY <1>5, StopInv DEF Cancel
<1> QED
  BY <1>3, <1>4, <1>5 DEF Cancel

\* A task's own steps: its entry goes exactly when its finally block runs,
\* and no other task's entry is touched.
LEMMA BecomesInv ==
  ASSUME IInv, NEW t \in DOMAIN task, NEW r, Becomes(t, r), Running(t),
         UNCHANGED <<router, open, reader>>
  PROVE  IInv'
<1>1. /\ TypeOK /\ task \in Seq(Tasks) /\ Len(task) \in Nat /\ DOMAIN task = 1..Len(task)
      /\ tasks \in [Ids -> Nat] /\ \A u \in DOMAIN task : task[u] \in Tasks /\ u # 0
  BY TaskType, LenProperties DEF IInv, TypeOK
<1>2. /\ DOMAIN task' = DOMAIN task /\ task'[t] = r
      /\ \A u \in DOMAIN task \ {t} : task'[u] = task[u]
  BY DEF Becomes
<1>3. task' \in Seq(Tasks)
  BY <1>1, ExceptSeq DEF Becomes
<1>4. /\ r.id = task[t].id /\ r.cancel = task[t].cancel /\ r.told = task[t].told
      /\ r.pc # "created" /\ task[t].id \in Ids
  BY <1>1 DEF Becomes, Tasks
<1>5. \/ tasks' = [tasks EXCEPT ![task[t].id] = 0] /\ r.pc \in Done
      \/ tasks' = tasks /\ r.pc \notin Done
      \/ /\ tasks' = tasks /\ r.pc = "cancelled" /\ task[t].pc = "created"
         /\ r.words = task[t].words /\ r.sent = task[t].sent
  BY DEF Becomes
<1>6. TypeOK'
  BY <1>1, <1>3, <1>4, <1>5 DEF TypeOK
<1>7. \A u \in DOMAIN task : task'[u].id = task[u].id
  BY <1>2, <1>4
<1>8. \A u \in DOMAIN task : Sole(u)' = Sole(u)
  BY <1>2, <1>7 DEF Sole
<1>9. \A u \in DOMAIN task : Running(u)' => Running(u)
  BY <1>2 DEF Running
<1>10. Entries'
  BY <1>1, <1>2, <1>4, <1>5, <1>7 DEF IInv, Entries
<1>11. Fresh'
  BY <1>2, <1>4 DEF IInv, Fresh
<1>12. TableExact'
  <2> SUFFICES ASSUME NEW u \in DOMAIN task
               PROVE  /\ Sole(u) /\ Running(u)' => tasks'[task[u].id] = u
                      /\ tasks'[task[u].id] = u /\ ~Running(u)' =>
                           task'[u].pc = "cancelled" /\ task'[u].words = 0 /\ task'[u].sent = <<>>
    BY <1>2, <1>7, <1>8 DEF TableExact, Cancelled
  <2>1. task[u].id \in Ids
    BY <1>1 DEF Tasks
  <2>2. CASE u = t
    <3>1. CASE tasks' = [tasks EXCEPT ![task[t].id] = 0] /\ r.pc \in Done
      BY <1>1, <1>2, <1>4, <2>2, <3>1 DEF Running
    <3>2. CASE tasks' = tasks /\ r.pc \notin Done
      BY <1>2, <1>9, <2>2, <3>2 DEF Running, IInv, TableExact
    <3>3. CASE /\ tasks' = tasks /\ r.pc = "cancelled" /\ task[t].pc = "created"
               /\ r.words = task[t].words /\ r.sent = task[t].sent
      BY <1>2, <2>2, <3>3 DEF Running, Done, IInv, Fresh
    <3> QED
      BY <1>5, <3>1, <3>2, <3>3
  <2>3. CASE u # t
    <3>1. task'[u] = task[u] /\ Running(u)' = Running(u)
      BY <1>2, <2>3 DEF Running
    <3>2. Sole(u) => task[u].id # task[t].id
      BY <2>3 DEF Sole
    <3>3. \/ tasks'[task[u].id] = tasks[task[u].id]
          \/ task[u].id = task[t].id /\ tasks'[task[u].id] = 0
      BY <1>1, <1>4, <1>5, <2>1
    <3> QED
      BY <1>1, <3>1, <3>2, <3>3 DEF IInv, TableExact, Cancelled
  <2> QED
    BY <2>2, <2>3
<1>13. Reached'
  BY <1>2, <1>4, <1>8, <1>9 DEF IInv, Reached
<1>14. StopCancelsAll'
  BY <1>2, <1>4, <1>8, <1>9 DEF IInv, StopCancelsAll
<1> QED
  BY <1>6, <1>10, <1>11, <1>12, <1>13, <1>14 DEF IInv

LEMMA NextInv == IInv /\ [Next]_vars => IInv'
<1> SUFFICES ASSUME IInv, [Next]_vars PROVE IInv'
  OBVIOUS
<1>1. ASSUME NEW id \in Ids, Request(id) PROVE IInv'
  BY <1>1, RequestInv
<1>2. ASSUME NEW id \in Ids, Cancel(id) PROVE IInv'
  BY <1>2, CancelInv
<1>3. CASE ReaderStops
  BY <1>3, StopInv DEF ReaderStops
<1>4. CASE ConnectionLost
  BY <1>4 DEF ConnectionLost, IInv, TypeOK, Entries, Fresh, TableExact, Reached,
              StopCancelsAll, Sole, Running, Cancelled
<1>5. ASSUME NEW t \in 1..Slots, Resume(t) PROVE IInv'
  <2>1. t \in DOMAIN task /\ Running(t) /\ UNCHANGED <<router, open, reader>>
    BY <1>5 DEF Resume
  <2>2. PICK r : Becomes(t, r)
    BY <1>5, <2>1, ResumeBecomes DEF IInv
  <2> QED
    BY <2>1, <2>2, BecomesInv
<1>6. CASE UNCHANGED vars
  BY <1>6 DEF vars, IInv, TypeOK, Entries, Fresh, TableExact, Reached,
              StopCancelsAll, Sole, Running, Cancelled
<1> QED
  BY <1>1, <1>2, <1>3, <1>4, <1>5, <1>6 DEF Next

LEMMA Invariance == Spec => []IInv
BY InitInv, NextInv, PTL DEF Spec

-----------------------------------------------------------------------------
(* The theorems.                                                           *)

\* The dictionary of running tasks holds every running task that has an id
\* of its own, and a task that is over only when it was cancelled before its
\* first step.
THEOREM DictionaryIsExact == Spec => []TableExact
BY Invariance, PTL DEF IInv

\* When handle_connection has left its loop, every task with an id of its
\* own that still runs is being cancelled.
THEOREM LeavingCancelsAll == Spec => []StopCancelsAll
BY Invariance, PTL DEF IInv

\* After the server has read a cancel, the task of that id sends no further
\* frame.
THEOREM NoFrameAfterCancel == Spec => SilentAfterCancel
<1> DEFINE Silent == \A t \in DOMAIN task :
                       Sole(t) /\ task[t].told => task'[t].sent = task[t].sent
<1>1. ASSUME IInv, Next PROVE Silent
  <2> SUFFICES ASSUME NEW u \in DOMAIN task, Sole(u), task[u].told
               PROVE  task'[u].sent = task[u].sent
    OBVIOUS
  <2>1. ASSUME NEW id \in Ids, Request(id) PROVE task'[u].sent = task[u].sent
    <3>1. task'[u] = task[u]
      BY <1>1, <2>1, AppendProperties, LenProperties DEF Request, IInv, TypeOK
    <3> QED
      BY <3>1
  <2>2. ASSUME NEW id \in Ids, Cancel(id) PROVE task'[u].sent = task[u].sent
    BY <1>1, <2>2, CancelMarks DEF Marked
  <2>3. CASE ReaderStops
    BY <1>1, <2>3, StopReaches DEF ReaderStops, Marked
  <2>4. CASE ConnectionLost
    BY <2>4 DEF ConnectionLost
  <2>5. ASSUME NEW t \in 1..Slots, Resume(t) PROVE task'[u].sent = task[u].sent
    <3>1. t \in DOMAIN task /\ Running(t)
      BY <2>5 DEF Resume
    <3>2. PICK r : Becomes(t, r)
      BY <1>1, <2>5, <3>1, ResumeBecomes DEF IInv
    <3>3. CASE t = u
      <4>1. task[t].cancel
        BY <1>1, <3>1, <3>3 DEF IInv, Reached
      <4> QED
        BY <3>1, <3>2, <3>3, <4>1 DEF Becomes
    <3>4. CASE t # u
      BY <3>2, <3>4 DEF Becomes
    <3> QED
      BY <3>3, <3>4
  <2> QED
    BY <1>1, <2>1, <2>2, <2>3, <2>4, <2>5 DEF Next
<1>2. IInv /\ [Next]_vars => [Silent]_vars
  BY <1>1
<1> QED
  BY <1>2, Invariance, PTL DEF Spec, SilentAfterCancel
=============================================================================
