---------------------------- MODULE BridgeServer ----------------------------
(***************************************************************************)
(* One connection of brain-integration/bridge_server.py: the loop that     *)
(* reads the client's messages and the asyncio task it starts for every    *)
(* request.  Both run on one event loop, so an action is what happens      *)
(* between two suspensions (ws.send, sleep, run_in_executor).  A frame is  *)
(* written before its send suspends; a send on a lost connection raises.   *)
(* ping and pong keep no state and are left out.                           *)
(***************************************************************************)
EXTENDS Naturals, Sequences, SequencesExt

CONSTANTS
  Ids,       \* request ids the client uses
  Slots,     \* bound: tasks of the connection
  MaxWords   \* bound: words of a reply

ASSUME BridgeServerAssumption ==
  /\ Slots \in Nat /\ MaxWords \in Nat

VARIABLES
  router,  \* could router.py be imported
  tasks,   \* id -> index of its task, 0 where the dictionary has no entry
  task,    \* the asyncio tasks, in order of creation
  open,    \* the connection
  reader   \* is handle_connection in its loop

vars == <<router, tasks, task, open, reader>>

Pcs == {"created", "routing", "stream", "closing", "finished", "cancelled"}
Done == {"finished", "cancelled"}

Running(t) == task[t].pc \notin Done
Live(entry) == entry # 0 /\ Running(entry)
Cancelled(t) == task[t].pc = "cancelled"

Init ==
  /\ router \in BOOLEAN
  /\ tasks = [id \in Ids |-> 0] /\ task = <<>>
  /\ open = TRUE /\ reader = TRUE

-----------------------------------------------------------------------------
(* The reader.                                                             *)

\* task.cancel() on every task of S: the exception is thrown when the task
\* next runs.
Cancelling(S) ==
  [t \in DOMAIN task |->
     IF t \in S THEN [task[t] EXCEPT !.cancel = TRUE] ELSE task[t]]

Enter(id, t) == [tasks EXCEPT ![id] = t]

Request(id) ==
  /\ reader /\ Len(task) < Slots
  /\ task' = Append(task, [id |-> id, pc |-> "created", cancel |-> FALSE,
                           told |-> FALSE, words |-> 0, sent |-> <<>>])
  /\ tasks' = Enter(id, Len(task) + 1)
  /\ UNCHANGED <<router, open, reader>>

\* What the loop's finally block does: cancel the entries not done.
\* Variant: it cancels the tasks that wait for the router only.
StopReaderRouting ==
  /\ reader' = FALSE
  /\ task' = Cancelling({t \in {tasks[id] : id \in Ids} \ {0} : task[t].pc = "routing"})

StopReader ==
  /\ reader' = FALSE
  /\ task' = Cancelling({t \in {tasks[id] : id \in Ids} : Live(t)})

\* History: told marks the tasks of an id of which a cancel was read.
Told(id, ts) ==
  [t \in DOMAIN ts |-> [ts[t] EXCEPT !.told = @ \/ ts[t].id = id]]

\* Variant: the entry is removed, the task goes on.
CancelForget(id) ==
  /\ reader
  /\ tasks' = [tasks EXCEPT ![id] = 0]
  /\ task' = Told(id, task)
  /\ UNCHANGED <<reader, router, open>>

\* A task that runs is cancelled without a word; otherwise the answer is
\* "cancelled", and failing to send it ends the loop.
Cancel(id) ==
  /\ reader
  /\ \/ /\ Live(tasks[id])
        /\ task' = Told(id, Cancelling({tasks[id]})) /\ UNCHANGED reader
     \/ /\ ~Live(tasks[id]) /\ open
        /\ task' = Told(id, task) /\ UNCHANGED reader
     \/ /\ ~Live(tasks[id]) /\ ~open
        /\ StopReader
  /\ UNCHANGED <<router, tasks, open>>

\* The connection is lost, or a message is not an object.
ReaderStops ==
  /\ reader /\ StopReader
  /\ UNCHANGED <<router, tasks, open>>

ConnectionLost ==
  /\ open /\ open' = FALSE
  /\ UNCHANGED <<router, tasks, task, reader>>

-----------------------------------------------------------------------------
(* A task.                                                                 *)

Step(t, pc) == task' = [task EXCEPT ![t].pc = pc]

\* The finally block of stream_response, and the end of the task.
\* Variant: the entry stays.
EndKeeping(t, pc) == Step(t, pc) /\ UNCHANGED tasks

End(t, pc) == Step(t, pc) /\ tasks' = [tasks EXCEPT ![task[t].id] = 0]

\* A frame goes out and the task suspends at pc; on a lost connection the
\* error frame fails too and the task ends.
Send(t, frame, pc) ==
  \/ /\ open
     /\ task' = [task EXCEPT ![t].sent = Append(@, frame), ![t].pc = pc]
     /\ UNCHANGED tasks
  \/ ~open /\ End(t, "finished")

\* A cancelled task runs: before its first step no part of its body does.
Interrupt(t) ==
  /\ task[t].cancel
  /\ \/ task[t].pc = "created" /\ Step(t, "cancelled") /\ UNCHANGED tasks
     \/ task[t].pc # "created" /\ End(t, "cancelled")

Start(t) ==
  /\ task[t].pc = "created" /\ ~task[t].cancel
  /\ \/ router /\ Step(t, "routing") /\ UNCHANGED tasks
     \/ ~router /\ Send(t, "error", "closing")

\* router.route returns a reply, or an error, or raises.
\* Variant: a failure ends the task without an answer.
RouteQuiet(t) ==
  /\ task[t].pc = "routing" /\ ~task[t].cancel
  /\ \/ \E words \in 0..MaxWords :
          /\ task' = [task EXCEPT ![t].pc = "stream", ![t].words = words]
          /\ UNCHANGED tasks
     \/ End(t, "finished")

Route(t) ==
  /\ task[t].pc = "routing" /\ ~task[t].cancel
  /\ \/ \E words \in 0..MaxWords :
          /\ task' = [task EXCEPT ![t].pc = "stream", ![t].words = words]
          /\ UNCHANGED tasks
     \/ Send(t, "error", "closing")

\* The check the loop makes before every word: the table's task of this id
\* is cancelled.  It never is this task itself.
SeesCancelled(t) == LET e == tasks[task[t].id] IN e # 0 /\ Cancelled(e)

Stream(t) ==
  /\ task[t].pc = "stream" /\ ~task[t].cancel
  /\ \/ /\ Len(task[t].sent) < task[t].words
        /\ \/ SeesCancelled(t) /\ End(t, "finished")
           \/ ~SeesCancelled(t) /\ Send(t, "chunk", "stream")
     \/ /\ Len(task[t].sent) >= task[t].words
        /\ Send(t, "done", "closing")

Close(t) ==
  /\ task[t].pc = "closing" /\ ~task[t].cancel
  /\ End(t, "finished")

Resume(t) ==
  /\ t \in DOMAIN task /\ Running(t)
  /\ Interrupt(t) \/ Start(t) \/ Route(t) \/ Stream(t) \/ Close(t)
  /\ UNCHANGED <<router, open, reader>>

-----------------------------------------------------------------------------
Next ==
  \/ \E id \in Ids : Request(id) \/ Cancel(id)
  \/ ReaderStops \/ ConnectionLost
  \/ \E t \in 1..Slots : Resume(t)

Spec == Init /\ [][Next]_vars

\* The event loop runs every task that is ready, sends drain or fail, and the
\* router's thread returns.  The client owes nothing.
FairSpec == Spec /\ \A t \in 1..Slots : WF_vars(Resume(t))

-----------------------------------------------------------------------------
(* Properties.                                                             *)

\* The client has used the task's id for this task only.
Sole(t) == \A u \in DOMAIN task : task[u].id = task[t].id => u = t

\* Once the server has read a cancel, a task under an id of its own sends no
\* further frame: cancelling and the finally blocks leave no task behind that
\* still streams.
SilentAfterCancel ==
  [][\A t \in DOMAIN task :
       Sole(t) /\ task[t].told => task'[t].sent = task[t].sent]_vars

\* The dictionary holds every running task with an id of its own; when it
\* holds one that is over, that was cancelled before its first step and its
\* finally block never ran.
TableExact ==
  \A t \in DOMAIN task :
    /\ Sole(t) /\ Running(t) => tasks[task[t].id] = t
    /\ tasks[task[t].id] = t /\ ~Running(t) =>
         Cancelled(t) /\ task[t].words = 0 /\ task[t].sent = <<>>

\* When the reader has left its loop every task with an id of its own that
\* still runs is being cancelled: nothing goes on for a client that is gone.
StopCancelsAll ==
  ~reader => \A t \in DOMAIN task : Sole(t) /\ Running(t) => task[t].cancel

\* Every request is answered in the end, unless the client cancels the id or
\* the connection or its reader is gone - also when ids are used twice.
Answered ==
  \A t \in 1..Slots :
    t \in DOMAIN task ~>
      /\ t \in DOMAIN task
      /\ \/ {"done", "error"} \cap Range(task[t].sent) # {}
         \/ task[t].told \/ ~open \/ ~reader
=============================================================================
