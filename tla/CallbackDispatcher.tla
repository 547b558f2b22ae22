--------------------------- MODULE CallbackDispatcher ---------------------------
(***************************************************************************)
(* The callback dispatcher (inner/cb_dispatcher.rs): the scheduler hands   *)
(* every record and completion to a bounded queue, one thread runs the     *)
(* user's callbacks from it, and the scheduler joins that thread before it *)
(* exits.  Global listeners come and go meanwhile (meow_client.rs).        *)
(***************************************************************************)
EXTENDS Naturals, Sequences, SequencesExt

CONSTANTS Task,
          Listener,   \* GlobalProgressListenerId
          Capacity,   \* CALLBACK_QUEUE_CAPACITY
          MaxEmits,   \* bound: emissions of one run
          MayWait     \* callbacks may block on a control call of their client

VARIABLES
  status,     \* status[t] : last status the scheduler emitted for t
  offset,     \* offset[t] : its progress
  emits,      \* emissions so far
  todo,       \* what the emission under way has still to submit
  stage,      \* the scheduler: "running", "stopping", "joining", "exited"
  sender,     \* cb_submit is still in SchedulerState
  queue,      \* the bounded channel
  thread,     \* the dispatcher: "idle", "running", "waiting", "exited"
  job,        \* the job it runs
  listeners,  \* the registered listeners, in order of registration
  used,       \* listener ids handed out
  owed,       \* jobs submitted that must not be lost, in order
  ran,        \* those of them whose callback was run, in order
  last        \* last[c][t] : last record c was given about t

schedVars == <<status, offset, emits, todo, stage>>
regVars == <<listeners, used>>
vars == <<schedVars, sender, queue, thread, job, regVars, owed, ran, last>>

Callbacks == {"progress"} \cup Listener
Ended == {"Complete", "Failed", "Canceled"}
NoRecord == [status |-> "none", at |-> 0]
NoJob == [cb |-> "none", task |-> "none", record |-> NoRecord]

\* CbJob::Progress and CbJob::Complete.
Job(c, t, s, o) == [cb |-> c, task |-> t, record |-> [status |-> s, at |-> o]]

\* In todo: the global listeners, whose list is read when their turn comes.
Broadcast(t, s, o) == Job("broadcast", t, s, o)

Init ==
  /\ status = [t \in Task |-> "none"] /\ offset = [t \in Task |-> 0]
  /\ emits = 0 /\ todo = <<>> /\ stage = "running" /\ sender = TRUE
  /\ queue = <<>> /\ thread = "idle" /\ job = NoJob
  /\ listeners = <<>> /\ used = {}
  /\ owed = <<>> /\ ran = <<>>
  /\ last = [c \in Callbacks |-> [t \in Task |-> NoRecord]]

-----------------------------------------------------------------------------
(* The scheduler                                                           *)

\* The statuses a task of status s may take next.
NextStatus(s) ==
  CASE s = "none" -> {"Pending"}
    [] s = "Pending" -> {"Transmission", "Paused"} \cup Ended
    [] s = "Transmission" -> {"Transmission", "Paused"} \cup Ended
    [] s = "Paused" -> {"Pending", "Canceled"}
    [] OTHER -> {}

\* emit_status: the task's callback first, then the listeners; a completed
\* task's completion callback comes last.
Emission(t, s, o) ==
  <<Job("progress", t, s, o), Broadcast(t, s, o)>>
    \o IF s = "Complete" THEN <<Job("complete", t, s, o)>> ELSE <<>>

Emit(t, s) ==
  LET o == IF s = "Transmission" THEN offset[t] + 1
           ELSE IF s = "Complete" THEN MaxEmits ELSE offset[t]
  IN  /\ stage = "running" /\ todo = <<>> /\ emits < MaxEmits
      /\ s \in NextStatus(status[t])
      /\ status' = [status EXCEPT ![t] = s]
      /\ offset' = [offset EXCEPT ![t] = o]
      /\ todo' = Emission(t, s, o)
      /\ emits' = emits + 1
      /\ UNCHANGED <<stage, sender, queue, thread, job, regVars, owed, ran, last>>

\* emit_global_progress clones the list under the read lock.
Snapshot == listeners

\* The list is read when the task's own callback has been submitted.
ReadListeners ==
  /\ todo # <<>> /\ Head(todo).cb = "broadcast"
  /\ LET b == Head(todo)
         fan == [i \in 1..Len(Snapshot) |-> [b EXCEPT !.cb = Snapshot[i]]]
     IN  todo' = fan \o Tail(todo)
  /\ UNCHANGED <<status, offset, emits, stage, sender, queue, thread, job, regVars,
                 owed, ran, last>>

\* Only Transmission frames are samples.
Sampling(j) == j.record.status = "Transmission"

MustRun(j) == j.record.status # "Transmission"

\* Faulty variant of Submit: a sample that finds no room replaces the newest job.
SubmitReplaces ==
  LET j == Head(todo)
      fits == Len(queue) < Capacity
  IN  /\ todo # <<>> /\ j.cb # "broadcast"
      /\ fits \/ Sampling(j)
      /\ queue' = IF fits THEN Append(queue, j) ELSE Append(Front(queue), j)
      /\ todo' = Tail(todo)
      /\ owed' = IF MustRun(j) THEN Append(owed, j) ELSE owed
      /\ UNCHANGED <<status, offset, emits, stage, sender, thread, job, regVars, ran, last>>

\* submit_progress and submit_complete: try_send for a sample, which a full
\* queue drops, and a blocking send for everything else.
Submit ==
  LET j == Head(todo)
      fits == Len(queue) < Capacity
  IN  /\ todo # <<>> /\ j.cb # "broadcast"
      /\ fits \/ Sampling(j)
      /\ queue' = IF fits THEN Append(queue, j) ELSE queue
      /\ todo' = Tail(todo)
      /\ owed' = IF MustRun(j) THEN Append(owed, j) ELSE owed
      /\ UNCHANGED <<status, offset, emits, stage, sender, thread, job, regVars, ran, last>>

\* The command channel closes, a Close has drained the workers, or the runtime
\* cannot be built: no emission follows.
Stop ==
  /\ stage = "running" /\ todo = <<>>
  /\ stage' = "stopping"
  /\ UNCHANGED <<status, offset, emits, todo, sender, queue, thread, job, regVars,
                 owed, ran, last>>

\* shutdown_callback_dispatcher: take_cb_submit, then join.
DropSender ==
  /\ stage = "stopping"
  /\ sender' = FALSE
  /\ stage' = "joining"
  /\ UNCHANGED <<status, offset, emits, todo, queue, thread, job, regVars, owed, ran, last>>

Join ==
  /\ stage = "joining" /\ thread = "exited"
  /\ stage' = "exited"
  /\ UNCHANGED <<status, offset, emits, todo, sender, queue, thread, job, regVars,
                 owed, ran, last>>

-----------------------------------------------------------------------------
(* The dispatcher thread                                                   *)

\* rx.recv() returns a job; the callback is entered with it.
Receive ==
  /\ thread = "idle" /\ queue # <<>>
  /\ job' = Head(queue)
  /\ queue' = Tail(queue)
  /\ thread' = "running"
  /\ ran' = IF MustRun(job') THEN Append(ran, job') ELSE ran
  /\ last' = IF job'.cb \in Callbacks
             THEN [last EXCEPT ![job'.cb][job'.task] = job'.record] ELSE last
  /\ UNCHANGED <<schedVars, sender, regVars, owed>>

CallbackReturns ==
  /\ thread = "running"
  /\ thread' = "idle"
  /\ job' = NoJob
  /\ UNCHANGED <<schedVars, sender, queue, regVars, owed, ran, last>>

\* catch_unwind: a panic is logged and forgotten.
CallbackPanics == CallbackReturns

\* The callback blocks until the scheduler has answered a control call, which
\* it does between two emissions.
CallbackWaits ==
  /\ MayWait /\ thread = "running"
  /\ thread' = "waiting"
  /\ UNCHANGED <<schedVars, sender, queue, job, regVars, owed, ran, last>>

ControlAnswered ==
  /\ thread = "waiting" /\ stage = "running" /\ todo = <<>>
  /\ thread' = "running"
  /\ UNCHANGED <<schedVars, sender, queue, job, regVars, owed, ran, last>>

\* rx.recv() fails once every sender is gone and the queue is empty.
ThreadEnds ==
  /\ thread = "idle" /\ ~sender /\ queue = <<>>
  /\ thread' = "exited"
  /\ UNCHANGED <<schedVars, sender, queue, job, regVars, owed, ran, last>>

-----------------------------------------------------------------------------
(* The listener registry, used from any thread                             *)

\* register_global_progress_listener: a copy of the list with one more.
Register(l) ==
  /\ l \notin used
  /\ listeners' = Append(listeners, l)
  /\ used' = used \cup {l}
  /\ UNCHANGED <<schedVars, sender, queue, thread, job, owed, ran, last>>

\* unregister_global_progress_listener; an unknown id changes nothing.
Unregister(l) ==
  /\ \E i \in 1..Len(listeners) :
       /\ listeners[i] = l
       /\ listeners' = RemoveAt(listeners, i)
  /\ UNCHANGED <<schedVars, sender, queue, thread, job, used, owed, ran, last>>

\* clear_global_listener.
Clear ==
  /\ listeners # <<>>
  /\ listeners' = <<>>
  /\ UNCHANGED <<schedVars, sender, queue, thread, job, used, owed, ran, last>>

Scheduling ==
  \/ \E t \in Task : \E s \in NextStatus(status[t]) : Emit(t, s)
  \/ ReadListeners \/ Submit \/ Stop \/ DropSender \/ Join

Dispatching ==
  \/ Receive \/ CallbackReturns \/ CallbackPanics \/ CallbackWaits
  \/ ControlAnswered \/ ThreadEnds

Registering == Clear \/ \E l \in Listener : Register(l) \/ Unregister(l)

Next == Scheduling \/ Dispatching \/ Registering

Spec == Init /\ [][Next]_vars

\* Both threads are OS threads that keep running, and a callback ends; the
\* scheduler need not start an emission or stop.
Looping == ReadListeners \/ Submit \/ DropSender \/ Join
Calling == Receive \/ CallbackReturns \/ ControlAnswered \/ ThreadEnds

-----------------------------------------------------------------------------
(* Properties                                                              *)

\* Every record other than a Transmission, and every completion, reaches its
\* callback once and in the order the scheduler submitted them, whatever the
\* queue dropped in between and whichever callbacks panicked (CbSubmit, start_for).
NothingOwedIsLost ==
  owed = ran \o SelectSeq(queue, MustRun)

\* When the scheduler has joined the dispatcher, no callback is left to run
\* (shutdown_callback_dispatcher).
JoinReplaysAll == stage = "exited" => ran = owed /\ thread = "exited"

\* A listener that was registered before the scheduler emitted the end of a task
\* and stayed is told that end (emit_global_progress).
ListenersHearTheEnd ==
  stage = "exited" =>
    \A t \in Task, i \in 1..Len(ran) :
      ran[i].task = t /\ ran[i].record.status \in Ended /\ ran[i].cb = "progress" =>
        \A l \in ToSet(listeners) :
          last[l][t].status = "none" \/ last[l][t].status \in Ended

\* The scheduler waits for room in the queue, or for the dispatcher to end
\* (invoke_progress_cb, invoke_complete_cb, shutdown_callback_dispatcher).
HeldUp == todo # <<>> \/ stage \in {"stopping", "joining"}
=============================================================================
