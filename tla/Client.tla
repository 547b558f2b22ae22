-------------------------------- MODULE Client --------------------------------
(***************************************************************************)
(* MeowClient (meow_client.rs) and the outer half of its two executors     *)
(* (Executor in inner/executor.rs, BinaryExecutor in binary/executor.rs):  *)
(* who may use a client while it is being closed, and how far a close that *)
(* fails, or whose caller goes away, gets.  A scheduler loop is reduced to *)
(* taking commands, ending tasks and draining; modules Scheduler and       *)
(* BinaryExecutor hold the loops themselves.                               *)
(***************************************************************************)
EXTENDS Naturals, Sequences

CONSTANTS Caller,          \* threads that use the client
          Callback,        \* the one among them that runs user callbacks
          PounceTask, BinaryTask,
          QueueCapacity,   \* command_queue_capacity
          MayDrop,         \* futures callers may drop: of a "plain" or "mixed"
                           \* close, of another "call"
          MayDie           \* executors whose scheduler thread may panic

Exec == {"pounce", "binary"}
Task == PounceTask \cup BinaryTask
ExecOf(t) == IF t \in PounceTask THEN "pounce" ELSE "binary"

VARIABLES
  lifecycle,   \* BinaryLifecycle, without the fields of CloseFailed
  already,     \* those fields: already[e], e is closed
  closed,      \* the closed flag
  dropped,     \* the client has been dropped
  loop,        \* loop[e] : the scheduler thread of e
  queue,       \* queue[e] : its command channel
  live,        \* tasks the loops know and have not reported the end of
  reply,       \* reply[e] : answer to the Close command
  complete,    \* complete[e] : close_invoked, CLOSE_COMPLETE
  closer,      \* closer[e] : where the close() of e is
  supervisor,  \* the close supervisor thread is running
  pc,          \* pc[c] : where the call of c is
  arg,         \* arg[c] : its task or executor
  notified,    \* callers whose registered notification has fired
  accepted,    \* tasks whose submission returned Ok
  reported,    \* tasks whose callbacks have been told the end or Paused
  succeeded    \* some close() has returned Ok

lifeVars == <<lifecycle, already, closed, dropped>>
execVars == <<loop, queue, live, reply, complete>>
callVars == <<pc, arg, notified>>
seenVars == <<accepted, reported, succeeded>>
vars == <<lifeVars, execVars, closer, supervisor, callVars, seenVars>>

NoArg == "none"

Init ==
  /\ lifecycle = "Open" /\ closed = FALSE /\ dropped = FALSE
  /\ already = [e \in Exec |-> FALSE]
  /\ loop = [e \in Exec |-> "absent"]
  /\ queue = [e \in Exec |-> <<>>]
  /\ live = {}
  /\ reply = [e \in Exec |-> "none"]
  /\ complete = [e \in Exec |-> FALSE]
  /\ closer = [e \in Exec |-> "none"]
  /\ supervisor = FALSE
  /\ pc = [c \in Caller |-> IF c = Callback THEN "outside" ELSE "idle"]
  /\ arg = [c \in Caller |-> NoArg]
  /\ notified = {}
  /\ accepted = {} /\ reported = {} /\ succeeded = FALSE

Published == {e \in Exec : loop[e] # "absent"}

GoTo(c, where, what) ==
  /\ pc' = [pc EXCEPT ![c] = where]
  /\ arg' = [arg EXCEPT ![c] = what]

Return(c) == GoTo(c, "idle", NoArg)

-----------------------------------------------------------------------------
(* Submissions and controls                                                *)

\* lock_open_lifecycle.
LockOpen == lifecycle = "Open" /\ ~closed

\* get_exec_locked and get_binary_exec_locked publish an executor on first use.
Ensure(e) == loop' = [loop EXCEPT ![e] = IF @ = "absent" THEN "running" ELSE @]

\* try_send fails on a full channel and on one without a receiver.
TrySend(e, cmd) ==
  /\ loop[e] # "exited" /\ Len(queue[e]) < QueueCapacity
  /\ queue' = [queue EXCEPT ![e] = Append(@, cmd)]

\* try_enqueue, first part: the client is open, build the task.
BeginEnqueue(c, t) ==
  /\ pc[c] = "idle" /\ ~closed /\ ~dropped
  /\ t \in PounceTask \ accepted
  /\ \A b \in Caller : arg[b] # t
  /\ GoTo(c, "building", t)
  /\ UNCHANGED <<lifeVars, execVars, closer, supervisor, notified, seenVars>>

\* The task is built, or not; take the lock, publish the executor, submit.
\* enqueue_and_wait then awaits the end of the task.
Enqueue(c) ==
  LET t == arg[c]
      cmd == [type |-> "Enqueue", task |-> t]
  IN  /\ pc[c] = "building"
      /\ \/ /\ LockOpen
            /\ Ensure("pounce")
            /\ TrySend("pounce", cmd)
            /\ accepted' = accepted \cup {t}
            /\ Return(c) \/ (c # Callback /\ GoTo(c, "awaiting", t))
         \/ /\ Return(c)
            /\ (LockOpen /\ Ensure("pounce")) \/ UNCHANGED loop
            /\ UNCHANGED <<queue, accepted>>
      /\ UNCHANGED <<lifeVars, live, reply, complete, closer, supervisor, notified,
                     reported, succeeded>>

\* try_enqueue_binary_task holds the lock throughout.
EnqueueBinary(c, t) ==
  /\ pc[c] = "idle" /\ ~dropped /\ LockOpen
  /\ t \in BinaryTask \ accepted
  /\ Ensure("binary")
  /\ \/ /\ TrySend("binary", [type |-> "Enqueue", task |-> t])
        /\ accepted' = accepted \cup {t}
     \/ UNCHANGED <<queue, accepted>>
  /\ UNCHANGED <<lifeVars, live, reply, complete, closer, supervisor, callVars,
                 reported, succeeded>>

\* enqueue_and_wait: the one-shot is used by the end of the task, or dropped
\* with the callbacks when the loop is gone.
AwaitEnds(c) ==
  /\ pc[c] = "awaiting"
  /\ arg[c] \in reported \/ loop["pounce"] = "exited"
  /\ Return(c)
  /\ UNCHANGED <<lifeVars, execVars, closer, supervisor, notified, seenVars>>

\* pause, resume, cancel and snapshot: pick the executor under the lock ...
Control(c, e) ==
  /\ pc[c] = "idle" /\ c # Callback /\ ~dropped /\ LockOpen
  /\ e = "binary" => e \in Published
  /\ Ensure(e)
  /\ GoTo(c, "sending", e)
  /\ UNCHANGED <<lifeVars, queue, live, reply, complete, closer, supervisor,
                 notified, seenVars>>

\* ... and send to it without.
ControlSend(c) ==
  LET e == arg[c]
  IN  /\ pc[c] = "sending"
      /\ \/ loop[e] = "exited" /\ Return(c) /\ UNCHANGED queue
         \/ /\ TrySend(e, [type |-> "Control", by |-> c])
            /\ GoTo(c, "replying", e)
      /\ UNCHANGED <<lifeVars, loop, live, reply, complete, closer, supervisor,
                     notified, seenVars>>

\* The channel, and with it the one-shot, was dropped unanswered.
ControlLost(c) ==
  /\ pc[c] = "replying" /\ loop[arg[c]] = "exited"
  /\ Return(c)
  /\ UNCHANGED <<lifeVars, execVars, closer, supervisor, notified, seenVars>>

-----------------------------------------------------------------------------
(* The scheduler loops                                                     *)

TakeCommand(e) ==
  LET cmd == Head(queue[e])
  IN  /\ loop[e] = "running" /\ queue[e] # <<>>
      /\ queue' = [queue EXCEPT ![e] = Tail(@)]
      /\ CASE cmd.type = "Enqueue" ->
                live' = live \cup {cmd.task} /\ UNCHANGED <<loop, pc, arg>>
           [] cmd.type = "Close"   ->
                loop' = [loop EXCEPT ![e] = "draining"] /\ UNCHANGED <<live, pc, arg>>
           [] OTHER                ->
                \* The answer of a call whose future is gone goes nowhere.
                /\ \/ pc[cmd.by] = "replying" /\ arg[cmd.by] = e /\ Return(cmd.by)
                   \/ ~(pc[cmd.by] = "replying" /\ arg[cmd.by] = e) /\ UNCHANGED <<pc, arg>>
                /\ UNCHANGED <<loop, live>>
      /\ UNCHANGED <<lifeVars, reply, complete, closer, supervisor, notified, seenVars>>

TaskEnds(t) ==
  /\ t \in live /\ loop[ExecOf(t)] \in {"running", "draining"}
  /\ live' = live \ {t}
  /\ reported' = reported \cup {t}
  /\ UNCHANGED <<lifeVars, loop, queue, reply, complete, closer, supervisor, callVars,
                 accepted, succeeded>>

TasksOf(e) == {t \in live : ExecOf(t) = e}

\* The loop leaves: its channel is dropped with what is still in it.
Exit(e, answer) ==
  /\ loop' = [loop EXCEPT ![e] = "exited"]
  /\ queue' = [queue EXCEPT ![e] = <<>>]
  /\ live' = live \ TasksOf(e)
  /\ reply' = [reply EXCEPT ![e] = answer]

\* Close has drained: every task is told, the callback thread is joined.
Drained(e) ==
  /\ loop[e] = "draining"
  /\ e = "pounce" => pc[Callback] = "outside"
  /\ reported' = reported \cup TasksOf(e)
  /\ Exit(e, "Ok") \/ (e = "binary" /\ Exit(e, "CompleteErr"))
  /\ UNCHANGED <<lifeVars, complete, closer, supervisor, callVars, accepted, succeeded>>

\* The binary loop has no callback dispatcher: it keeps its tasks and goes on.
DrainRefused ==
  /\ loop["binary"] = "draining"
  /\ loop' = [loop EXCEPT !["binary"] = "running"]
  /\ reply' = [reply EXCEPT !["binary"] = "Retryable"]
  /\ UNCHANGED <<lifeVars, queue, live, complete, closer, supervisor, callVars, seenVars>>

\* The client is gone and so is the last sender.
ChannelClosed(e) ==
  /\ dropped /\ loop[e] = "running" /\ queue[e] = <<>>
  /\ Exit(e, "none")
  /\ UNCHANGED <<lifeVars, complete, closer, supervisor, callVars, seenVars>>

\* The scheduler thread panics.
Die(e) ==
  /\ e \in MayDie /\ loop[e] \in {"running", "draining"}
  /\ Exit(e, "none")
  /\ UNCHANGED <<lifeVars, complete, closer, supervisor, callVars, seenVars>>

\* A user callback begins and ends on the callback thread.
EnterCallback ==
  /\ pc[Callback] = "outside" /\ loop["pounce"] \in {"running", "draining"}
  /\ GoTo(Callback, "idle", NoArg)
  /\ UNCHANGED <<lifeVars, execVars, closer, supervisor, notified, seenVars>>

LeaveCallback ==
  /\ pc[Callback] = "idle"
  /\ GoTo(Callback, "outside", NoArg)
  /\ UNCHANGED <<lifeVars, execVars, closer, supervisor, notified, seenVars>>

-----------------------------------------------------------------------------
(* Executor::close and BinaryExecutor::close                               *)

CloseSend(e) ==
  /\ closer[e] = "send"
  /\ \/ /\ loop[e] = "exited"
        /\ closer' = [closer EXCEPT ![e] = "failed"]
        /\ UNCHANGED <<queue, reply>>
     \/ /\ TrySend(e, [type |-> "Close"])
        /\ closer' = [closer EXCEPT ![e] = "await"]
        /\ reply' = [reply EXCEPT ![e] = "none"]
  /\ UNCHANGED <<lifeVars, loop, live, complete, supervisor, callVars, seenVars>>

\* The answer arrives, or its sender is dropped; after Ok the thread is joined.
CloseAnswered(e) ==
  /\ closer[e] = "await"
  /\ reply[e] # "none" \/ loop[e] = "exited"
  /\ closer' = [closer EXCEPT ![e] = IF reply[e] = "Ok" THEN "done" ELSE "failed"]
  /\ complete' = [complete EXCEPT ![e] = reply[e] \in {"Ok", "CompleteErr"}]
  /\ UNCHANGED <<lifeVars, loop, queue, live, reply, supervisor, callVars, seenVars>>

-----------------------------------------------------------------------------
(* MeowClient::close                                                       *)

\* is_callback_dispatcher_thread_for: a callback may not wait for itself.
FromCallback(c) == c = Callback

\* Register for the notification before looking at the lifecycle.
BeginClose(c) ==
  /\ pc[c] = "idle" /\ ~FromCallback(c) /\ ~dropped
  /\ GoTo(c, "registered", NoArg)
  /\ notified' = notified \ {c}
  /\ UNCHANGED <<lifeVars, execVars, closer, supervisor, seenVars>>

\* Faulty variant of Registered: registering when it starts to wait.
RegisteredLate == {c \in Caller : pc[c] = "waiting"}

\* notify_waiters reaches every future that was enabled.
Registered == {c \in Caller : pc[c] \in {"registered", "decided", "waiting"}}

\* Faulty variant of Skips: a retry starts over.
SkipsNot(e) == e \notin Published

\* What an attempt need not close: absent, or closed by an earlier attempt.
Skips(e) == e \notin Published \/ already[e]

Attempt == closer' = [e \in Exec |-> IF Skips(e) THEN "done" ELSE "send"]

\* Faulty variant of Mixed: a client that only submitted binary tasks is plain.
MixedBoth == Published = Exec

Mixed == "binary" \in Published

\* publish_mixed_close_result on the lifecycle.
Publish(flags) ==
  /\ already' = flags
  /\ lifecycle' = IF \A e \in Exec : flags[e] THEN "Closed" ELSE "CloseFailed"

\* Faulty variant of CanOwn: a close under way is not respected.
CanOwnAlways == lifecycle # "Closed"

\* Closing is left to its owner; Open and CloseFailed are for the taking.
CanOwn == lifecycle \in {"Open", "CloseFailed"}

\* The decision under the lifecycle lock.
DecideClose(c) ==
  LET mixed == lifecycle = "CloseFailed" \/ Mixed
  IN  /\ pc[c] = "registered"
      /\ CASE lifecycle = "Closed" -> Return(c) /\ UNCHANGED <<lifeVars, closer, supervisor>>
           [] ~CanOwn -> GoTo(c, "decided", NoArg) /\ UNCHANGED <<lifeVars, closer, supervisor>>
           [] OTHER   -> /\ lifecycle' = "Closing" /\ closed' = TRUE
                         /\ GoTo(c, IF mixed THEN "spawning" ELSE "owner", NoArg)
                         /\ IF mixed THEN UNCHANGED closer ELSE Attempt
                         /\ UNCHANGED <<already, dropped, supervisor>>
      /\ UNCHANGED <<execVars, notified, seenVars>>

\* A mixed close runs on a thread of its own, if that can be spawned.
SpawnSupervisor(c) ==
  /\ pc[c] = "spawning"
  /\ \/ /\ supervisor' = TRUE
        /\ Attempt
        /\ GoTo(c, "supervised", NoArg)
        /\ UNCHANGED <<lifecycle, already, notified>>
     \/ /\ Publish(already)
        /\ notified' = notified \cup Registered
        /\ Return(c)
        /\ UNCHANGED <<closer, supervisor>>
  /\ UNCHANGED <<closed, dropped, execVars, seenVars>>

\* A close without binary executor, back from Executor::close: Closed, or open
\* again.
PlainFinish(c) ==
  LET ok == closer["pounce"] = "done"
  IN  /\ pc[c] = "owner" /\ closer["pounce"] \in {"done", "failed"}
      /\ lifecycle' = IF ok THEN "Closed" ELSE "Open"
      /\ closed' = ok
      /\ notified' = notified \cup Registered
      /\ succeeded' = (succeeded \/ ok)
      /\ Return(c)
      /\ UNCHANGED <<already, dropped, execVars, closer, supervisor, accepted, reported>>

\* reconcile_close_progress.
Reconciled(e) == closer[e] = "done" \/ e \notin Published \/ complete[e]

\* The supervisor publishes, notifies and answers the caller, if it still waits.
SupervisorEnds(attempted) ==
  /\ supervisor' = FALSE
  /\ Publish([e \in Exec |-> Reconciled(e)])
  /\ notified' = notified \cup Registered
  /\ LET ok == attempted /\ \A e \in Exec : closer[e] = "done"
         owners == {c \in Caller : pc[c] = "supervised"}
     IN  /\ succeeded' = (succeeded \/ (ok /\ owners # {}))
         /\ pc' = [c \in Caller |-> IF c \in owners THEN "idle" ELSE pc[c]]
  /\ UNCHANGED <<closed, dropped, execVars, arg, accepted, reported>>

SupervisorFinish ==
  /\ supervisor /\ \A e \in Exec : closer[e] \in {"done", "failed"}
  /\ SupervisorEnds(TRUE)
  /\ UNCHANGED closer

\* Its runtime could not be created, or it panicked before it sent anything.
SupervisorCannotRun ==
  /\ supervisor /\ \A e \in Exec : closer[e] \in {"done", "send"}
  /\ SupervisorEnds(FALSE)
  /\ closer' = [e \in Exec |-> IF closer[e] = "send" THEN "failed" ELSE closer[e]]

\* Another close is under way: outside the lock, wait for its notification.
StartWaiting(c) ==
  /\ pc[c] = "decided"
  /\ GoTo(c, "waiting", NoArg)
  /\ UNCHANGED <<lifeVars, execVars, closer, supervisor, notified, seenVars>>

WaitEnds(c) ==
  /\ pc[c] = "waiting" /\ c \in notified
  /\ Return(c)
  /\ UNCHANGED <<lifeVars, execVars, closer, supervisor, notified, seenVars>>

-----------------------------------------------------------------------------
(* Futures and clients that go away                                        *)

\* A call is dropped where it awaits.
DropFuture(c) ==
  /\ c # Callback
  /\ \/ /\ pc[c] \in {"building", "awaiting", "sending", "replying", "waiting"}
        /\ "call" \in MayDrop
        /\ UNCHANGED closer
     \/ pc[c] = "supervised" /\ "mixed" \in MayDrop /\ UNCHANGED closer
     \/ /\ pc[c] = "owner" /\ "plain" \in MayDrop
        /\ closer["pounce"] \in {"send", "await"}
        /\ closer' = [closer EXCEPT !["pounce"] = "abandoned"]
  /\ Return(c)
  /\ UNCHANGED <<lifeVars, execVars, supervisor, notified, seenVars>>

\* Drop of the client and of its executors: one Close for each that is not
\* closed, if there is room, and then the channels are closed.  A supervisor
\* holds the executors until it ends.
DropClient ==
  /\ ~dropped /\ ~supervisor
  /\ \A c \in Caller : pc[c] \in {"idle", "outside"} /\ (c = Callback => pc[c] = "outside")
  /\ dropped' = TRUE
  /\ queue' = [e \in Exec |->
                 IF e \in Published /\ ~complete[e] /\ loop[e] # "exited"
                    /\ Len(queue[e]) < QueueCapacity
                 THEN Append(queue[e], [type |-> "Close"]) ELSE queue[e]]
  /\ UNCHANGED <<lifecycle, already, closed, loop, live, reply, complete, closer,
                 supervisor, callVars, seenVars>>

-----------------------------------------------------------------------------
CallStep(c) ==
  \/ Enqueue(c) \/ AwaitEnds(c) \/ ControlSend(c) \/ ControlLost(c)
  \/ DecideClose(c) \/ SpawnSupervisor(c) \/ PlainFinish(c) \/ StartWaiting(c) \/ WaitEnds(c)

ExecStep(e) == TakeCommand(e) \/ Drained(e) \/ ChannelClosed(e)

CloseStep(e) == CloseSend(e) \/ CloseAnswered(e)

Next ==
  \/ \E c \in Caller : \/ CallStep(c) \/ BeginClose(c) \/ DropFuture(c)
                       \/ \E t \in Task : BeginEnqueue(c, t) \/ EnqueueBinary(c, t)
                       \/ \E e \in Exec : Control(c, e)
  \/ \E e \in Exec : ExecStep(e) \/ CloseStep(e) \/ Die(e)
  \/ \E t \in Task : TaskEnds(t)
  \/ DrainRefused \/ EnterCallback \/ LeaveCallback
  \/ SupervisorFinish \/ SupervisorCannotRun \/ DropClient

Spec == Init /\ [][Next]_vars

\* What a scheduler thread and the close that waits for it do when they can.
LoopStep(e) == TakeCommand(e) \/ ChannelClosed(e) \/ CloseAnswered(e)

-----------------------------------------------------------------------------
(* Properties                                                              *)

\* A closed client leaves nothing running: every executor that was ever
\* published has left its loop, whoever raced to publish it (get_exec_locked,
\* get_binary_exec_locked, close).
ClosedLeavesNothing ==
  lifecycle = "Closed" => \A e \in Published : loop[e] = "exited"

\* A close that returned Ok is final, and every task whose submission returned
\* Ok before it has been told how it ended: nothing is accepted behind the
\* Close command (try_enqueue under the lifecycle lock).
OkMeansReported ==
  succeeded => /\ lifecycle = "Closed" /\ closed
               /\ \/ \E e \in Exec : e \in MayDie
                  \/ accepted \subseteq reported

\* There is one teardown at a time: while the client is Closing exactly one
\* caller or the supervisor is in charge of ending that state, unless the
\* future of a plain close was dropped.
OneTeardown ==
  LET owners == {c \in Caller : pc[c] \in {"owner", "spawning"}}
  IN  IF lifecycle = "Closing"
      THEN \/ closer["pounce"] = "abandoned" /\ owners = {} /\ ~supervisor
           \/ supervisor /\ owners = {}
           \/ ~supervisor /\ \E c \in Caller : owners = {c}
      ELSE owners = {} /\ ~supervisor

\* The two flags of the client agree: it is open for business exactly when no
\* close has begun, or a plain close has failed (closed, binary_lifecycle).
FlagsAgree == closed <=> lifecycle # "Open"

\* A retry after a partial failure asks only the executors that are not closed,
\* and a mixed client is never reopened (CloseFailed).
RetryIsPartial ==
  [][/\ \A e \in Exec : already[e] /\ closer'[e] = "send" => closer[e] = "send"
     /\ lifecycle \in {"CloseFailed", "Closed"} => lifecycle' # "Open"]_vars

\* Every close() returns, also one that only waits for another (close_notify).
CloseReturns ==
  \A c \in Caller : pc[c] = "registered" ~> pc[c] = "idle"

=============================================================================
