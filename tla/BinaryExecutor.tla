---------------------------- MODULE BinaryExecutor ----------------------------
(***************************************************************************)
(* The executor of in-memory downloads (binary/executor.rs): the scheduler *)
(* loop, its download workers, the callback dispatcher thread that can be  *)
(* lost and replaced, the pools of outstanding tasks and of bodies, and    *)
(* cancel and close.  What one worker does is module BinaryDownload.       *)
(***************************************************************************)
EXTENDS Naturals, Sequences, SequencesExt, FiniteSets, FiniteSetsExt

CONSTANTS Task,
          Cancelable,       \* tasks some caller may cancel
          MaxConcurrency,   \* BINARY_MAX_CONCURRENCY
          MaxOutstanding,   \* BINARY_MAX_OUTSTANDING_TASKS, BINARY_COMMAND_CAPACITY
          Faults,           \* what may happen to dispatcher threads: "exits"
                            \* between jobs, "dies" in a job, "nostart"
          MaxFaults         \* how often in all (bound)

VARIABLES
  sched,        \* the local variables of run_scheduler
  at,           \* where the loop is
  cmds,         \* command channel
  events,       \* worker events: the worker has ended
  acks,         \* the channel of callback_done_tx
  thread,       \* the current dispatcher thread
  chan,         \* its job channel
  registry,     \* task ids the client may ask about
  outstanding,  \* OutstandingPool.current
  bodies,       \* permits left in body_slots
  open,         \* the client still admits (its lifecycle lock)
  closer,       \* BinaryExecutor::close
  dropped,      \* the executor is dropped: no more senders
  accepted,     \* tasks whose try_enqueue returned Ok
  told,         \* told[t] : what the callback of t was given
  cancel,       \* cancel[t] : the answer of cancel(t)
  faults        \* faults so far

loopVars == <<sched, at>>
chanVars == <<cmds, events, acks>>
threadVars == <<thread, chan>>
poolVars == <<registry, outstanding, bodies>>
userVars == <<open, closer, dropped, accepted, told, cancel>>
vars == <<loopVars, chanVars, threadVars, poolVars, userVars, faults>>

Job(t, result) == [task |-> t, result |-> result, body |-> result = "Ok"]

Init ==
  /\ sched = [pending |-> <<>>, active |-> {}, reason |-> [t \in Task |-> "none"],
              jobs |-> <<>>, inflight |-> 0, dispatcher |-> TRUE, restart |-> FALSE,
              error |-> FALSE, failed |-> FALSE, closing |-> FALSE,
              cmdClosed |-> FALSE, responder |-> FALSE]
  /\ at = "top"
  /\ cmds = <<>> /\ events = <<>> /\ acks = <<>>
  /\ thread = "idle" /\ chan = <<>>
  /\ registry = {} /\ outstanding = 0 /\ bodies = MaxConcurrency
  /\ open = TRUE /\ closer = "idle" /\ dropped = FALSE
  /\ accepted = {} /\ faults = 0
  /\ cancel = [t \in Task |-> "none"]
  /\ told = [t \in Task |-> "nothing"]

MayFault(kind) == kind \in Faults /\ faults < MaxFaults

-----------------------------------------------------------------------------
(* The steps of the loop body, on the local state s                        *)

FinishTask(s, t, result) == [s EXCEPT !.jobs = Append(@, Job(t, result))]

\* begin_close, whose callers all set closing.
BeginClose(s) ==
  [s EXCEPT !.jobs = @ \o [i \in DOMAIN s.pending |-> Job(s.pending[i], "ClientClosed")],
            !.pending = <<>>, !.closing = TRUE,
            !.reason = [t \in Task |-> IF t \in s.active THEN "close" ELSE @[t]]]

DrainAcks(s) == [s EXCEPT !.inflight = IF Len(acks) < @ THEN @ - Len(acks) ELSE 0]

\* The dispatcher thread has ended: with its job acknowledged it is replaced,
\* otherwise the executor stops working.
Reap(s) ==
  IF ~s.dispatcher \/ thread # "finished" THEN s
  ELSE IF s.inflight = 0 THEN [s EXCEPT !.dispatcher = FALSE, !.restart = TRUE]
  ELSE BeginClose([s EXCEPT !.dispatcher = FALSE, !.inflight = 0, !.failed = TRUE,
                            !.error = TRUE])

MustStart(s) == ~s.dispatcher /\ s.restart

\* start_callback_dispatcher and what its result leads to.
Restart(s, started) ==
  IF ~MustStart(s) THEN s
  ELSE IF started
  THEN [s EXCEPT !.dispatcher = TRUE, !.restart = FALSE, !.error = FALSE, !.failed = FALSE]
  ELSE BeginClose([s EXCEPT !.restart = FALSE, !.error = TRUE, !.failed = TRUE])

\* flush_callback_jobs hands over one job at a time.
Flushes(s) == s.dispatcher /\ s.inflight = 0 /\ s.jobs # <<>>

Flush(s, connected) ==
  IF ~Flushes(s) THEN s
  ELSE IF connected THEN [s EXCEPT !.jobs = Tail(@), !.inflight = 1]
  ELSE [s EXCEPT !.restart = TRUE]

\* launch_pending: as many as there are places, body permits and tasks.
Launchable(s) ==
  IF s.closing \/ s.failed THEN 0
  ELSE Min({MaxConcurrency - Cardinality(s.active), bodies, Len(s.pending)})

Launch(s) ==
  LET n == Launchable(s)
  IN  [s EXCEPT !.active = @ \cup ToSet(SubSeq(s.pending, 1, n)),
                !.pending = SubSeq(@, n + 1, Len(@))]

\* Faulty variant of Refuses: close waits for a dispatcher.
RefusesNever(s) == FALSE

\* A close without dispatcher is answered Retryable.
Refuses(s) == s.closing /\ ~s.dispatcher /\ ~s.restart /\ s.active = {}

Drained(s) ==
  /\ s.closing /\ s.dispatcher
  /\ s.pending = <<>> /\ s.active = {} /\ s.jobs = <<>> /\ s.inflight = 0

-----------------------------------------------------------------------------
(* The loop                                                                *)

\* One pass of the loop body up to select!.
Top ==
  /\ at = "top"
  /\ \E started \in BOOLEAN :
       LET s1 == Reap(DrainAcks(sched))
           fresh == MustStart(s1) /\ started
           up == fresh \/ thread \in {"idle", "busy"}
           s2 == Restart(s1, started)
           s3 == Flush(s2, up)
           s4 == Launch(s3)
           refused == Refuses(s4)
           ends == (refused /\ s4.cmdClosed) \/ Drained(s4)
           known == registry \ ToSet(acks)
       IN  /\ started \/ (MustStart(s1) /\ MayFault("nostart"))
           /\ faults' = IF started THEN faults ELSE faults + 1
           /\ sched' = IF refused
                       THEN [s4 EXCEPT !.closing = FALSE, !.responder = FALSE,
                                       !.jobs = IF s4.cmdClosed THEN <<>> ELSE @]
                       ELSE s4
           /\ closer' = IF refused /\ s4.responder THEN "retryable" ELSE closer
           /\ at' = IF refused /\ s4.cmdClosed THEN "exited"
                    ELSE IF Drained(s4) THEN "leaving" ELSE "select"
           /\ registry' = IF refused /\ s4.cmdClosed THEN {} ELSE known
           \* jobs that are cleared give their permits back
           /\ LET gone == IF refused /\ s4.cmdClosed THEN s4.jobs ELSE <<>>
              IN  /\ outstanding' = outstanding - Len(gone)
                  /\ bodies' = bodies - (Cardinality(s4.active) - Cardinality(s3.active))
                               + Len(SelectSeq(gone, LAMBDA j : j.body))
           /\ thread' = IF fresh THEN "idle" ELSE thread
           /\ LET sent == IF Len(s3.jobs) < Len(s2.jobs) THEN <<Head(s2.jobs)>> ELSE <<>>
              IN  chan' = (IF fresh THEN <<>> ELSE chan) \o sent
           /\ acks' = <<>>
  /\ UNCHANGED <<cmds, events, open, dropped, accepted, told, cancel>>

\* The other arms of select! only change the local state.
Selected(s) == sched' = s /\ at' = "top"

\* The yield that polls for a dispatcher that is about to end.
Yield ==
  /\ at = "select" /\ sched.restart
  /\ Selected(sched)
  /\ UNCHANGED <<chanVars, threadVars, poolVars, userVars, faults>>

\* cancel_task finds a download that nothing has stopped yet.
CancelActive(s, t) == t \in s.active /\ s.reason[t] = "none"

TakeCancel(t) ==
  IF t \in ToSet(sched.pending)
  THEN /\ Selected(FinishTask([sched EXCEPT !.pending = SelectSeq(@, LAMBDA p : p # t)],
                              t, "TaskCanceled"))
       /\ cancel' = [cancel EXCEPT ![t] = "Ok"]
  ELSE IF CancelActive(sched, t)
  THEN /\ Selected([sched EXCEPT !.reason[t] = "cancel"])
       /\ cancel' = [cancel EXCEPT ![t] = "Ok"]
  ELSE Selected(sched) /\ UNCHANGED cancel

TakeCommand ==
  /\ at = "select" /\ ~sched.cmdClosed /\ cmds # <<>>
  /\ cmds' = Tail(cmds)
  /\ LET cmd == Head(cmds)
     IN  \/ /\ cmd.type = "Enqueue"
            /\ Selected(IF ~sched.closing /\ ~sched.failed
                        THEN [sched EXCEPT !.pending = Append(@, cmd.task)]
                        ELSE FinishTask(sched, cmd.task, "ClientClosed"))
            /\ UNCHANGED cancel
         \/ cmd.type = "Cancel" /\ TakeCancel(cmd.task)
         \/ /\ cmd.type = "Close"
            /\ Selected(BeginClose([sched EXCEPT
                 !.responder = @ \/ cmd.answer,
                 !.restart = @ \/ ~sched.dispatcher,
                 !.error = @ /\ sched.dispatcher]))
            /\ UNCHANGED cancel
  /\ UNCHANGED <<events, acks, threadVars, poolVars, open, closer, dropped, accepted,
                 told, faults>>

\* Every sender is gone.
CommandsClosed ==
  /\ at = "select" /\ ~sched.cmdClosed /\ dropped /\ cmds = <<>>
  /\ Selected(BeginClose([sched EXCEPT !.cmdClosed = TRUE,
                                       !.restart = @ \/ ~sched.dispatcher]))
  /\ UNCHANGED <<chanVars, threadVars, poolVars, userVars, faults>>

\* Faulty variant of ResultOf: a body that did arrive is delivered.
ResultOfArrived(t, result) ==
  IF result = "Ok" THEN "Ok"
  ELSE IF sched.reason[t] = "cancel" THEN "TaskCanceled"
  ELSE IF sched.reason[t] = "close" THEN "ClientClosed" ELSE result

\* The reason a download was stopped for overrides what it returned.
ResultOf(t, result) ==
  CASE sched.reason[t] = "cancel" -> "TaskCanceled"
    [] sched.reason[t] = "close"  -> "ClientClosed"
    [] OTHER                      -> result

\* Faulty variant of Frees: the permit goes back only with the job.
FreesNever(result) == FALSE

\* Without a body to hand over, the body permit is dropped at once.
Frees(result) == result # "Ok"

TakeEvent ==
  /\ at = "select" /\ sched.active # {} /\ events # <<>>
  /\ LET e == Head(events)
         result == ResultOf(e.task, e.result)
     IN  /\ Selected(FinishTask([sched EXCEPT !.active = @ \ {e.task}], e.task, result))
         /\ bodies' = IF Frees(result) THEN bodies + 1 ELSE bodies
  /\ events' = Tail(events)
  /\ UNCHANGED <<cmds, acks, threadVars, registry, outstanding, userVars, faults>>

TakeAck ==
  /\ at = "select" /\ sched.inflight > 0 /\ acks # <<>>
  /\ Selected([sched EXCEPT !.inflight = @ - 1])
  /\ registry' = registry \ {Head(acks)}
  /\ acks' = Tail(acks)
  /\ UNCHANGED <<cmds, events, threadVars, outstanding, bodies, userVars, faults>>

\* The loop is left: join the dispatcher, answer the close, drop the channel.
Leave ==
  /\ at = "leaving" /\ chan = <<>> /\ thread # "busy"
  /\ at' = "exited" /\ thread' = "finished"
  /\ \E result \in {"complete", "complete_err"} :
       /\ result = "complete_err" => sched.error \/ thread # "idle"
       /\ closer' = IF sched.responder THEN result ELSE closer
  /\ outstanding' = outstanding - Len(SelectSeq(cmds, LAMBDA c : c.type = "Enqueue"))
  /\ cmds' = <<>>
  /\ UNCHANGED <<sched, events, acks, chan, registry, bodies, open, dropped, accepted,
                 told, cancel, faults>>

-----------------------------------------------------------------------------
(* Download workers and the dispatcher thread                              *)

Downloading == sched.active \ {e.task : e \in ToSet(events)}

\* A stopped download returns TaskCanceled, unless it was just done.
WorkerEnds(t, result) ==
  /\ t \in Downloading /\ result \in {"Ok", "Err"}
  /\ events' = Append(events, [task |-> t, result |-> result])
  /\ UNCHANGED <<loopVars, cmds, acks, threadVars, poolVars, userVars, faults>>

RunCallback ==
  /\ thread = "idle" /\ chan # <<>>
  /\ thread' = "busy"
  /\ told' = [told EXCEPT ![Head(chan).task] = Head(chan).result]
  /\ UNCHANGED <<loopVars, chanVars, chan, poolVars, open, closer, dropped, accepted,
                 cancel, faults>>

\* The job is dropped, and its permits with it.
DropJob(job) ==
  /\ outstanding' = outstanding - 1
  /\ bodies' = IF job.body THEN bodies + 1 ELSE bodies

\* Its callback has returned or panicked; the job is acknowledged.
CallbackDone ==
  /\ thread = "busy"
  /\ DropJob(Head(chan)) /\ chan' = Tail(chan)
  /\ acks' = Append(acks, Head(chan).task)
  /\ \/ thread' = "idle" /\ UNCHANGED faults
     \/ MayFault("exits") /\ thread' = "detached" /\ faults' = faults + 1
  /\ UNCHANGED <<loopVars, cmds, events, registry, userVars>>

\* A thread that has dropped its end of the job channel ends.
ThreadEnds ==
  /\ thread = "detached"
  /\ thread' = "finished"
  /\ UNCHANGED <<loopVars, chanVars, chan, poolVars, userVars, faults>>

\* The thread ends inside a job, which is lost with it.
ThreadDies ==
  /\ thread = "busy" /\ MayFault("dies")
  /\ DropJob(Head(chan)) /\ chan' = Tail(chan)
  /\ thread' = "finished" /\ faults' = faults + 1
  /\ UNCHANGED <<loopVars, chanVars, registry, userVars>>

-----------------------------------------------------------------------------
(* BinaryExecutor's methods                                                *)

\* OutstandingPool::try_acquire.
Acquires == outstanding < MaxOutstanding

\* try_enqueue; a submission that is refused leaves no trace.
TryEnqueue(t) ==
  /\ open /\ t \notin accepted
  /\ Acquires /\ at # "exited" /\ Len(cmds) < MaxOutstanding
  /\ outstanding' = outstanding + 1
  /\ registry' = registry \cup {t}
  /\ cmds' = Append(cmds, [type |-> "Enqueue", task |-> t])
  /\ accepted' = accepted \cup {t}
  /\ UNCHANGED <<loopVars, events, acks, threadVars, bodies, open, closer, dropped, told,
                 cancel, faults>>

\* cancel of a registered task, once per task (bound).
Cancel(t) ==
  /\ ~dropped /\ t \in registry \cap Cancelable /\ at # "exited" /\ Len(cmds) < MaxOutstanding
  /\ cancel[t] = "none"
  /\ cancel' = [cancel EXCEPT ![t] = "sent"]
  /\ cmds' = Append(cmds, [type |-> "Cancel", task |-> t])
  /\ UNCHANGED <<loopVars, events, acks, threadVars, poolVars, open, closer, dropped,
                 accepted, told, faults>>

\* close_state is OPEN, or BinaryCloseGuard has set it back.
MayClose == closer \in {"idle", "retryable"}

\* close, and again after a retryable failure.
Close ==
  /\ ~dropped /\ MayClose
  /\ open' = FALSE
  /\ at # "exited" /\ Len(cmds) < MaxOutstanding
  /\ cmds' = Append(cmds, [type |-> "Close", answer |-> TRUE])
  /\ closer' = "waiting"
  /\ UNCHANGED <<loopVars, events, acks, threadVars, poolVars, dropped, accepted, told,
                 cancel, faults>>

\* Drop: Close without answer if there is room, and the last sender is gone.
DropExecutor ==
  /\ ~dropped /\ closer # "waiting"
  /\ dropped' = TRUE /\ open' = FALSE
  /\ cmds' = IF closer \notin {"complete", "complete_err"} /\ at # "exited"
                /\ Len(cmds) < MaxOutstanding
             THEN Append(cmds, [type |-> "Close", answer |-> FALSE]) ELSE cmds
  /\ UNCHANGED <<loopVars, events, acks, threadVars, poolVars, closer, accepted, told,
                 cancel, faults>>

-----------------------------------------------------------------------------
SelectStep == Yield \/ TakeCommand \/ CommandsClosed \/ TakeEvent \/ TakeAck

Next ==
  \/ Top \/ SelectStep \/ Leave
  \/ RunCallback \/ CallbackDone \/ ThreadEnds \/ ThreadDies
  \/ Close \/ DropExecutor
  \/ \E t \in Task : \/ TryEnqueue(t) \/ Cancel(t)
                     \/ \E r \in {"Ok", "Err"} : WorkerEnds(t, r)

Spec == Init /\ [][Next]_vars

\* What the runtime owes: the loop runs, callbacks return in bounded time.
\* Nothing is assumed about which ready arm of select! is chosen.
Looping == Top \/ SelectStep \/ Leave
Calling == RunCallback \/ CallbackDone \/ ThreadEnds

-----------------------------------------------------------------------------
(* Properties                                                              *)

Waiting == ToSet(sched.pending)
Queued == {c.task : c \in {d \in ToSet(cmds) : d.type = "Enqueue"}}
Undelivered == ToSet(sched.jobs) \cup ToSet(chan)

\* The pools are exact in every state: a place is taken for each task that is
\* queued, pending, downloading or whose callback has not returned, whatever
\* path it took and however its dispatcher ended (OutstandingPermit, body_slots).
PoolsAreExact ==
  /\ outstanding = Cardinality(Queued \cup Waiting \cup sched.active
                                 \cup {j.task : j \in Undelivered})
  /\ bodies = MaxConcurrency - Cardinality(sched.active)
                             - Cardinality({j \in Undelivered : j.body})

\* A stop wins over a body that had already arrived: after cancel() returned Ok
\* the callback is never given the body, and a download stopped by close is told
\* just that (the reason is read when the worker's event is handled).
StopIsHonoured ==
  \A t \in Task :
    /\ cancel[t] = "Ok" => told[t] \in {"nothing", "TaskCanceled", "ClientClosed"}
    /\ sched.reason[t] = "close" => told[t] \in {"nothing", "ClientClosed"}

\* A close that is complete has told every accepted task, and no callback is
\* still running (run_scheduler drains before it answers).
CompleteMeansTold ==
  closer \in {"complete", "complete_err"} =>
    /\ thread = "finished" /\ Undelivered = {}
    /\ \A t \in accepted : told[t] # "nothing"

\* Somebody waits: for the end of an accepted task, unless the executor is
\* dropped or its dispatcher cannot be kept alive, for the answer of close(), or
\* for the thread of a dropped executor.
Owing ==
  \/ ~dropped /\ ~sched.failed /\ \E t \in accepted : told[t] = "nothing"
  \/ closer = "waiting"
  \/ dropped /\ at # "exited"
=============================================================================
