------------------------------ MODULE MCDelivery ------------------------------
(***************************************************************************)
(* How results reach the callbacks, for TLC: the executor of the in-memory *)
(* downloads, one such download, and the dispatcher of the progress        *)
(* callbacks.  In each behaviour one scenario with bounds of its own; both *)
(* dispatchers use the variable thread.                                    *)
(***************************************************************************)
EXTENDS Naturals

CONSTANTS Scenarios, t1, t2, l1, l2

VARIABLES scenario, thread,
          sched, at, cmds, events, acks, chan, registry, outstanding, bodies, open, closer, dropped,
          accepted, told, cancel, faults,                                     \* executor
          phase, attempt, origin, url, hops, size, total, capacity, from, canceled, result, \* download
          status, offset, emits, todo, stage, sender, queue, job, listeners, used, owed, ran, last

executorVars == <<sched, at, cmds, events, acks, chan, registry, outstanding, bodies, open, closer,
                  dropped, accepted, told, cancel, faults>>
downloadVars == <<phase, attempt, origin, url, hops, size, total, capacity, from, canceled, result>>
callbackVars == <<status, offset, emits, todo, stage, sender, queue, job, listeners, used, owed,
                  ran, last>>
vars == <<scenario, thread, executorVars, downloadVars, callbackVars>>

\* Two tasks that callers may cancel, and dispatcher threads that end, die in a
\* callback or cannot be started.
Faulty == INSTANCE BinaryExecutor WITH
  Task <- {t1, t2}, Cancelable <- {t1, t2}, MaxConcurrency <- 2, MaxOutstanding <- 2,
  Faults <- {"exits", "dies", "nostart"}, MaxFaults <- 2

\* Two tasks for one place, and dispatcher threads that end between two jobs.
Executor == INSTANCE BinaryExecutor WITH
  Task <- {t1, t2}, Cancelable <- {}, MaxConcurrency <- 1, MaxOutstanding <- 2,
  Faults <- {"exits", "nostart"}, MaxFaults <- 2

\* Lengths below, at and above every limit.
Download == INSTANCE BinaryDownload WITH
  GlobalMax <- 7, TaskMax <- 5, RetryDelays <- 2, RedirectLimit <- 1, InitialReserve <- 2,
  UnknownReserve <- 1, Sizes <- {0, 2, 5, 6}

\* A queue of two jobs, and callbacks that return.
Callbacks == INSTANCE CallbackDispatcher WITH
  Task <- {t1}, Listener <- {l1}, Capacity <- 2, MaxEmits <- 5, MayWait <- FALSE

\* A queue of one job, two listeners, and callbacks that wait for the scheduler.
Blocking == INSTANCE CallbackDispatcher WITH
  Task <- {t1}, Listener <- {l1, l2}, Capacity <- 1, MaxEmits <- 3, MayWait <- TRUE

NoExecutor ==
  /\ sched = {} /\ at = {} /\ cmds = {} /\ events = {} /\ acks = {} /\ chan = {} /\ registry = {}
  /\ outstanding = {} /\ bodies = {} /\ open = {} /\ closer = {} /\ dropped = {} /\ accepted = {}
  /\ told = {} /\ cancel = {} /\ faults = {}
NoDownload ==
  /\ phase = {} /\ attempt = {} /\ origin = {} /\ url = {} /\ hops = {} /\ size = {} /\ total = {}
  /\ capacity = {} /\ from = {} /\ canceled = {} /\ result = {}
NoCallbacks ==
  /\ status = {} /\ offset = {} /\ emits = {} /\ todo = {} /\ stage = {} /\ sender = {} /\ queue = {}
  /\ job = {} /\ listeners = {} /\ used = {} /\ owed = {} /\ ran = {} /\ last = {}

Init ==
  /\ scenario \in Scenarios
  /\ \/ scenario = "faulty" /\ Faulty!Init /\ NoDownload /\ NoCallbacks
     \/ scenario = "executor" /\ Executor!Init /\ NoDownload /\ NoCallbacks
     \/ scenario = "download" /\ Download!Init /\ thread = "none" /\ NoExecutor /\ NoCallbacks
     \/ scenario = "callbacks" /\ Callbacks!Init /\ NoExecutor /\ NoDownload
     \/ scenario = "blocking" /\ Blocking!Init /\ NoExecutor /\ NoDownload

ExecutorKept == UNCHANGED <<scenario, downloadVars, callbackVars>>
DownloadKept == UNCHANGED <<scenario, thread, executorVars, callbackVars>>
CallbacksKept == UNCHANGED <<scenario, executorVars, downloadVars>>

FaultyStep == scenario = "faulty" /\ Faulty!Next /\ ExecutorKept
ExecutorStep == scenario = "executor" /\ Executor!Next /\ ExecutorKept
DownloadStep == scenario = "download" /\ Download!Next /\ DownloadKept
CallbacksStep == scenario = "callbacks" /\ Callbacks!Next /\ CallbacksKept
BlockingStep == scenario = "blocking" /\ Blocking!Next /\ CallbacksKept

Next == FaultyStep \/ ExecutorStep \/ DownloadStep \/ CallbacksStep \/ BlockingStep

\* The loops of the schedulers run, and so does a download.
Looping ==
  \/ scenario = "executor" /\ Executor!Looping /\ ExecutorKept
  \/ scenario = "download" /\ Download!Step /\ DownloadKept
  \/ scenario = "callbacks" /\ Callbacks!Looping /\ CallbacksKept

\* The dispatcher threads run, and callbacks return in bounded time.
Calling ==
  \/ scenario = "executor" /\ Executor!Calling /\ ExecutorKept
  \/ scenario = "callbacks" /\ Callbacks!Calling /\ CallbacksKept

\* A download of the executor ends: requests time out.
Ending(t) == scenario = "executor" /\ (\E r \in {"Ok", "Err"} : Executor!WorkerEnds(t, r)) /\ ExecutorKept

FairSpec ==
  /\ Init /\ [][Next]_vars
  /\ WF_vars(Looping) /\ WF_vars(Calling) /\ WF_vars(Ending(t1)) /\ WF_vars(Ending(t2))

-----------------------------------------------------------------------------
(* Properties                                                              *)

\* The pools are exact in every state: a place is taken for each task that is
\* queued, pending, downloading or whose callback has not returned, whatever
\* path it took and however its dispatcher ended (OutstandingPermit, body_slots).
PoolsAreExact ==
  /\ scenario = "faulty" => Faulty!PoolsAreExact
  /\ scenario = "executor" => Executor!PoolsAreExact

\* A stop wins over a body that had already arrived: after cancel() returned Ok
\* the callback is never given the body, a download stopped by close is told
\* just that, and a close that is complete has told every accepted task
\* (the event handler of run_scheduler and its drain).
StopIsHonoured ==
  /\ scenario = "faulty" => Faulty!StopIsHonoured /\ Faulty!CompleteMeansTold
  /\ scenario = "executor" => Executor!StopIsHonoured /\ Executor!CompleteMeansTold

\* What a download hands over is one whole response within the task's limit,
\* whatever failed attempts received before; its memory never exceeds the limit
\* however the server frames the body; and an https task is never continued over
\* http (download_with_retry, download_once, reject_redirect).
OkIsOneResponse ==
  scenario = "download" =>
    Download!OkIsOneResponse /\ Download!MemoryIsBounded /\ Download!StaysSecure

\* Every record other than a Transmission, and every completion, reaches its
\* callback once and in order, whatever the queue dropped in between and
\* whichever callbacks panicked; none is left when the dispatcher was joined, and
\* a listener that stayed has heard the end (CbSubmit, start_for,
\* shutdown_callback_dispatcher).
NothingOwedIsLost ==
  scenario \in {"callbacks", "blocking"} =>
    Blocking!NothingOwedIsLost /\ Blocking!JoinReplaysAll /\ Blocking!ListenersHearTheEnd

\* Somebody waits: a caller of close() or for the end of a task, the thread of a
\* dropped executor, a download, or the scheduler for its dispatcher.
Waiting ==
  \/ scenario = "executor" /\ Executor!Owing
  \/ scenario = "download" /\ phase # "returned"
  \/ scenario = "callbacks" /\ Callbacks!HeldUp

\* Nobody waits for ever: every accepted task is told its end unless the
\* executor is dropped or its dispatcher cannot be kept alive, close() is
\* answered, a dropped executor stops, downloads return, and the scheduler gets
\* rid of what it emits and joins its dispatcher (run_scheduler, invoke_progress_cb).
WaitsEnd == Waiting ~> ~Waiting

=============================================================================
