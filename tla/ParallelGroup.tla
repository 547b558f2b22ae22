---------------------------- MODULE ParallelGroup ----------------------------
(***************************************************************************)
(* The windowed driver of the parts of a file (run_group_parallel and      *)
(* spawn_part in inner/exec_impl/exec.rs) for several files that share one *)
(* memory budget (inner/exec_impl/memory_budget.rs).  Each part runs as a  *)
(* task of its own; the retries inside a part are its one state "sending". *)
(* Sending an event is one step with what causes it: that the channel to   *)
(* the scheduler is bounded is the subject of module Scheduler.            *)
(***************************************************************************)
EXTENDS PartWindow, Sequences, FiniteSetsExt, TransferLifecycle

CONSTANTS File,
          DirOf,           \* DirOf[f] : "Upload" or "Download"
          Total,           \* Total[f] : size of the file
          Chunk,           \* Chunk[f] : part size
          MaxParts,        \* MaxParts[f] : max_parts_in_flight; 1 is serial
          Starts,          \* Starts[f] : offsets prepare may resume from
          Scratch,         \* verification_scratch_bytes of an upload
          MemoryLimit,     \* limit_bytes of the shared budget
          MaxPartTasks     \* MAX_PARALLEL_PART_TASKS

\* A part size and a window of at least one, as PartWindow::new makes sure, and
\* a prepare that never resumes past the end.
Constants ==
  /\ DirOf \in [File -> {"Upload", "Download"}]
  /\ Total \in [File -> Nat]
  /\ Chunk \in [File -> Nat \ {0}]
  /\ MaxParts \in [File -> Nat \ {0}]
  /\ Starts \in [File -> SUBSET Nat]
  /\ \A f \in File : \A from \in Starts[f] : from <= Total[f]

VARIABLES
  driver,          \* where run_group is: see Driver
  start,           \* the offset prepare returned
  window,          \* the PartWindow
  part,            \* part[f][o] : the task of the part at offset o
  failed,          \* the local flags of run_group_parallel
  cancelled,
  terminal,        \* the gate shared with the scheduler
  interrupted,     \* the scheduler has cancelled the token
  waiters,         \* queue of the budget's semaphore
  outbox,          \* the terminal event
  \* what the scheduler and the provider have seen
  reported,        \* last offset sent as Progress
  stored,          \* part offsets the provider or the target file holds
  acked,           \* the object was reported complete
  abort_required,  \* the upload session is spoilt
  aborted

vars == <<driver, start, window, part, failed, cancelled, terminal, interrupted,
          waiters, outbox, reported, stored, acked, abort_required, aborted>>

\* Tasks in the JoinSet: still running, or finished and not joined yet.
Unfinished == {"spawned", "waiting", "sending"}
Finished   == {"done", "cancelled", "failed", "panicked"}

Cut(f) == [start |-> start[f], chunk |-> Chunk[f], total |-> Total[f],
           max_in_flight |-> MaxParts[f]]

Offsets(f) == 0 .. Total[f] - 1

LiveParts(f) == {o \in Offsets(f) : part[f][o] \in Unfinished \cup Finished}

\* The token of f, as its parts see it; a panic cancels it from within.
Token(f) == interrupted[f] \/ driver[f] = "drain"

Init ==
  /\ driver = [f \in File |-> "prepare"]
  /\ start = [f \in File |-> 0]
  /\ window = [f \in File |-> NewWindow(Cut(f))]
  /\ part = [f \in File |-> [o \in Offsets(f) |-> "idle"]]
  /\ failed = [f \in File |-> FALSE]
  /\ cancelled = [f \in File |-> FALSE]
  /\ terminal = [f \in File |-> OPEN]
  /\ interrupted = [f \in File |-> FALSE]
  /\ waiters = <<>>
  /\ outbox = [f \in File |-> "none"]
  /\ reported = [f \in File |-> 0]
  /\ stored = [f \in File |-> {}]
  /\ acked = [f \in File |-> FALSE]
  /\ abort_required = [f \in File |-> FALSE]
  /\ aborted = [f \in File |-> FALSE]

-----------------------------------------------------------------------------
(* Memory                                                                  *)

BodyCopies(f) == IF DirOf[f] = "Download" THEN 2 ELSE 1
ScratchOf(f) == IF DirOf[f] = "Upload" THEN Scratch ELSE 0

\* checked_parallel_part_memory_bytes of the part at o.
PartBytes(f, o) == Least(Total[f] - o, Chunk[f]) * BodyCopies(f) + ScratchOf(f)

Bytes(f, P) == FoldSet(LAMBDA o, n : n + PartBytes(f, o), 0, P)

\* validate_parallel_part_window; its sums are u128 and cannot overflow.
WindowAccepted(f, from) ==
  LET remaining == Total[f] - from
      effective == Least(MaxParts[f], (remaining - 1) \div Chunk[f] + 1)
  IN  remaining = 0 \/
      /\ effective <= MaxPartTasks
      /\ Least(effective * Chunk[f], remaining) * BodyCopies(f)
           + effective * ScratchOf(f) <= MemoryLimit

\* Faulty variant of Sending: a finished part keeps its permit.
SendingOrSent(f) == {o \in Offsets(f) : part[f][o] \in {"sending", "joined"}}

Sending(f) == {o \in Offsets(f) : part[f][o] = "sending"}

\* Permits are owned by the tasks that hold them, so they return with them.
Available == MemoryLimit - FoldSet(LAMBDA f, n : n + Bytes(f, Sending(f)), 0, File)

-----------------------------------------------------------------------------
(* The scheduler's stops (pause_group, cancel_group, Close)                *)

Active(f) == driver[f] # "exit"

RequestStop(f, gate) ==
  /\ terminal' = [terminal EXCEPT ![f] = gate]
  /\ interrupted' = [interrupted EXCEPT ![f] = @ \/ InterruptNow(terminal[f])]
  /\ UNCHANGED <<driver, start, window, part, failed, cancelled, waiters, outbox,
                 reported, stored, acked, abort_required, aborted>>

RequestPause(f)  == Active(f) /\ RequestStop(f, BeginPause(terminal[f]))
RequestCancel(f) == Active(f) /\ RequestStop(f, BeginCancel(terminal[f]))

-----------------------------------------------------------------------------
(* The driver                                                              *)

Finish(f, ev) ==
  /\ driver' = [driver EXCEPT ![f] = "exit"]
  /\ outbox' = [outbox EXCEPT ![f] = ev]

\* emit_canceled_after_quiescent_cleanup
FinishStopped(f) ==
  Finish(f, "Canceled") \/ (DirOf[f] = "Download" /\ Finish(f, "Failed"))

\* prepare succeeded; everything below the offset it returns is in place.
Prepared(f) ==
  /\ driver[f] = "prepare"
  /\ driver' = [driver EXCEPT ![f] = "begin"]
  /\ \E from \in Starts[f] :
       /\ start' = [start EXCEPT ![f] = from]
       /\ reported' = [reported EXCEPT ![f] = from]
       /\ stored' = [stored EXCEPT ![f] = 0 .. from - 1]
  /\ UNCHANGED <<window, part, failed, cancelled, terminal, interrupted, waiters,
                 outbox, acked, abort_required, aborted>>

\* require_upload_abort followed by settle_required_upload_abort.
DropSession(f) ==
  /\ abort_required' = [abort_required EXCEPT ![f] = @ \/ DirOf[f] = "Upload"]
  /\ aborted' = [aborted EXCEPT ![f] = @ \/ DirOf[f] = "Upload"]

\* The prepare loop sees the token, or gives up; a source that changed or a
\* panic also drops the session of an upload.
NotPrepared(f) ==
  /\ driver[f] = "prepare"
  /\ \/ /\ interrupted[f] /\ FinishStopped(f)
        /\ UNCHANGED <<abort_required, aborted>>
     \/ /\ Finish(f, "Failed")
        /\ DropSession(f) \/ UNCHANGED <<abort_required, aborted>>
  /\ UNCHANGED <<start, window, part, failed, cancelled, terminal, interrupted,
                 waiters, reported, stored, acked>>

\* Faulty variant of ClaimOrStop: the gate is shut whoever holds it.
ClaimAnyway(f) ==
  /\ terminal' = [terminal EXCEPT ![f] = COMPLETING]
  /\ driver' = [driver EXCEPT ![f] = "claimed"]
  /\ UNCHANGED outbox

\* Claim completion, or stop if a pause or cancel was first.
ClaimOrStop(f) ==
  IF CanClaim(terminal[f])
  THEN /\ terminal' = [terminal EXCEPT ![f] = BeginCompletion(@)]
       /\ driver' = [driver EXCEPT ![f] = "claimed"]
       /\ UNCHANGED outbox
  ELSE FinishStopped(f) /\ UNCHANGED terminal

\* A window over the memory limit fails the file and drops its session.
RejectWindow(f) ==
  /\ driver[f] = "begin" /\ ~WindowAccepted(f, start[f])
  /\ Finish(f, "Failed")
  /\ DropSession(f)
  /\ UNCHANGED <<start, window, part, failed, cancelled, terminal, interrupted,
                 waiters, reported, stored, acked>>

\* Resumed at the end of the file: nothing to transfer.
ResumeAtTotal(f) ==
  /\ driver[f] = "begin" /\ start[f] >= Total[f]
  /\ ClaimOrStop(f)
  /\ UNCHANGED <<start, window, part, failed, cancelled, interrupted, waiters,
                 reported, stored, acked, abort_required, aborted>>

OpenWindow(f) ==
  /\ driver[f] = "begin" /\ start[f] < Total[f] /\ WindowAccepted(f, start[f])
  /\ window' = [window EXCEPT ![f] = NewWindow(Cut(f))]
  /\ driver' = [driver EXCEPT ![f] = "fill"]
  /\ UNCHANGED <<start, part, failed, cancelled, terminal, interrupted, waiters,
                 outbox, reported, stored, acked, abort_required, aborted>>

\* One turn of the dispatch loop.
Dispatch(f) ==
  /\ driver[f] = "fill"
  /\ IF CanDispatch(Cut(f), window[f])
     THEN /\ part' = [part EXCEPT ![f][window[f].next_dispatch] = "spawned"]
          /\ window' = [window EXCEPT ![f] = TakeDispatch(Cut(f), @)]
          /\ UNCHANGED driver
     ELSE /\ driver' = [driver EXCEPT ![f] = "join"]
          /\ UNCHANGED <<part, window>>
  /\ UNCHANGED <<start, failed, cancelled, terminal, interrupted, waiters, outbox,
                 reported, stored, acked, abort_required, aborted>>

Joins(f, o, result) ==
  /\ part[f][o] = result
  /\ part' = [part EXCEPT ![f][o] = "joined"]

\* The window is topped up only while no part has failed or seen a stop.
Healthy(f) == ~cancelled[f] /\ ~failed[f]

\* A part is done: advance the prefix, report it if it moved, top up.
JoinDone(f, o) ==
  LET w == OnDone(Cut(f), window[f], o)
  IN  /\ driver[f] = "join" /\ Joins(f, o, "done")
      /\ window' = [window EXCEPT ![f] = w]
      /\ reported' = [reported EXCEPT ![f] = IF w.watermark # window[f].watermark
                                             THEN w.watermark ELSE @]
      /\ driver' = [driver EXCEPT ![f] = IF Healthy(f) THEN "fill" ELSE "join"]
      /\ UNCHANGED <<start, failed, cancelled, terminal, interrupted, waiters,
                     outbox, stored, acked, abort_required, aborted>>

JoinStopped(f, o) ==
  /\ driver[f] = "join"
  /\ window' = [window EXCEPT ![f] = OnSettledWithoutProgress(@)]
  /\ \/ /\ Joins(f, o, "cancelled")
        /\ cancelled' = [cancelled EXCEPT ![f] = TRUE]
        /\ UNCHANGED failed
     \/ /\ Joins(f, o, "failed")
        /\ failed' = [failed EXCEPT ![f] = TRUE]
        /\ UNCHANGED cancelled
  /\ UNCHANGED <<driver, start, terminal, interrupted, waiters, outbox, reported,
                 stored, acked, abort_required, aborted>>

\* A part panicked: cancel the token and drain the rest.
JoinPanicked(f, o) ==
  /\ driver[f] = "join" /\ Joins(f, o, "panicked")
  /\ driver' = [driver EXCEPT ![f] = "drain"]
  /\ UNCHANGED <<start, window, failed, cancelled, terminal, interrupted, waiters,
                 outbox, reported, stored, acked, abort_required, aborted>>

Drain(f, o) ==
  /\ driver[f] = "drain" /\ part[f][o] \in Finished
  /\ part' = [part EXCEPT ![f][o] = "joined"]
  /\ UNCHANGED <<driver, start, window, failed, cancelled, terminal, interrupted,
                 waiters, outbox, reported, stored, acked, abort_required, aborted>>

\* The rest has been drained: Failed, and an upload is aborted.
FailAfterPanic(f) ==
  /\ driver[f] = "drain" /\ LiveParts(f) = {}
  /\ Finish(f, "Failed")
  /\ DropSession(f)
  /\ UNCHANGED <<start, window, part, failed, cancelled, terminal, interrupted,
                 waiters, reported, stored, acked>>

\* Faulty variant of Drained: a failure ends the file at once.
DrainedOrFailed(f) == failed[f] \/ LiveParts(f) = {}

\* join_next returned None.
Drained(f) == LiveParts(f) = {}

MustFail(f) == failed[f]

\* The join barrier: a failure wins over a stop, a stop over completion.
Settle(f) ==
  /\ driver[f] = "join" /\ Drained(f)
  /\ IF MustFail(f)
     THEN /\ Finish(f, "Failed")
          /\ aborted' = [aborted EXCEPT ![f] = @ \/ abort_required[f]]
          /\ UNCHANGED terminal
     ELSE /\ IF cancelled[f] \/ Token(f) THEN FinishStopped(f) /\ UNCHANGED terminal
             ELSE IF ~IsComplete(Cut(f), window[f])
                  THEN Finish(f, "Failed") /\ UNCHANGED terminal
                  ELSE ClaimOrStop(f)
          /\ UNCHANGED aborted
  /\ UNCHANGED <<start, window, part, failed, cancelled, interrupted, waiters,
                 reported, stored, acked, abort_required>>

\* complete() succeeded; the target of a download may still fail to be released.
\* An upload resumed at its end only validates its source.
Completed(f) ==
  /\ driver[f] = "claimed"
  /\ acked' = [acked EXCEPT ![f] = TRUE]
  /\ Finish(f, "Completed") \/ (DirOf[f] = "Download" /\ Finish(f, "Failed"))
  /\ UNCHANGED <<start, window, part, failed, cancelled, terminal, interrupted,
                 waiters, reported, stored, abort_required, aborted>>

\* complete() failed; an upload whose source changed has been aborted by it. A
\* panic, or a changed source at the end of the file, drops the session.
NotCompleted(f) ==
  /\ driver[f] = "claimed"
  /\ Finish(f, "Failed")
  /\ \/ DropSession(f)
     \/ /\ \E changed \in BOOLEAN :
             aborted' = [aborted EXCEPT ![f] = @ \/ (changed /\ DirOf[f] = "Upload")]
        /\ UNCHANGED abort_required
  /\ UNCHANGED <<start, window, part, failed, cancelled, terminal, interrupted,
                 waiters, reported, stored, acked>>

-----------------------------------------------------------------------------
(* The parts                                                               *)

SetPart(f, o, state) == part' = [part EXCEPT ![f][o] = state]

partStep == <<driver, start, window, failed, cancelled, terminal, interrupted,
              outbox, reported, acked, aborted>>

\* acquire: refused when the token is cancelled or the part can never fit.
Acquire(f, o) ==
  /\ part[f][o] = "spawned"
  /\ CASE PartBytes(f, o) > MemoryLimit -> SetPart(f, o, "failed") /\ UNCHANGED waiters
       [] PartBytes(f, o) <= MemoryLimit /\ Token(f) ->
            SetPart(f, o, "cancelled") /\ UNCHANGED waiters
       [] OTHER -> /\ SetPart(f, o, "waiting")
                   /\ waiters' = Append(waiters, <<f, o>>)
  /\ UNCHANGED <<partStep, stored, abort_required>>

\* The semaphore serves its waiters in order.
Grant ==
  /\ waiters # <<>>
  /\ LET f == Head(waiters)[1]
         o == Head(waiters)[2]
     IN  /\ PartBytes(f, o) <= Available
         /\ SetPart(f, o, "sending")
  /\ waiters' = Tail(waiters)
  /\ UNCHANGED <<partStep, stored, abort_required>>

LeaveQueue(f, o) ==
  \E n \in DOMAIN waiters :
    /\ waiters[n] = <<f, o>>
    /\ waiters' = [k \in 1 .. Len(waiters) - 1 |-> IF k < n THEN waiters[k] ELSE waiters[k + 1]]

\* A cancelled acquire leaves the queue.
StopWaiting(f, o) ==
  /\ part[f][o] = "waiting" /\ Token(f)
  /\ SetPart(f, o, "cancelled")
  /\ LeaveQueue(f, o)
  /\ UNCHANGED <<partStep, stored, abort_required>>

\* The request of a part succeeds, is stopped, fails (which may spoil an upload
\* session) or panics; each way its permit is released.
PartDone(f, o) ==
  /\ part[f][o] = "sending"
  /\ SetPart(f, o, "done")
  /\ stored' = [stored EXCEPT ![f] = @ \cup o .. PartEnd(Cut(f), o) - 1]
  /\ UNCHANGED <<partStep, waiters, abort_required>>

PartStops(f, o) ==
  /\ part[f][o] = "sending" /\ Token(f)
  /\ SetPart(f, o, "cancelled")
  /\ UNCHANGED <<partStep, waiters, stored, abort_required>>

PartFails(f, o) ==
  /\ part[f][o] = "sending"
  /\ \/ /\ SetPart(f, o, "failed")
        /\ \E spoilt \in BOOLEAN :
             abort_required' = [abort_required EXCEPT
                                  ![f] = @ \/ (spoilt /\ DirOf[f] = "Upload")]
     \/ SetPart(f, o, "panicked") /\ UNCHANGED abort_required
  /\ UNCHANGED <<partStep, waiters, stored>>

-----------------------------------------------------------------------------
DriverStep(f) ==
  \/ Prepared(f) \/ NotPrepared(f) \/ RejectWindow(f) \/ ResumeAtTotal(f)
  \/ OpenWindow(f) \/ Dispatch(f)
  \/ \E o \in Offsets(f) : JoinDone(f, o) \/ JoinStopped(f, o) \/ JoinPanicked(f, o) \/ Drain(f, o)
  \/ FailAfterPanic(f) \/ Settle(f) \/ Completed(f) \/ NotCompleted(f)

PartStep(f, o) ==
  \/ Acquire(f, o) \/ StopWaiting(f, o)
  \/ PartDone(f, o) \/ PartStops(f, o) \/ PartFails(f, o)

Next ==
  \/ Grant
  \/ \E f \in File : \/ RequestPause(f) \/ RequestCancel(f) \/ DriverStep(f)
                     \/ \E o \in Offsets(f) : PartStep(f, o)

Spec == Init /\ [][Next]_vars

\* What the runtime owes: requests return, tasks are polled, and the semaphore
\* serves its queue.
Work == Grant \/ \E f \in File : DriverStep(f) \/ \E o \in Offsets(f) : PartStep(f, o)

-----------------------------------------------------------------------------
(* Properties                                                              *)

\* The offset the scheduler is told never skips a hole: every byte below it is
\* stored, whatever the order in which the parts came back (PartWindow::on_done).
PrefixIsStored == \A f \in File : 0 .. reported[f] - 1 \subseteq stored[f]

\* The window counts exactly the tasks in the JoinSet and keeps its bound
\* (take_dispatch, on_done, on_settled_without_progress).
WindowCount ==
  \A f \in File : driver[f] \in {"fill", "join"} =>
    window[f].in_flight = Cardinality(LiveParts(f)) /\ window[f].in_flight <= MaxParts[f]

\* The check before the window opens is enough for everything in flight later:
\* the parts of one file alone never exceed the budget, so no part fails for
\* memory and a file never waits for itself (validate_parallel_part_window).
WindowFits == \A f \in File : Bytes(f, LiveParts(f)) <= MemoryLimit

\* Requests of the parts never overlap what ends the file: when completion is
\* claimed, the session aborted or the terminal event decided, every part task
\* has been joined (the JoinSet barrier).
Quiescent ==
  \A f \in File : driver[f] \in {"claimed", "exit"} \/ aborted[f] => LiveParts(f) = {}

\* Completed is only reported for a file that is stored in full.
CompletedIsWhole ==
  \A f \in File : acked[f] \/ outbox[f] = "Completed" => stored[f] = Offsets(f)

\* A part that failed or panicked is never hidden by a stop or by completion,
\* and a spoilt session is aborted before Failed is sent.
FailureWins ==
  \A f \in File : failed[f] \/ driver[f] = "drain" \/ abort_required[f] =>
    /\ ~acked[f] /\ outbox[f] \in {"none", "Failed"}
    /\ outbox[f] = "Failed" /\ abort_required[f] => aborted[f]

\* Every waiter of the budget belongs to a part that still waits, once.
QueueIsLive ==
  /\ \A i \in DOMAIN waiters : part[waiters[i][1]][waiters[i][2]] = "waiting"
  /\ \A i, j \in DOMAIN waiters : waiters[i] = waiters[j] => i = j

\* The driver as the scheduler sees it.
WorkerOf(f) ==
  CASE driver[f] = "prepare" -> "prepare"
    [] driver[f] = "claimed" -> "finishing"
    [] driver[f] = "exit"    -> "exit"
    [] OTHER                 -> "transfer"

\* The driver keeps the contract the scheduler relies on.
Contract(f) ==
  INSTANCE GroupWorker WITH
    Direction <- DirOf[f],
    worker    <- WorkerOf(f),
    terminal  <- terminal[f],
    token     <- interrupted[f],
    outbox    <- outbox[f],
    acked     <- acked[f],
    aborted   <- aborted[f]

KeepsContract == \A f \in File : Contract(f)!Next \/ UNCHANGED Contract(f)!vars
=============================================================================
