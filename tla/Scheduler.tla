------------------------------ MODULE Scheduler ------------------------------
(***************************************************************************)
(* The transfer scheduler: the command and event handlers of worker_loop   *)
(* (inner/executor.rs), the state they own (inner/scheduler_state.rs), the *)
(* event handler (inner/exec_impl/handle_worker_event.rs), try_start_next  *)
(* and the contract of its spawned workers (inner/exec_impl/exec.rs).      *)
(*                                                                         *)
(* A worker is modelled by what the scheduler can see of it: the steps it  *)
(* takes on the shared terminal gate, the events it sends, the provider    *)
(* aborts it issues.  Offsets and totals are abstracted to the task that   *)
(* reported them, which is what tells a stale entry from a live one.       *)
(***************************************************************************)
EXTENDS Naturals, Sequences, FiniteSets, Ranking, TransferLifecycle

CONSTANTS Task,          \* task ids; every submission gets a fresh one
          Key,           \* dedupe keys (direction, url or file sign)
          KeyOf,         \* KeyOf[t] : the dedupe key of task t
          DirOf,         \* DirOf[k] : the direction, first part of the key
          PresetTotal,   \* tasks whose builder already knew a non-zero size
          MaxConcurrency,\* MaxConcurrency[d] : file-level limit of a direction
          EventCapacity, \* capacity of the worker event channel
          NoTask

Direction == {"Upload", "Download"}

ASSUME SchedulerAssumption ==
  /\ IsFiniteSet(Key)
  /\ KeyOf \in [Task -> Key]
  /\ DirOf \in [Key -> Direction]
  /\ PresetTotal \subseteq Task
  /\ MaxConcurrency \in [Direction -> Nat \ {0}]
  /\ EventCapacity \in Nat \ {0}
  /\ NoTask \notin Task

VARIABLES
  \* SchedulerState
  groups,        \* groups[k] : leader task of the live group of key k
  mapped,        \* domain of task_id_to_dedupe
  queued,        \* FIFO of keys waiting for a slot
  queued_set,    \* its set mirror
  paused_set, canceling_set,
  active,        \* keys with a registered worker
  active_count,  \* active_uploads, active_downloads
  offsets,       \* offsets[k] : the task that reported the stored offset
  known_totals,  \* the same for the total size discovered at run time
  phase,         \* of worker_loop
  \* tasks and their workers
  terminal,      \* terminal[t] : the gate shared by every view of t
  cancelled,     \* keys whose current CancellationToken is cancelled
  worker,        \* worker[k] : where the worker of k is
  runner,        \* runner[k] : the task that worker transfers
  outbox,        \* the terminal event a finished worker still has to send
  worker_rx,     \* the bounded event channel
  \* what callers and the provider have seen
  submitted,     \* tasks handed to the scheduler
  status,        \* last record delivered for a task
  cancel_ok,     \* tasks whose cancel() returned Ok
  acked,         \* tasks the provider reported complete to their worker
  aborted        \* tasks whose upload session was aborted (abort_started)

schedVars == <<groups, mapped, queued, queued_set, paused_set, canceling_set,
               active, active_count, offsets, known_totals, phase>>
workVars  == <<terminal, cancelled, worker, runner, outbox, worker_rx>>
obsVars   == <<submitted, status, cancel_ok, acked, aborted>>
vars      == <<schedVars, workVars, obsVars>>

TaskOrNone == Task \cup {NoTask}

TerminalEvent == {"Completed", "Failed", "Canceled"}
Event == [type : TerminalEvent \cup {"Progress"}, key : Key, by : Task,
          total : BOOLEAN]

Running == {"prepare", "transfer", "finishing"}
Ended   == {"Complete", "Failed", "Canceled", "Duplicate"}
Status  == Ended \cup {"None", "Pending", "Transmission", "Paused"}

TypeOK ==
  /\ groups \in [Key -> TaskOrNone]
  /\ mapped \subseteq Task
  /\ queued \in Seq(Key)
  /\ queued_set \subseteq Key
  /\ paused_set \subseteq Key
  /\ canceling_set \subseteq Key
  /\ active \subseteq Key
  /\ active_count \in [Direction -> Nat]
  /\ offsets \in [Key -> TaskOrNone]
  /\ known_totals \in [Key -> TaskOrNone]
  /\ phase \in {"running", "closing", "closed", "dropped"}
  /\ terminal \in [Task -> GateState]
  /\ cancelled \subseteq Key
  /\ worker \in [Key -> Running \cup {"none", "exit"}]
  /\ runner \in [Key -> TaskOrNone]
  /\ outbox \in [Key -> TerminalEvent \cup {"none"}]
  /\ worker_rx \in Seq(Event)
  /\ submitted \subseteq Task
  /\ status \in [Task -> Status]
  /\ cancel_ok \subseteq Task
  /\ acked \subseteq Task
  /\ aborted \subseteq Task

Init ==
  /\ groups = [k \in Key |-> NoTask]
  /\ mapped = {}
  /\ queued = <<>> /\ queued_set = {}
  /\ paused_set = {} /\ canceling_set = {}
  /\ active = {}
  /\ active_count = [d \in Direction |-> 0]
  /\ offsets = [k \in Key |-> NoTask]
  /\ known_totals = [k \in Key |-> NoTask]
  /\ phase = "running"
  /\ terminal = [t \in Task |-> OPEN]
  /\ cancelled = {}
  /\ worker = [k \in Key |-> "none"]
  /\ runner = [k \in Key |-> NoTask]
  /\ outbox = [k \in Key |-> "none"]
  /\ worker_rx = <<>>
  /\ submitted = {}
  /\ status = [t \in Task |-> "None"]
  /\ cancel_ok = {} /\ acked = {} /\ aborted = {}

-----------------------------------------------------------------------------
(***************************************************************************)
(* try_start_next: rotate through the queue until a round starts nothing.  *)
(* A rotation keeps the relative order of the keys it does not start, so   *)
(* the whole loop starts, per direction, the first eligible keys that fit  *)
(* the free slots.  It runs at the end of a handler, on the values q, qs,  *)
(* a, n, c and st the handler has computed so far.                         *)
(***************************************************************************)
Eligible(k, a) == k \notin paused_set' /\ k \notin a /\ groups'[k] # NoTask

\* Positions of the eligible keys of direction d.
Waiting(q, a, d) == {i \in DOMAIN q : DirOf[q[i]] = d /\ Eligible(q[i], a)}

\* Faulty variant of StartsIn: the limit itself is still admitted.
StartsInOneMore(q, a, n, d) ==
  LET W == Waiting(q, a, d)
  IN  {q[i] : i \in {j \in W : n[d] + Rank(W, j) <= MaxConcurrency[d]}}

\* can_start_direction, applied along the queue.
StartsIn(q, a, n, d) ==
  LET W == Waiting(q, a, d)
  IN  {q[i] : i \in {j \in W : n[d] + Rank(W, j) < MaxConcurrency[d]}}

Starts(q, a, n) == UNION {StartsIn(q, a, n, d) : d \in Direction}

EffectiveTotalKnown(k, t) == known_totals'[k] # NoTask \/ t \in PresetTotal

\* No Transmission record for a download whose total is still unknown.
Announced(k) == DirOf[k] = "Upload" \/ EffectiveTotalKnown(k, groups'[k])

TryStartNext(q, qs, a, n, c, st) ==
  LET S    == Starts(q, a, n)
      Stay == {k \in Key : groups'[k] # NoTask} \ S
  IN  /\ queued' = Keep(q, Stay)
      /\ queued_set' = qs \cap Stay
      /\ active' = a \cup S
      /\ active_count' = [d \in Direction |->
                            n[d] + Cardinality(StartsIn(q, a, n, d))]
      /\ cancelled' = c \ S
      /\ worker' = [k \in Key |-> IF k \in S THEN "prepare" ELSE worker[k]]
      /\ runner' = [k \in Key |-> IF k \in S THEN groups'[k] ELSE runner[k]]
      /\ status' = [t \in Task |->
                      IF \E k \in S : groups'[k] = t /\ Announced(k)
                      THEN "Transmission" ELSE st[t]]

-----------------------------------------------------------------------------
(* Commands                                                                *)

Live == {k \in Key : groups[k] # NoTask}

\* Faulty variant of WasActive: a worker that has sent its last event counts as gone.
WasActiveUntilExit(k) == worker[k] # "none"

\* A key has a worker until the scheduler has handled its terminal event.
WasActive(k) == k \in active

\* queued.retain(..)
Unqueued(k) == Keep(queued, Key \ {k})

\* Faulty variant of Forget: the entry survives its group.
ForgetNot(f, k) == f

\* Drop the offset or total recorded for a key.
Forget(f, k) == [f EXCEPT ![k] = NoTask]

\* A second task for a live key is turned away with DuplicateTaskError.  (The
\* record the global listeners get carries the id of the live task; only what
\* the caller of t is told is kept here.)
EnqueueDuplicate(t) ==
  /\ phase = "running" /\ t \notin submitted
  /\ groups[KeyOf[t]] # NoTask
  /\ submitted' = submitted \cup {t}
  /\ status' = [status EXCEPT ![t] = "Duplicate"]
  /\ UNCHANGED <<schedVars, workVars, cancel_ok, acked, aborted>>

Enqueue(t) ==
  LET k     == KeyOf[t]
      fresh == k \notin active /\ k \notin queued_set
  IN  /\ phase = "running" /\ t \notin submitted
      /\ groups[k] = NoTask
      /\ submitted' = submitted \cup {t}
      /\ mapped' = mapped \cup {t}
      /\ groups' = [groups EXCEPT ![k] = t]
      /\ UNCHANGED <<paused_set, canceling_set, offsets, known_totals, phase,
                     terminal, outbox, worker_rx, cancel_ok, acked, aborted>>
      /\ TryStartNext(IF fresh THEN Append(queued, k) ELSE queued,
                      IF fresh THEN queued_set \cup {k} ELSE queued_set,
                      active, active_count, cancelled,
                      [status EXCEPT ![t] = IF k \in active THEN "Transmission"
                                            ELSE "Pending"])

EnqueuePaused(t) ==
  LET k == KeyOf[t]
  IN  /\ phase = "running" /\ t \notin submitted
      /\ groups[k] = NoTask
      /\ submitted' = submitted \cup {t}
      /\ mapped' = mapped \cup {t}
      /\ groups' = [groups EXCEPT ![k] = t]
      /\ paused_set' = paused_set \cup {k}
      /\ status' = [status EXCEPT ![t] = "Paused"]
      /\ UNCHANGED <<queued, queued_set, canceling_set, active, active_count,
                     offsets, known_totals, phase, workVars, cancel_ok, acked,
                     aborted>>

\* pause_group, then try_start_next.
Pause(t) ==
  LET k == KeyOf[t]
  IN  /\ phase = "running" /\ t \in mapped
      /\ terminal' = IF WasActive(k)
                     THEN [terminal EXCEPT ![groups[k]] = BeginPause(@)]
                     ELSE terminal
      /\ paused_set' = paused_set \cup {k}
      /\ UNCHANGED <<groups, mapped, canceling_set, offsets, known_totals, phase,
                     outbox, worker_rx, submitted, cancel_ok, acked, aborted>>
      /\ TryStartNext(Unqueued(k), queued_set \ {k},
                      active, active_count,
                      IF WasActive(k) /\ InterruptNow(terminal[groups[k]])
                      THEN cancelled \cup {k} ELSE cancelled,
                      IF WasActive(k) THEN status
                      ELSE [status EXCEPT ![groups[k]] = "Paused"])

\* Faulty variant of MayResume: a worker that is still stopping does not matter.
MayResumeWhileStopping(k) == k \in paused_set

\* resume_group refuses a task that is not paused, or whose worker still stops.
MayResume(k) == k \in paused_set /\ k \notin active

\* resume_group, then try_start_next.
Resume(t) ==
  LET k == KeyOf[t]
      fresh == k \notin queued_set
  IN  /\ phase = "running" /\ t \in mapped
      /\ MayResume(k)
      /\ paused_set' = paused_set \ {k}
      /\ UNCHANGED <<groups, mapped, canceling_set, offsets, known_totals, phase,
                     terminal, outbox, worker_rx, submitted, cancel_ok, acked,
                     aborted>>
      /\ TryStartNext(IF fresh THEN Append(queued, k) ELSE queued,
                      queued_set \cup {k}, active, active_count, cancelled,
                      [status EXCEPT ![groups[k]] = "Pending"])

\* cancel_group on a key with a worker: the group and its slot stay until the
\* worker is quiescent, the task id is invalidated at once.
CancelActive(t) ==
  LET k == KeyOf[t]
      leader == groups[k]
  IN  /\ phase = "running" /\ t \in mapped
      /\ WasActive(k)
      /\ terminal' = [terminal EXCEPT ![leader] = BeginCancel(@)]
      /\ paused_set' = paused_set \ {k}
      /\ canceling_set' = canceling_set \cup {k}
      /\ mapped' = mapped \ {leader}
      /\ cancel_ok' = cancel_ok \cup {t}
      /\ UNCHANGED <<groups, offsets, known_totals, phase, outbox, worker_rx,
                     submitted, acked, aborted>>
      /\ TryStartNext(Unqueued(k), queued_set \ {k},
                      active, active_count,
                      IF InterruptNow(terminal[leader])
                      THEN cancelled \cup {k} ELSE cancelled,
                      status)

\* executor.cancel: only uploads have a session to abort, once per task.
Abort(t) == IF DirOf[KeyOf[t]] = "Upload" THEN aborted \cup {t} ELSE aborted

\* cancel_group on a queued or paused key: the whole teardown is synchronous.
CancelIdle(t) ==
  LET k == KeyOf[t]
      leader == groups[k]
  IN  /\ phase = "running" /\ t \in mapped
      /\ ~WasActive(k)
      /\ groups' = [groups EXCEPT ![k] = NoTask]
      /\ terminal' = [terminal EXCEPT ![leader] = BeginCancel(@)]
      /\ paused_set' = paused_set \ {k}
      /\ canceling_set' = canceling_set \ {k}
      /\ mapped' = mapped \ {leader}
      /\ offsets' = Forget(offsets, k)
      /\ known_totals' = Forget(known_totals, k)
      /\ aborted' = Abort(leader)
      /\ cancel_ok' = cancel_ok \cup {t}
      /\ UNCHANGED <<phase, outbox, worker_rx, submitted, acked>>
      /\ TryStartNext(Unqueued(k), queued_set \ {k},
                      active, active_count, cancelled,
                      [status EXCEPT ![leader] = "Canceled"])

\* A control command for an unknown id, and a resume of a task that is not
\* paused or still stopping, answer with an error; the handler still ends in
\* try_start_next.
RefuseControl(t) ==
  /\ phase = "running"
  /\ t \notin mapped \/ ~MayResume(KeyOf[t])
  /\ UNCHANGED <<groups, mapped, paused_set, canceling_set, offsets,
                 known_totals, phase, terminal, outbox, worker_rx, submitted,
                 cancel_ok, acked, aborted>>
  /\ TryStartNext(queued, queued_set, active, active_count, cancelled, status)

\* Groups without a worker are reported Paused by Close itself.
Inactive == Live \ active

\* Close, up to the point where it starts to drain the workers.
Close ==
  LET stopped   == active \ canceling_set
      interrupt == (active \cap canceling_set)
                     \cup {k \in stopped : InterruptNow(terminal[groups[k]])}
  IN  /\ phase = "running"
      /\ phase' = "closing"
      /\ terminal' = [t \in Task |-> IF \E k \in stopped : groups[k] = t
                                     THEN BeginPause(terminal[t])
                                     ELSE terminal[t]]
      /\ paused_set' = paused_set \cup stopped
      /\ cancelled' = cancelled \cup interrupt
      /\ status' = [t \in Task |-> IF \E k \in Inactive : groups[k] = t
                                   THEN "Paused" ELSE status[t]]
      /\ UNCHANGED <<groups, mapped, queued, queued_set, canceling_set, active,
                     active_count, offsets, known_totals, worker, runner, outbox,
                     worker_rx, submitted, cancel_ok, acked, aborted>>

\* The loop is over: the scheduler state is gone and its runtime takes the
\* worker tasks with it.
Discard(end) ==
  /\ phase' = end
  /\ groups' = [k \in Key |-> NoTask]
  /\ mapped' = {}
  /\ queued' = <<>> /\ queued_set' = {}
  /\ paused_set' = {} /\ canceling_set' = {}
  /\ active' = {}
  /\ active_count' = [d \in Direction |-> 0]
  /\ offsets' = [k \in Key |-> NoTask]
  /\ known_totals' = [k \in Key |-> NoTask]
  /\ cancelled' = {}
  /\ worker' = [k \in Key |-> "none"]
  /\ runner' = [k \in Key |-> NoTask]
  /\ outbox' = [k \in Key |-> "none"]
  /\ worker_rx' = <<>>
  /\ UNCHANGED <<terminal, obsVars>>

\* Close, once every worker has acknowledged: clear, shut the callback
\* dispatcher down, answer Ok, leave the loop.
CloseFinish == phase = "closing" /\ active = {} /\ Discard("closed")

\* Every command sender is gone and no Close was queued: leave the loop.
CommandChannelClosed == phase = "running" /\ Discard("dropped")

-----------------------------------------------------------------------------
(* Worker events                                                           *)

\* Faulty variant of Receiving: Close waits without draining the channel.
ReceivingUntilClose == phase = "running"

\* worker_rx is consumed by the main loop and by the drain of Close.
Receiving == phase \in {"running", "closing"}

\* No Transmission record once cancel() has been accepted.
Speaks(k) == k \notin canceling_set

\* Progress is recorded for a live group; a task being cancelled stays silent.
HandleProgress ==
  LET e == Head(worker_rx)
      live == groups[e.key] # NoTask
  IN  /\ Receiving
      /\ worker_rx # <<>> /\ e.type = "Progress"
      /\ worker_rx' = Tail(worker_rx)
      /\ offsets' = IF live THEN [offsets EXCEPT ![e.key] = e.by] ELSE offsets
      /\ known_totals' = IF live /\ e.total
                         THEN [known_totals EXCEPT ![e.key] = e.by]
                         ELSE known_totals
      /\ status' = IF live /\ Speaks(e.key)
                   THEN [status EXCEPT ![groups[e.key]] = "Transmission"]
                   ELSE status
      /\ UNCHANGED <<groups, mapped, queued, queued_set, paused_set,
                     canceling_set, active, active_count, phase, terminal,
                     cancelled, worker, runner, outbox, submitted, cancel_ok,
                     acked, aborted>>

\* remove_active, on the set and on its per-direction counter (saturating).
CountAfterRemove(k) ==
  IF k \in active /\ active_count[DirOf[k]] > 0
  THEN [active_count EXCEPT ![DirOf[k]] = @ - 1]
  ELSE active_count

\* Faulty variant of AfterTerminal: a terminal event does not schedule.
AfterTerminalIdle(k, st) ==
  /\ active' = active \ {k}
  /\ active_count' = CountAfterRemove(k)
  /\ status' = st
  /\ UNCHANGED <<queued, queued_set, cancelled, worker, runner>>

\* The main loop schedules again after a terminal event, the drain of Close
\* does not.
AfterTerminal(k, st) ==
  IF phase = "running"
  THEN TryStartNext(queued, queued_set, active \ {k}, CountAfterRemove(k),
                    cancelled, st)
  ELSE /\ active' = active \ {k}
       /\ active_count' = CountAfterRemove(k)
       /\ status' = st
       /\ UNCHANGED <<queued, queued_set, cancelled, worker, runner>>

\* Faulty variant of Settled: the mark of an accepted cancel is not cleared.
SettledNot(k) == canceling_set

\* handle_worker_event clears the mark of an accepted cancel.
Settled(k) == canceling_set \ {k}

\* Completed and Failed, and Canceled that no pause asked for: the group ends.
EndGroup(k, final) ==
  LET leader == groups[k]
      live == leader # NoTask
  IN  /\ canceling_set' = Settled(k)
      /\ paused_set' = paused_set \ {k}
      /\ groups' = [groups EXCEPT ![k] = NoTask]
      /\ mapped' = mapped \ {leader}
      /\ offsets' = Forget(offsets, k)
      /\ known_totals' = Forget(known_totals, k)
      /\ UNCHANGED terminal
      /\ AfterTerminal(k, IF live THEN [status EXCEPT ![leader] = final] ELSE status)

\* Canceled of a paused group: reopen the gate and keep everything for resume.
SettlePause(k) ==
  /\ terminal' = [terminal EXCEPT ![groups[k]] = ResetPause(@)]
  /\ UNCHANGED <<canceling_set, paused_set, groups, mapped, offsets, known_totals>>
  /\ AfterTerminal(k, [status EXCEPT ![groups[k]] = "Paused"])

\* The Canceled event of key k belongs to a pause (or to Close).
FromPause(k) == k \in paused_set /\ k \notin canceling_set

\* Faulty variant of NeedsAbort: an accepted cancel aborts what has completed.
NeedsAbortWhatever(type, k) == k \in canceling_set /\ groups[k] # NoTask

\* A cancelled upload that did not complete is aborted at the provider.
NeedsAbort(type, k) ==
  type # "Completed" /\ k \in canceling_set /\ groups[k] # NoTask

\* handle_quiescent_worker_event, then handle_worker_event.
HandleTerminal ==
  LET e == Head(worker_rx)
      k == e.key
      final == CASE e.type = "Completed" -> "Complete"
                 [] e.type = "Failed"    -> "Failed"
                 [] OTHER                -> "Canceled"
  IN  /\ Receiving
      /\ worker_rx # <<>> /\ e.type # "Progress"
      /\ worker_rx' = Tail(worker_rx)
      /\ aborted' = IF NeedsAbort(e.type, k) THEN Abort(groups[k]) ELSE aborted
      /\ IF e.type = "Canceled" /\ FromPause(k) THEN SettlePause(k) ELSE EndGroup(k, final)
      /\ UNCHANGED <<phase, outbox, submitted, cancel_ok, acked>>

-----------------------------------------------------------------------------
(* Workers                                                                 *)

Send(k, type, total) ==
  /\ Len(worker_rx) < EventCapacity
  /\ worker_rx' = Append(worker_rx, [type |-> type, key |-> k,
                                     by |-> runner[k], total |-> total])

\* The total a worker reports is known for a preset size, else after probing.
MayReport(k, total) == runner[k] \in PresetTotal => total

\* prepare succeeded; the first Progress carries the probed total.
Prepared(k) ==
  /\ worker[k] = "prepare"
  /\ worker' = [worker EXCEPT ![k] = "transfer"]
  /\ \E total \in BOOLEAN : MayReport(k, total) /\ Send(k, "Progress", total)
  /\ UNCHANGED <<schedVars, terminal, cancelled, runner, outbox, obsVars>>

\* A chunk, or the contiguous prefix of the parts, advanced.
ChunkDone(k) ==
  /\ worker[k] \in {"transfer", "finishing"}
  /\ \E total \in BOOLEAN : MayReport(k, total) /\ Send(k, "Progress", total)
  /\ UNCHANGED <<schedVars, terminal, cancelled, worker, runner, outbox, obsVars>>

\* A worker that stops owes one terminal event.
Finish(k, ev) ==
  /\ worker' = [worker EXCEPT ![k] = "exit"]
  /\ outbox' = [outbox EXCEPT ![k] = ev]

\* emit_canceled_after_quiescent_cleanup: the checkpoint or the lock release of
\* a download may fail, and then the worker reports that failure instead.
FinishStopped(k) ==
  \/ Finish(k, "Canceled")
  \/ DirOf[k] = "Download" /\ Finish(k, "Failed")

\* begin_terminal_completion before the last request.
ClaimCompletion(k) ==
  /\ worker[k] = "transfer"
  /\ CanClaim(terminal[runner[k]])
  /\ terminal' = [terminal EXCEPT ![runner[k]] = BeginCompletion(@)]
  /\ worker' = [worker EXCEPT ![k] = "finishing"]
  /\ UNCHANGED <<schedVars, cancelled, runner, outbox, worker_rx, obsVars>>

\* The token is cancelled, or the completion claim is refused.
ObserveStop(k) ==
  /\ \/ worker[k] \in Running /\ k \in cancelled
     \/ worker[k] = "transfer" /\ ~CanClaim(terminal[runner[k]])
  /\ FinishStopped(k)
  /\ UNCHANGED <<schedVars, terminal, cancelled, runner, worker_rx, obsVars>>

\* The provider reported the object complete, in the claimed last request or
\* early.  The serial path then overrides any stop at the gate; complete() of
\* the parallel path does not touch it.  Releasing a download may still fail.
ReportedDone(k) ==
  /\ worker[k] \in {"transfer", "finishing"}
  /\ \/ terminal' = [terminal EXCEPT ![runner[k]] = AcknowledgeCompletion(@)]
     \/ worker[k] = "finishing" /\ UNCHANGED terminal
  /\ acked' = acked \cup {runner[k]}
  /\ \/ Finish(k, "Completed")
     \/ DirOf[k] = "Download" /\ Finish(k, "Failed")
  /\ UNCHANGED <<schedVars, cancelled, runner, worker_rx, submitted, status,
                 cancel_ok, aborted>>

\* The claimed request returned without completing the object: give the claim
\* back, and honour the stop that waited behind it.
GiveClaimBack(k) ==
  LET t == runner[k]
  IN  /\ worker[k] = "finishing"
      /\ terminal' = [terminal EXCEPT ![t] = FinishIncompleteCompletion(@)]
      /\ IF DeferredStop(terminal[t])
         THEN FinishStopped(k)
         ELSE worker' = [worker EXCEPT ![k] = "transfer"] /\ UNCHANGED outbox
      /\ UNCHANGED <<schedVars, cancelled, runner, worker_rx, obsVars>>

\* A failure or a panic.  An upload whose session is spoilt is aborted here,
\* after its requests have drained and before Failed is sent.
Fail(k) ==
  /\ worker[k] \in Running
  /\ Finish(k, "Failed")
  /\ \/ aborted' = Abort(runner[k])
     \/ UNCHANGED aborted
  /\ UNCHANGED <<schedVars, terminal, cancelled, runner, worker_rx, submitted,
                 status, cancel_ok, acked>>

\* The total of a terminal event only feeds the record, it is not stored.
SendTerminal(k) ==
  /\ worker[k] = "exit"
  /\ Send(k, outbox[k], FALSE)
  /\ worker' = [worker EXCEPT ![k] = "none"]
  /\ runner' = [runner EXCEPT ![k] = NoTask]
  /\ outbox' = [outbox EXCEPT ![k] = "none"]
  /\ UNCHANGED <<schedVars, terminal, cancelled, obsVars>>

-----------------------------------------------------------------------------
Command(t) ==
  \/ Enqueue(t) \/ EnqueueDuplicate(t) \/ EnqueuePaused(t)
  \/ Pause(t) \/ Resume(t) \/ CancelActive(t) \/ CancelIdle(t)
  \/ RefuseControl(t)

Worker(k) ==
  \/ Prepared(k) \/ ChunkDone(k) \/ ClaimCompletion(k) \/ ObserveStop(k)
  \/ ReportedDone(k) \/ GiveClaimBack(k) \/ Fail(k) \/ SendTerminal(k)

Next ==
  \/ \E t \in Task : Command(t)
  \/ Close \/ CloseFinish \/ CommandChannelClosed
  \/ HandleProgress \/ HandleTerminal
  \/ \E k \in Key : Worker(k)

Spec == Init /\ [][Next]_vars

\* Fairness.  The loop keeps receiving; a worker reacts to a stop, its last
\* request returns, and its send gets a turn (the channel serves senders in
\* order, so a waiting send cannot be overtaken for ever).
ReturnFromLast(k) == worker[k] = "finishing" /\ Worker(k) /\ worker'[k] # "finishing"

Fairness ==
  /\ WF_vars(HandleProgress) /\ WF_vars(HandleTerminal) /\ WF_vars(CloseFinish)
  /\ \A k \in Key : /\ WF_vars(ObserveStop(k))
                    /\ WF_vars(ReturnFromLast(k))
                    /\ SF_vars(SendTerminal(k))

FairSpec == Spec /\ Fairness

-----------------------------------------------------------------------------
(* Properties                                                              *)

\* Every live task is in exactly the collections the handlers expect: it waits,
\* is paused or has a worker (none is ever forgotten), a queued key is neither
\* paused nor running, only a running key is being cancelled, and exactly the
\* tasks that are not being cancelled answer to their id (executor.rs, the
\* command handlers; scheduler_state.rs, the collections).
Bookkeeping ==
  /\ \A k \in Live : KeyOf[groups[k]] = k /\ groups[k] \in submitted
  /\ Live = queued_set \cup paused_set \cup active
  /\ queued_set \cap (paused_set \cup active) = {}
  /\ canceling_set \subseteq active \ paused_set
  /\ \A t \in Task :
        t \in mapped <=> groups[KeyOf[t]] = t /\ KeyOf[t] \notin canceling_set

\* The queue and its set mirror hold the same keys, each once
\* (scheduler_state.rs, queued and queued_set).
QueueMirror ==
  /\ \A i, j \in DOMAIN queued : queued[i] = queued[j] => i = j
  /\ {queued[i] : i \in DOMAIN queued} = queued_set

\* The per-direction counters always equal what they count and never exceed
\* the configured limits (insert_active, remove_active, can_start_direction).
SlotAccounting ==
  \A d \in Direction :
    /\ active_count[d] = Cardinality({k \in active : DirOf[k] = d})
    /\ active_count[d] <= MaxConcurrency[d]

\* No slot is left unused while a task of its direction waits: every handler
\* that can free a slot or add a task ends in try_start_next.
WorkConserving ==
  phase = "running" =>
    \A k \in queued_set : active_count[DirOf[k]] = MaxConcurrency[DirOf[k]]

\* A recorded offset or total was reported by the worker of the task that now
\* owns the key, so a task never starts from the progress of an earlier task
\* with the same key (handle_worker_event.rs, cancel_group).
NoStaleProgress ==
  \A k \in Key : /\ offsets[k] \in {NoTask, groups[k]}
                 /\ known_totals[k] \in {NoTask, groups[k]}

\* A waiting or paused task can always be run to its end later: its gate is
\* open, nothing of it is running, and the provider has neither completed nor
\* dropped it (reset_terminal_pause at the quiescence of the worker).
IdleIsResumable ==
  phase = "running" =>
    \A k \in Inactive : /\ terminal[groups[k]] = OPEN
                        /\ worker[k] = "none"
                        /\ groups[k] \notin acked \cup aborted

\* Each registered worker works for the live group of its key and answers with
\* exactly one terminal event, after which it sends nothing more: the slot of a
\* key is released once, by the event of the task that holds it.
OneAnswerPerWorker ==
  /\ \A k \in Key : /\ worker[k] # "none" => k \in active /\ runner[k] = groups[k]
                    /\ worker[k] = "exit" <=> outbox[k] # "none"
  /\ \A k \in active : worker[k] = "none" =>
        \E i \in DOMAIN worker_rx :
           worker_rx[i].key = k /\ worker_rx[i].type # "Progress"
  /\ \A i \in DOMAIN worker_rx :
        LET e == worker_rx[i]
        IN  /\ e.key \in active /\ e.by = groups[e.key]
            /\ e.type # "Progress" =>
                 /\ worker[e.key] = "none"
                 /\ \A j \in DOMAIN worker_rx : worker_rx[j].key = e.key => j <= i

\* Only a cancel the caller asked for ends in Canceled: a pause or a close that
\* stops a worker keeps the task resumable (handle_worker_event.rs, Canceled).
CanceledOnRequest == \A t \in Task : status[t] = "Canceled" => t \in cancel_ok

\* What the provider reported complete stays complete: an upload whose worker
\* has seen the final success is neither aborted nor reported otherwise
\* (acknowledge_completion; handle_quiescent_worker_event).
CompletionWins ==
  \A t \in acked : DirOf[KeyOf[t]] = "Upload" =>
    t \notin aborted /\ status[t] \notin {"Canceled", "Failed"}

\* A provider abort never races a request of its task, and an aborted task is
\* never run again: its worker has stopped, and the group is gone or about to
\* end in Failed, even if a pause is still waiting for that worker
\* (settle_required_upload_abort, cancel_group, handle_quiescent_worker_event).
AbortIsFinal ==
  \A t \in aborted : LET k == KeyOf[t] IN
    /\ runner[k] = t => worker[k] = "exit"
    /\ groups[k] = t => \/ outbox[k] = "Failed"
                        \/ \E i \in DOMAIN worker_rx :
                             worker_rx[i].key = k /\ worker_rx[i].type = "Failed"

\* After close has returned every task that was ever accepted has a terminal
\* record or Paused as its last one (Close, TransferStatus).
CloseReportsAll ==
  phase = "closed" => \A t \in submitted : status[t] \in Ended \cup {"Paused"}

\* No outcome is reported that was not earned, and none is lost: completion and
\* abort are final, Canceled was asked for, and close leaves no task without a
\* last record (CompletionWins, AbortIsFinal, CanceledOnRequest, CloseReportsAll).
EndsAreEarned == CompletionWins /\ AbortIsFinal /\ CanceledOnRequest /\ CloseReportsAll

\* The records of every task follow the abstract life of a task: nothing after
\* a terminal record, and Paused is left only by a resume or a cancel.
ObservedLife == INSTANCE TaskStatus
StatusRefinement == ObservedLife!Spec

\* A stop that was accepted while the task had a worker is settled, be it a
\* pause, a cancel, or a pause upgraded to a cancel: the worker stops, or
\* completes, and the key is released (paused_set, canceling_set).
Stopping == canceling_set \cup (paused_set \cap active)
StopsSettle == \A k \in Key : k \in Stopping ~> k \notin Stopping

\* close() returns: the drain consumes the events of all workers.
CloseReturns == phase = "closing" ~> phase = "closed"

=============================================================================
