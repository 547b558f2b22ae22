# A TLA+ model of rusty-cat

rusty-cat is a Rust library for resumable uploads and downloads. Callers hand
tasks to a `MeowClient`; one scheduler thread per client queues them, starts at
most a configured number per direction, and drives each by a worker that can be
paused, resumed, cancelled and closed at any moment. Downloads are checkpointed
beside their target, uploads read a source that is hashed first, and multipart
protocols keep sessions at a provider across all of that. This directory holds
TLA+ modules for these parts, TLC instances that check them, and TLAPS proofs
about the scheduler and its records, the windowed driver of parallel parts,
checkpointed downloads and the directory they keep their sidecars in, the source
of an upload, the lease on a target and the signing of presigned requests.

## The system and its modules

| Part | Source (under `src/src/`) | Modules |
|---|---|---|
| Terminal gate | `inner/inner_task.rs` | `TransferLifecycle` |
| Scheduler loop, slot scheduling, records | `inner/executor.rs`, `inner/scheduler_state.rs`, `inner/exec_impl/handle_worker_event.rs`, `exec.rs` (`try_start_next`), `emit.rs` | `Scheduler`, `Ranking`, `TaskStatus` |
| Parallel group worker, part window, memory budget | `inner/exec_impl/exec.rs`, `part_window.rs`, `memory_budget.rs` | `ParallelGroup`, `PartWindow`, contract `GroupWorker` |
| Serial upload worker, retries, default upload protocol | `inner/exec_impl/exec.rs` (`run_group`), `retry.rs`, `dflt/`, `http_breakpoint.rs` | `SerialUpload` |
| Downloads and their checkpoints | `dflt/default_http_transfer.rs`, `dflt/default_http_transfer_chunks.rs`, `transfer_task.rs`, `dflt/download_progress.rs` | `DownloadProgress`, `ParallelDownload`, `SerialDownload`, `SidecarNamespace` |
| Lease on a target | `target_lease.rs`, `transfer_task.rs` | `TargetLease` |
| Source of an upload | `upload_file.rs` | `UploadSource` |
| Multipart sessions | `aliyun-oss-direct/`, `azure-blob-direct/`, `presigned/multipart_upload.rs` | `MultipartDriver` with `OssUpload`, `AzureUpload`, `PresignedUpload` |
| Presigned range downloads | `presigned/range_download.rs` | `RangeRefresh` |
| Callbacks | `inner/cb_dispatcher.rs`, listeners of `meow_client.rs` | `CallbackDispatcher` |
| In-memory downloads | `binary/executor.rs`, `binary/download.rs` | `BinaryExecutor`, `BinaryDownload` |
| Client and close | `meow_client.rs`, outer halves of both executors | `Client` |

How they interact. A command arrives on a channel; `worker_loop` handles one
command or one worker event at a time and is the only writer of
`SchedulerState`. Handlers end in `try_start_next`, which spawns workers. A
worker shares two things with the loop: the event channel, which is bounded, and
the gate, one atomic byte on which the worker's last request and a pause or
cancel are arbitrated. User callbacks run on a dispatcher thread of their own.
In-memory downloads have an executor of their own, with its own loop, and the
client opens and closes the two together.

Three interfaces tie the modules together. `GroupWorker` is what `Scheduler`
assumes of the worker of one group, and `ParallelGroup` is shown to keep it.
`TaskStatus` is the life of a task as callers see it, which `Scheduler`
implements. `MultipartDriver` is what a multipart protocol sees of the executor;
each provider adds its own state, and its service, to the same driver steps.
`SidecarNamespace` relies on one fact of `TargetLease` (`OneSidecar`: live tasks
have different sidecars).

## State and actions

**Scheduler.** Variables keep the names of the fields of `SchedulerState`.
`offsets` and `known_totals` hold the *task that reported* the value, which is
exactly what distinguishes a stale entry from a live one. The last group of
variables records what callers and the provider have seen (`status`,
`cancel_ok`, `acked`, `aborted`).

| Action | Code |
|---|---|
| `Enqueue`, `EnqueueDuplicate`, `EnqueuePaused` | the Enqueue and EnqueuePaused commands |
| `Pause`, `Resume`, `CancelActive`, `CancelIdle` | `pause_group`, `resume_group`, `cancel_group` with the trailing `try_start_next` |
| `RefuseControl` | unknown id, or a resume that is refused; the handler still schedules |
| `Close`, `CloseFinish` | the Close command before and after its drain loop |
| `CommandChannelClosed` | every `Executor` handle dropped |
| `HandleProgress`, `HandleTerminal` | `handle_quiescent_worker_event` and `handle_worker_event` |
| `Prepared`, `ChunkDone`, `ClaimCompletion`, `ObserveStop`, `ReportedDone`, `GiveClaimBack`, `Fail`, `SendTerminal` | the points of `run_group` and `run_group_parallel` at which the loop or the provider can notice the worker |

A handler is one step. Handlers await only the provider abort; no other handler
runs meanwhile, and the workers of *other* keys touch nothing that the handler
reads after it, so nothing can be observed between. Close is two steps, because
workers move while it drains. Every compare-and-exchange of the gate is one
step. Snapshot only reads and is left out. `TryStartNext` describes the result
of the whole rotation: a pass moves the keys it cannot start to the back in
order, and passes repeat until one starts nothing; together they start, per
direction, the first eligible keys that fit.

**ParallelGroup.** The driver and every part task are separate processes; a
task's permits are released with the task, so the free budget is a function of
the part states. `Prepared` ... `OpenWindow` are `run_group` up to the window,
`Dispatch`, `Join...`, `Drain` the fill loop and the arms of `join_next`,
`Settle`, `Completed`, `NotCompleted` the arbitration after the JoinSet is empty,
`Acquire` ... `PartFails` the body of `spawn_part`. A stop that finds completion
claimed is deferred and does not cancel the token.

**SerialUpload.** `WorkerStep` is the next statement of `run_group` for an
upload: the prepare loop with its own retries, a chunk, its retries and the gate
around the last one; `Pause` and `Cancel` meet it at the gate. The server keeps a
contiguous prefix and answers with the next byte or a file id, as
`docs/default-http-upload-protocol.md` describes. Answers are lost (`Fault`),
requests arrive late (`LateArrives`), the server forgets (`ServerLoses`), the
process restarts.

**ParallelDownload, SerialDownload.** `file` and `side` are what the operating
system shows, `safe` and `safeSide` what a power loss would leave. A part is
written, staged in the bitmap, and checkpointed by whoever holds the barrier
(`HolderStep`): data sync, temporary sidecar, its sync, rename, directory sync.
`TimerFires` is the delayed checkpoint, `Crash` a power loss, `Tamper` another
program, `Change` a new generation of the remote object. Each following run
loads what is left, verifies it, and begins again. `DownloadProgress` has the
bitmap's operations; a digest is the content it is of.

**TargetLease, SidecarNamespace.** Tasks of several processes take the lock
files of all keys of a target in order, open and lock the target, and give both
back before the end is reported; the user unlinks and creates names meanwhile.
The private directory `.rusty-cat` is created, scanned and claimed by a marker in
the separate system calls the code makes, since several tasks do this at once.

**UploadSource.** Hashing at enqueue, lazy reopening under the mutex, verified
positioned reads, the last validation, and the handle that a finished run drops
later. Another program writes, cuts and replaces the file, and may hide one
write from the metadata.

**OssUpload, AzureUpload, PresignedUpload.** Tasks one after the other on one
instance, or processes one after the other for one task, with lost requests and
lost answers, pauses, cancels, and listings. `Expire` is the service dropping a
session or blocks; `Save` the caller saving the presigned manifest.

**RangeRefresh.** Every request is built on a blocking thread by two calls of the
protocol, which agree on one plan through a thread-local. `Look` is the check
without the gate, `Acquire` the check with it, `RefreshReturns` and
`RefreshFails` the application's refresher, `Reenter` a refresher that calls the
download again, `SecondCall` the second protocol call.

**CallbackDispatcher, BinaryExecutor, BinaryDownload, Client.** The bounded
callback queue with samples that may be dropped and records that may not; the
loop of in-memory downloads (`Top`, `SelectStep`, `Leave`) with callback threads
that end and are replaced; one download with attempts, redirects and a bounded
body; and callers that submit, wait, control, close, retry a close and drop any
of these futures.

## Runs

Several runs are sums: a variable `scenario` (or `provider`), chosen at the
beginning, selects one of several instances, each with bounds of its own. A
property then speaks of the scenarios it applies to.

| Run | Scenarios | What it shows |
|---|---|---|
| `uploads` | three uploads, two of the same file, one slot, one place in the channel | the collections agree, slots are counted and not left idle, progress is never stale, idle tasks can be resumed, a worker answers once, outcomes are earned; `TaskStatus` is implemented |
| `stops` | an upload and a download sharing the event channel, fair | accepted stops settle and close returns |
| `parallel` | `one`: seven bytes in parts of two, window of three, fresh, resumed off the grid or at the end; `two`: two files that fit the budget alone but not together; fair | the reported prefix is stored, no part outlives the barrier, failures win, the contract of `GroupWorker`, every group ends; the closed form of `on_done` is its loop |
| `client` | `mixed`, `crowd`, `plain`, `stranded`: one or both executors, two or three callers, which futures may be dropped, whether a scheduler may panic | a closed client leaves no thread and no untold task, one teardown at a time, a retry asks only what is not closed, calls return |
| `delivery` | `faulty`, `executor`: the loop of in-memory downloads; `download`: one of them; `callbacks`, `blocking`: the dispatcher | pools are exact on every path, a stop beats a body, a body is one whole response within its limit, what is owed to callbacks is delivered in order, nobody waits for ever |
| `downloads` | `crashed`, `tampered`, `latched` (HEAD gave no validator), `serial`, `serial tampered` | a completed download is whole and of one generation, what a run builds on is real, a reported checkpoint survives |
| `http_runs` | `upload`, `retried`: serial uploads; `serial`, `parallel`, `timed`: downloads; `signing`, `shared`: presigned requests; fair | complete means committed, stops are obeyed at most one request later, an integrity failure is not masked, a request is of one plan, every run ends |
| `files` | `lease`, `trio`: targets; `namespace`: the private directory; `source`, `readers`: the source of an upload | one writer per file, one sidecar per writer, no lock outlives its report, the directory is shared and never taken from the user, what is sent is what was hashed |
| `providers` | `oss`, `oss again`, `azure`, `azure expiry`, `presigned` | what is committed is the file of the task (for OSS see the inherited session below), what counts as done is held, no OSS session is forgotten |
| `late_cancel`, `client_stranded`, `resume_at_total` | three uploads with a channel of two events, `stranded` alone, `oss` | violated: see below |

Deadlock is not checked: a closed client, a completed task and a worker whose
runs are used up rightly stop. That nothing stops too early is what `StopsSettle`,
`CloseReturns`, `GroupEnds`, `CallsReturn`, `WaitsEnd` and `RunEnds` say.

### Bounds

* Three tasks on two keys are the least in which a key is reused while another
  waits; one slot makes every start compete; a channel of one event is full as
  soon as a worker is ahead of the loop.
* Four parts with a window of three are the least in which parts finish in every
  order while one is not dispatched yet; the short last part makes sizes differ.
* Five bytes in parts of two give a middle part and a short last one; two runs
  are the one that leaves something and the one that finds it. Crashes, faults,
  changes and tampering are one or two each, in scenarios of their own, because
  the question is always what the *next* run makes of the damage.
* Multipart files have two or three parts, so that one can be missing in the
  middle; two tasks or three processes are needed to inherit a session.
* In `delivery` the sizes are below, at and above each limit; queues hold one or
  two jobs.
* In `signing` and `shared` two threads suffice to replace a plan between the two
  calls of the other; the theorem below is for any number.

Every counter that the code leaves unbounded has a named constant (`MaxRuns`,
`MaxFaults`, `MaxRestarts`, `MaxEmits`, `MaxGen`, `MaxTime` ...). Symmetry is used
for the two tasks of one file, and for readers, inodes and values, in runs
without liveness.

### Fairness

* The scheduler loop receives (`HandleProgress`, `HandleTerminal`,
  `CloseFinish`), a worker reacts to a stop (every wait selects on the token or
  is a request that returns), the last request returns. A blocked send gets its
  turn because the channel queues its senders, hence strong fairness for
  `SendTerminal`. The `select!` of the loop prefers commands, so this assumes that
  callers do not keep the command queue non-empty for ever.
* `parallel`: weak fairness of all the work of drivers, parts and the semaphore
  together; every such step brings the group nearer to its end.
* `client`: threads run, calls are polled, callbacks return; a drain ends and a
  close command gets into the queue (strong, since others use the queue too).
* `delivery`: loops and dispatcher threads run, callbacks return, requests time
  out.
* `http_runs`: the worker goes on, requests are answered or time out, the holder
  of the barrier goes on. In `timed` the server stops answering, and only the
  timer and the holder are fair. In `signing` the waiting thread gets the mutex
  (strong) and refreshers return.

## Where code and text disagree

Three disagreements are runs of their own.

* `late_cancel`: the comment at `inner/executor.rs:733-735` says a cancel after
  completion was claimed is rejected; the code returns `Ok(())` and the task may
  still complete. `MCSchedulerLate` remembers the cancels that were accepted while
  the claimed last request was out, and the property is about those only: a
  completion reported early wins over a racing cancel by design
  (`exec_impl/exec.rs:655-661`).
* `client_stranded`: `docs/test-scenarios.md:40` says close cannot deadlock. When
  the future of a close of file transfers is dropped at its await, the client
  stays Closing and a later `close()` waits for ever (`meow_client.rs:1197`). A
  client with in-memory downloads hands the teardown to a supervisor thread and
  does not have this.
* `resume_at_total`: `upload_trait.rs:81-83` says complete_upload is called when
  the offset reaches the total. A pause while the last part is in flight stores
  the total; the resumed run reports Completed without completing the session
  (`exec_impl/exec.rs:904`). `CommittedIsSource` therefore speaks of runs that
  sent a part.

Others were met while modelling; the modules follow the code.

* A duplicate submission sends global listeners a Failed record built from the
  live task (`inner/executor.rs:159`), whose id then sees two terminal records;
  `docs/test-scenarios.md:40` promises one.
* A callback thread of the in-memory executor that ends inside the last job of a
  close is noticed only at the top of the loop, which nothing wakes
  (`binary/executor.rs:718`). `WaitsEnd` holds for threads that end between jobs.
* Records other than Transmission are sent to the callback queue by a blocking
  send on the scheduler thread (`cb_dispatcher.rs:197`), while `emit.rs:15` says
  callbacks do not block the loop. It takes a backlog of 2048 jobs.
* The parallel branch of prepare cuts a target that is longer than the object
  (`default_http_transfer.rs:815`); the comment above says it never truncates.
* The guard of a finished run may close the source's handle during the next run
  (`exec.rs:30`, comment at 22-24); its reads hash again and stay correct.
* A presigned manifest that already holds every part, and a serial upload whose
  prepare answers the total without an id, are reported Completed without
  complete_upload (`exec.rs:904` against `presigned/multipart_upload.rs:44-47`;
  `default_http_transfer_chunks.rs:492` against `upload_trait.rs:81-83`).
* Prepare of an upload retries 408, 429 and 5xx (`exec.rs:390`);
  `docs/error-codes.md:62-64` says it does not retry statuses.
* A negative nextByte is an error (`http_breakpoint.rs:113`), and an answer to a
  chunk without one moves on to the end of the chunk
  (`default_http_transfer_chunks.rs:349`);
  `docs/default-http-upload-protocol.md:54` says that both count as 0.
* An OSS upload that fails, without a cancel, is not aborted
  (`inner/executor.rs:86-94`), and the next task for the same URL on its instance
  goes on with the session (`aliyun-oss-direct/upload.rs:616-623`). If that file
  has fewer parts, the completion (`x-oss-complete-all`, `808-893`) appends the
  later parts of the failed one to it. The roadmap
  (`docs/aliyun-oss-azure-blob-feature-roadmap.zh-CN.md:164`, `732`) calls
  complete-all unfit for reliable completion. `oss` has a longer and a shorter file, so
  this happens in the run: `CommittedIsSource` claims every part of the new file in its
  place, and nothing else when the session was begun for that file.

## Proofs

**The scheduler.** `SchedulerProofs` shows for every finite set of keys, every
set of tasks, every positive limit and channel capacity (`SchedulerAssumption`)
that

    IInv == TypeOK /\ Bookkeeping /\ QueueMirror /\ SlotAccounting
            /\ WorkConserving /\ OneAnswerPerWorker /\ NoStaleProgress

is inductive (`SchedulerInvariant`), and from it each part on its own
(`SchedulerTypes`, `SchedulerBookkeeping`, `SchedulerLimits`,
`SchedulerWorkConserving`, `SchedulerOneAnswer`, `SchedulerFreshProgress`).

Why the parts need each other: a terminal event frees a slot correctly only if
its key is registered and its group is the one it speaks for
(`OneAnswerPerWorker`); a key is never started twice because a queued key is not
active (`Bookkeeping`) and queued once (`QueueMirror`); an offset stays fresh
because no event of an earlier owner is left in the channel when a key is
reused. The argument is split where the code is: `SchedulerSteps` shows that a
worker step, `Close` and a Progress event preserve `IInv`, and that every other
handler, up to its last call, leaves a state (`Reschedules`) from which
`try_start_next` restores it;
`SchedulerProofs` shows that `TryStartNext` does, using the counting facts about
`Ranking` at its head (the first n waiting positions are n, so a direction is
filled exactly to its limit). `SchedulerInductive` holds the invariant and the states
between a handler and its last call.

**What the records say.** `SchedulerProofs` adds, under the same assumptions, that
an idle task can be run to its end (`IdleTasksResume`), that no outcome is
reported that was not earned (`OutcomesAreEarned`), and that the records
implement `TaskStatus`, the life of a task (`RecordsRefineLife`, a refinement:
the initial state maps to an initial state, every step to a step or to none).
None of the three is inductive. `OutcomeInv` adds what the
terminal gate of a live task is: open and unanswered without a worker
(`IdleGate`); claimed exactly while the last request of a running worker is out,
and in agreement with the stop that was asked for (`RunningGate`); and once the
worker has answered, an upload that was completed has its Completed, an aborted
one its Failed, still to be sent or to be handled (`AnswerGate`). Of the records
it says which one goes with the collection that holds the key (`Shown`), and that
a submitted task that no longer owns its key has ended; a client that is closed
may also leave it paused. `SchedulerSteps` has one lemma for each handler, with
`try_start_next` as its last call, and each worker step.

**The windowed driver.** `ParallelGroupProofs` is about any number of files of any
size, part size, window and resume offset, sharing any memory budget
(`Constants`: parts and windows are at least one, prepare never resumes past the
end). Proved are `PrefixHolds` (every byte below a reported offset is stored, and
Completed means the whole file), `PartsAreJoined` (the window counts the JoinSet
and keeps its bound,
the queue of the budget is live, nothing runs once the end of a file is decided,
failures and panics are not hidden), `ProgressGoesForward` (once prepare has fixed
where a file resumes, the reported offset never goes back) and
`DriverKeepsContract` / `GroupKeepsContract` (the driver of a file implements
`GroupWorker`, step by step). The invariant `IInv` has four parts for each file.
`PhaseInv`: parts run only while the driver is in its loop, and nothing has
happened before it. `StoreInv`: a part that is done is stored, so is the reported
prefix, and completion is claimed for the whole file only. `WindowInv`: the window
is cut at part boundaries, what it keeps above a hole is stored, and its watermark
is what was reported; that the watermark never jumps a hole rests on lemmas about
the boundaries (`NextBoundary`, `BlockOfByte`) and about the closed form of
on_done's loop (`AbsorbFacts`, `PrefixGrows`). `EndInv`: until the driver ends, a
spoilt session belongs to an upload with a failed part and a cancelled part to an
interrupted file; afterwards a failure has its Failed, and its abort where one is
due.

**Downloads and their checkpoints.** `ParallelDownloadProofs` is about an object of
any size, in parts of any size, of any number of generations, with any number of
runs, retries, faults, crashes and changes, by a server that does or does not
send validators (`Constants`: the part size and the number of generations are at
least one). Proved are `DownloadCompletesWhole` (what completes is the whole
object, all of one generation) and `CheckpointsAreSafe` (bits are set after their
bytes are durable, a part that is skipped is of the generation the run is bound
to, a checkpoint that was reported done is found again by the next run of its
generation). The invariant is `IInv` (`DownloadInvariant`). `BarrierInv`: one part,
a timer or the end of a run holds the barrier, and the end does so when no part is
in flight. `StagedInv`: a part that is asked for has no bit yet. `GenInv`: every
digest in memory is of the generation the run is bound to (without validators, of
the only part), and a sidecar with a strong identity names digests of that
generation only. `DiskInv`: the visible and the durable file have the bytes of the
bits in memory, and from the data sync on the durable file those of the pending
bits too. `KeptInv` is why a checkpoint survives: there are two sidecars, the
visible and the durable one, a crash may leave either, so both are of the identity
that was reported, both are about bytes that are durable, and the bits that were
reported are in the durable one, whose bits are in the visible one. The last two hold as long as no other program changes the target, and so do
the claims about durable bits and kept checkpoints; `DownloadCompletesWhole` and
the generation of skipped parts do not need it.

`DataBeforeBit` speaks of the bits in memory and of the sidecar this run publishes
or has published. It does not hold of every sidecar on the disk: one of an earlier
generation may stay there while a run of another generation overwrites its bytes;
when the remote object goes back to that generation, the load compares digests and
drops the bits. `KeptSurvives` is about identities with a strong validator, since
the code does not read back a sidecar without one.

**The private directory.** `SidecarProofs` is about any tasks and targets, any
number of checkpoints, failures and crashes, and anything that was there before;
it needs no assumption on the constants. `ClaimsAreSafe`: only what was there
before makes a load or a checkpoint be refused, and a directory that was not
usable is neither claimed nor written into. `FilesAreSafe`: odd entries stay, the
temporary file that is about to be renamed is there, and a file without an owner
is owed to a crash. The invariant (`NamespaceInvariant`) adds that the directory
changes in two ways only, by being created and, if it was usable, by being claimed
(`DirInv`); what a task has checked when it is at a step, and that nobody takes
that from it (`Gate`); that live tasks have different targets, which is the fact
taken from the lease (`Distinct`), so a cleanup cannot meet the file of a task at
work; and that a sequence number is not used again (`Unused`), so a new temporary
file is nobody else's.

**The source of an upload.** `UploadSourceProofs` is about a file of any size with
any values, any inodes, any number of concurrent readers and of changes by other
programs (`Constants`: the file is at most one block longer than the task's size
when it is hashed, and the mark for "not read" is no value). `UploadSendsTheHash`:
what is handed to the provider is what was hashed, and a completed upload handed
over all of it, even if a write does not show in the metadata.
`CompletionIsChecked`: before completion the visible file was read again block by
block; if all writes show in the metadata, it held the hashed content as a whole at
one moment of that validation, and the hash is of one content the file had. The
argument is about a scan in the middle: while the metadata is what it was when the
scan began, and no write was hidden, the file has not changed (`StableFile`), so
the blocks read so far are still those of the file (`HashInv`, `FinalInv`); what is
compared at the end of the scan then speaks of all of them at once. `ScanInv` says
that a scan has a file and the metadata it began with, `RunsInv` that the history
variables know the present.

**The lease on a target.** `TargetLeaseProofs` shows for any tasks, processes,
names, links and inodes (`Constants`: "nobody" is no task, links point to entries)
`LeaseIsExclusive` and its parts `TargetHasOneWriter`, `SidecarHasOneWriter` and
`EndHoldsNothing`. Added to the properties is what a task holds at each point of
its run: no lock file before it acquires, and none of those it still asks for;
the lock of its sidecar as long as its lease is held (`LeaseInv`); and the lock of
the inode it writes, and of no other (`FileInv`).

**Presigned range requests.** `RangeRefreshProofs` shows, for any threads, tasks,
totals, expiries and bounds (`Constants`: the "nobody" and "no plan" values are
not real ones, times are natural numbers), that every request built has URL and
headers of one plan, not expired when its building began, with the total the
task was planned with, and that refreshes do not overlap
(`RequestsAreOfOnePlan`). The three properties are not inductive. What has to be
added is what a thread relies on between its steps (`ThreadInv`): whoever is in
the refresher holds the gate and still sees the plan it was given; the plan
remembered in the thread-local is the one the first half of the request came
from. And why a refresh cannot change a total (`TaskInv`): the total of a ready
task is frozen, or it is the total of the current plan, and a refreshed plan
must agree with the frozen one and with the one it replaces. `OneHead` says that
a task's HEAD is built once, so that its total is decided once.

**Only model-checked.** Of the parts with proofs: that the parts of a file fit the
budget (`WindowFits`, a sum over a set), that the closed form of the prefix is the
loop of `on_done` (`AbsorbIsLoop`, a recursive definition), and all liveness
properties; sums and recursion need an induction over data, which is out of the
prover's reach, as are liveness and `ENABLED`. Of the other modules, everything:
`SerialUpload`, `SerialDownload`, the multipart sessions of the providers,
`CallbackDispatcher`, `BinaryExecutor`, `BinaryDownload` and `Client`.

## What the models assume

* Content is told apart by where it came from: a digest is the content, a
  generation is the object, the file of a task is the task. Collisions of
  digests are left out.
* `Scheduler`, `ParallelGroup`: a provider abort is one event; task ids are fresh.
* `SerialUpload`: the source does not change (that is `UploadSource`), only the
  failure of its checks is an event. It alone has requests that arrive late. A
  server that leaves nextByte out of its answer has stored the whole chunk.
* `ParallelDownload`, `SerialDownload`: the directory entry of the target itself
  is durable. The serial download has a strong validator from HEAD.
* `TargetLease`: Unix keys and locks; symbolic links do not change.
  `SidecarNamespace`: nobody writes into the directory between the scan and the
  claim, which are separate system calls in the code.
* `OssUpload`: all tasks of an instance have one URL, and the
  code adopts a listed session by the sizes of its parts alone, so the model does
  not claim more than sizes can tell when another process left parts of another
  file. Adoption needs a kept offset and no known session: the executor itself
  always has the session it stored an offset for, so this branch is for callers
  of prepare that keep the offset across instances. A dead session id that is
  kept makes later tasks of that instance fail until a cancel.
* `AzureUpload`: `<Latest>` may name blocks of the blob's committed version once
  the uncommitted ones have expired; the run with expiry has one file, and no
  claim is made for two. A cancel deletes the blob, as
  `docs/azure-blob-direct.md:182` says.
* `RangeRefresh`: the clock does not go back; one prepare per task; a refresher
  re-enters its own download directly. A task whose builder gave a total is not
  bound to the plan's total, as in the code. Poisoned locks are not modelled:
  panics of a refresher are caught.

## Not modelled

* Logging: observes and formats; no other part reads its state.
* Builders, ids and errors; URLs, header values, signing, request and response
  bodies, XML: data, without state of their own. What a parser accepts or refuses
  is modelled where a step depends on it (ranges, next bytes, listings).
* The wrappers that fill a presigned plan for one provider, and the download
  hooks of OSS and Azure, which only add headers.
* The HTTP client and its TLS setup; the byte encoding of the sidecar, beyond
  what decode accepts; locks and path keys on Windows.
