------------------------------ MODULE MCHttpRuns ------------------------------
(***************************************************************************)
(* The runs of the default HTTP transfers for TLC, with fairness: in each  *)
(* behaviour one scenario with bounds of its own.  The scenarios share pc  *)
(* and spent; the other variables are those of the upload, of the          *)
(* downloads or of the signing of presigned requests.                      *)
(***************************************************************************)
EXTENDS Naturals

CONSTANTS Scenarios, t1, t2, a, b, NoThread, NoTotal, NoPlan, NoJob

VARIABLES scenario, pc, spent,
          gate, token, claimed, attempt, offset, local, abort, err, held, whole, late,
          asked, tries, after,                                         \* upload
          remote, file, safe, side, safeSide, start, prog, got, holder, step, timers, kept,
          orphan, phase, want, next, streaming,                        \* download
          now, stopped, refresher, plan, refresh_gate, active, pending, url, headers, job,
          prep, frozen, total                                          \* signing

uploadVars == <<gate, token, claimed, attempt, offset, local, abort, err, held, whole, late,
                asked, tries, after>>
downloadVars == <<remote, file, safe, side, safeSide, start, prog, got, holder, step, timers, kept>>
parallelVars == <<orphan, phase, want>>
serialVars == <<next, streaming>>
signingVars == <<now, stopped, refresher, plan, refresh_gate, active, pending, url, headers, job,
                 prep, frozen, total>>
vars == <<scenario, pc, spent, uploadVars, downloadVars, parallelVars, serialVars, signingVars>>

\* A serial upload to a server that answers the last chunk with an id: answers
\* are lost, requests arrive late, the server loses data, the process restarts.
Upload == INSTANCE SerialUpload WITH
  Total <- 5, Chunk <- 2, GivesId <- TRUE, MaxRetries <- 1, MaxPrepRetries <- 1,
  MaxRuns <- 2, MaxFaults <- 2, MaxLosses <- 1, MaxRestarts <- 1

\* A server whose uploads are ended by complete_upload, and more retries.
Retried == INSTANCE SerialUpload WITH
  Total <- 3, Chunk <- 2, GivesId <- FALSE, MaxRetries <- 2, MaxPrepRetries <- 1,
  MaxRuns <- 2, MaxFaults <- 3, MaxLosses <- 0, MaxRestarts <- 0

\* One run of the serial download, with a fault and a retry.
Serial == INSTANCE SerialDownload WITH
  Total <- 5, Chunk <- 2, MaxGen <- 2, BatchParts <- 2, MaxBatches <- 16, TimerParts <- 4096,
  MaxRuns <- 1, MaxRetries <- 1, MaxFaults <- 1, MaxCrashes <- 0, MaxTampers <- 0, MaxChanges <- 0

\* One run of the parallel download, with a fault and a retry.
Parallel == INSTANCE ParallelDownload WITH
  Total <- 3, Chunk <- 2, MaxGen <- 2, BatchParts <- 2, MaxBatches <- 16, TimerParts <- 4096,
  Window <- 2, Etags <- TRUE, Heads <- TRUE,
  MaxRuns <- 1, MaxRetries <- 1, MaxFaults <- 1, MaxCrashes <- 0, MaxTampers <- 0, MaxChanges <- 0

\* A parallel download whose server may stop answering.
Timed == INSTANCE ParallelDownload WITH
  Total <- 5, Chunk <- 2, MaxGen <- 2, BatchParts <- 2, MaxBatches <- 16, TimerParts <- 4096,
  Window <- 2, Etags <- TRUE, Heads <- TRUE,
  MaxRuns <- 2, MaxRetries <- 0, MaxFaults <- 0, MaxCrashes <- 0, MaxTampers <- 0, MaxChanges <- 0

\* Two parts of one presigned download ask for signed requests.
Signing == INSTANCE RangeRefresh WITH
  Threads <- {t1, t2}, Nobody <- NoThread, Tasks <- {a}, Declared <- {}, Totals <- {1, 2},
  RefreshBefore <- 1, Expiries <- {2, 9}, MaxTime <- 2, MaxGen <- 2

\* Two tasks share the plan; the builder of one gave a total.
Shared == INSTANCE RangeRefresh WITH
  Threads <- {t1, t2}, Nobody <- NoThread, Tasks <- {a, b}, Declared <- {b},
  Totals <- {1, 2}, RefreshBefore <- 1, Expiries <- {1, 9}, MaxTime <- 1, MaxGen <- 1

ASSUME Signable == Signing!Constants /\ Shared!Constants

NoUpload ==
  /\ gate = 0 /\ token = FALSE /\ claimed = FALSE /\ attempt = 0 /\ offset = 0 /\ local = 0
  /\ abort = FALSE /\ err = "none" /\ held = 0 /\ whole = FALSE /\ late = {} /\ asked = {}
  /\ tries = 0 /\ after = 0
NoDownload ==
  /\ remote = 0 /\ file = 0 /\ safe = 0 /\ side = 0 /\ safeSide = 0 /\ start = 0 /\ prog = 0
  /\ got = 0 /\ holder = 0 /\ step = "none" /\ timers = 0 /\ kept = 0
NoParallel == orphan = {} /\ phase = "none" /\ want = 0
NoSerial == next = 0 /\ streaming = FALSE
NoSigning ==
  /\ now = 0 /\ stopped = 0 /\ refresher = FALSE /\ plan = 0 /\ refresh_gate = 0 /\ active = 0
  /\ pending = 0 /\ url = 0 /\ headers = 0 /\ job = 0 /\ prep = 0 /\ frozen = 0 /\ total = 0
NoTransfer == NoUpload /\ NoDownload /\ NoParallel /\ NoSerial /\ spent = 0

Init ==
  /\ scenario \in Scenarios
  /\ \/ scenario = "upload" /\ Upload!Init /\ NoDownload /\ NoParallel /\ NoSerial /\ NoSigning
     \/ scenario = "retried" /\ Retried!Init /\ NoDownload /\ NoParallel /\ NoSerial /\ NoSigning
     \/ scenario = "serial" /\ Serial!Init /\ NoUpload /\ NoParallel /\ NoSigning
     \/ scenario = "parallel" /\ Parallel!Init /\ NoUpload /\ NoSerial /\ NoSigning
     \/ scenario = "timed" /\ Timed!Init /\ NoUpload /\ NoSerial /\ NoSigning
     \/ scenario = "signing" /\ Signing!Init /\ NoTransfer
     \/ scenario = "shared" /\ Shared!Init /\ NoTransfer

UploadKept == UNCHANGED <<scenario, downloadVars, parallelVars, serialVars, signingVars>>
SerialKept == UNCHANGED <<scenario, uploadVars, parallelVars, signingVars>>
ParallelKept == UNCHANGED <<scenario, uploadVars, serialVars, signingVars>>
SigningKept ==
  UNCHANGED <<scenario, spent, uploadVars, downloadVars, parallelVars, serialVars>>

UploadStep == scenario = "upload" /\ Upload!Next /\ UploadKept
RetriedStep == scenario = "retried" /\ Retried!Next /\ UploadKept
SerialStep == scenario = "serial" /\ Serial!Next /\ SerialKept
ParallelStep == scenario = "parallel" /\ Parallel!Next /\ ParallelKept
TimedStep == scenario = "timed" /\ Timed!Next /\ ParallelKept
SigningStep == scenario = "signing" /\ Signing!Next /\ SigningKept
SharedStep == scenario = "shared" /\ Shared!Next /\ SigningKept

Next ==
  \/ UploadStep \/ RetriedStep \/ SerialStep \/ ParallelStep \/ TimedStep
  \/ SigningStep \/ SharedStep

\* What the runtime and the server owe: a worker that can go on does, requests
\* are answered or time out, and the holder of a barrier goes on.
Owed ==
  \/ scenario = "upload" /\ Upload!WorkerStep /\ UploadKept
  \/ scenario = "retried" /\ Retried!WorkerStep /\ UploadKept
  \/ scenario = "serial" /\ Serial!WorkerStep /\ SerialKept
  \/ scenario = "parallel" /\ (Parallel!PartStep \/ Parallel!GroupStep) /\ ParallelKept

\* The holder of a checkpoint barrier, which the workers may be waiting for.
OwedByHolder ==
  \/ scenario = "serial" /\ Serial!HolderStep /\ SerialKept
  \/ scenario = "parallel" /\ Parallel!HolderStep /\ ParallelKept
  \/ scenario = "timed" /\ Timed!HolderStep /\ ParallelKept

\* The timer of a checkpoint, which is all a silent server leaves.
OwedByTimer == scenario = "timed" /\ Timed!TimerFires /\ ParallelKept

\* A blocking thread goes on, gets the gate if it is free again and again, and
\* the application's refresher returns.
OwedBy(t) == scenario = "signing" /\ Signing!ThreadStep(t) /\ SigningKept

FairSpec ==
  /\ Init /\ [][Next]_vars
  /\ WF_vars(Owed) /\ WF_vars(OwedByHolder) /\ WF_vars(OwedByTimer)
  /\ SF_vars(OwedBy(t1)) /\ WF_vars(OwedBy(t2))

-----------------------------------------------------------------------------
(* Properties                                                              *)

\* An upload is reported complete only when the server has every byte and has
\* made them a file, whatever answers were lost, whatever arrived late and
\* whatever the server forgot meanwhile (upload_one_chunk, upload_prepare_once).
CompletedIsCommitted == scenario = "upload" => Upload!CompletedIsCommitted

\* Stops are obeyed however they race the last request: after a stop at most one
\* more request is sent, the retry budget holds, a claim that is given back
\* hands a waiting stop on, a paused task can claim again, and a cancel that
\* was accepted does not end as a pause (transfer_chunk_with_retry,
\* finish_incomplete_completion).
StopsAreObeyed ==
  /\ scenario = "upload" =>
       /\ Upload!BudgetKept /\ Upload!StopIsPrompt /\ Upload!ShutGateStops
       /\ Upload!ParkedIsOpen /\ Upload!CancelIsFinal
  /\ scenario = "retried" =>
       /\ Retried!BudgetKept /\ Retried!StopIsPrompt /\ Retried!ShutGateStops
       /\ Retried!ParkedIsOpen /\ Retried!CancelIsFinal

\* A run that has seen its source change, or an answer that cannot be, is
\* reported failed even if a stop races it (cancellation_can_mask).
AbortIsFailure == scenario \in {"upload", "retried"} => Upload!AbortIsFailure

\* However many parts and tasks sign their requests with one plan that is replaced
\* meanwhile: the URL and the headers of a request are of one plan, not expired
\* when the building began; its total is the one the parts of the task were
\* planned with; and no refresh replaces a plan its refresher has not seen
\* (PresignedRangeDownload).
SignedFromOnePlan ==
  /\ scenario = "signing" => Signing!OneGeneration /\ Signing!PlannedTotal /\ Signing!OneRefresh
  /\ scenario = "shared" => Shared!OneGeneration /\ Shared!PlannedTotal /\ Shared!OneRefresh

Unsettled ==
  \/ scenario \in {"upload", "retried"} /\ Upload!Running
  \/ scenario = "serial" /\ pc \notin {"idle", "done"}
  \/ scenario = "parallel" /\ phase \notin {"idle", "done"}
  \/ scenario = "timed" /\ Timed!Set(prog.pending) # {}
  \/ scenario = "signing" /\ Signing!Building(t1)

\* Every run of a transfer ends, whatever fails on the way: retries are limited,
\* a server whose cursor stands still is refused, and workers, checkpoint timers
\* and the holder of the barrier do not wait for each other. Nor does a staged
\* part wait for the next one: even with a server that has stopped answering the
\* timer checkpoints it. And a thread that builds a presigned request ends, behind
\* a refresh of another and when its own refresher calls back
\* (transfer_chunk_with_retry, commit_checkpoint_after_data_sync,
\* arm_download_checkpoint_timer, ensure_fresh_snapshot).
RunEnds == Unsettled ~> ~Unsettled

=============================================================================
