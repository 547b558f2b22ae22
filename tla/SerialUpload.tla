----------------------------- MODULE SerialUpload -----------------------------
(***************************************************************************)
(* An upload chunk after chunk: the prepare loop and the serial loop of    *)
(* run_group (exec_impl/exec.rs), the retry of one chunk                   *)
(* (exec_impl/retry.rs), upload_prepare_once and upload_one_chunk (dflt/), *)
(* and a server of the default protocol (http_breakpoint.rs), which keeps  *)
(* a contiguous prefix of the file and answers with the next byte it       *)
(* needs, or with a file id.  The pause and cancel commands meet the       *)
(* worker at the terminal gate of the task (TransferLifecycle).            *)
(*                                                                         *)
(* What the source holds does not change here; the checks of the source    *)
(* are UploadSource, and only their failure is an event of this module.    *)
(***************************************************************************)
EXTENDS Naturals, TransferLifecycle

CONSTANTS Total, Chunk,
          GivesId,      \* whether the server answers a whole file with an id
          MaxRetries, MaxPrepRetries, MaxRuns, MaxFaults, MaxLosses, MaxRestarts

VARIABLES pc,        \* where the worker is, or how the last run ended
          gate,      \* the terminal gate
          token,     \* the cancellation token of the run
          claimed,   \* terminal_claimed
          attempt,   \* retries of the current prepare or chunk
          offset,    \* cursor of the run
          local,     \* the offset the scheduler keeps for the next run
          abort,     \* upload_abort_required
          err,       \* the last error of a request
          held,      \* bytes the server has, from the beginning
          whole,     \* whether the server has made them a file
          late,      \* chunks the client gave up that may still arrive
          asked,     \* paused_set and canceling_set: the stops accepted in this run
          tries,     \* requests for the current chunk (history)
          after,     \* requests since the token was canceled (history)
          spent

serverVars == <<held, whole, late>>
taskVars == <<gate, abort, local>>
runVars == <<token, claimed, attempt, offset, err>>
countVars == <<asked, tries, after>>
vars == <<pc, serverVars, taskVars, runVars, countVars, spent>>

Least(a, b) == IF a < b THEN a ELSE b
Most(a, b) == IF a < b THEN b ELSE a

Bounds == [run |-> MaxRuns, fault |-> MaxFaults, loss |-> MaxLosses, restart |-> MaxRestarts]

Spend(kind) == spent[kind] < Bounds[kind] /\ spent' = [spent EXCEPT ![kind] = @ + 1]

Goto(p) == pc' = p

Ended == {"paused", "canceled", "failed", "completed"}

Init ==
  /\ pc = "idle" /\ gate = OPEN /\ token = FALSE /\ claimed = FALSE /\ attempt = 0
  /\ offset = 0 /\ local = 0 /\ abort = FALSE /\ err = "none"
  /\ held = 0 /\ whole = FALSE /\ late = {}
  /\ asked = {} /\ tries = 0 /\ after = 0
  /\ spent = [k \in DOMAIN Bounds |-> 0]

-----------------------------------------------------------------------------
(* Errors                                                                  *)

\* A transport error, a status that may pass, one that will not, an explicit
\* TaskCanceled of the protocol, a changed source, a bad answer.
Errors == {"http", "status5", "status4", "canceled", "source", "range", "negative"}

\* Faulty variant of CancellationCanMask: every error counts as the interruption.
CancellationMasksAll(e) == TRUE

\* cancellation_can_mask
CancellationCanMask(e) == e \in {"http", "canceled"}

\* is_transport_retryable: the status of an answer counts.
TransportRetryable(e) == e \in {"http", "status5"}

\* A stop was requested: stop_requested.
StopRequested == gate \in {CANCELING, PAUSING, COMPLETING_CANCEL_PENDING, COMPLETING_PAUSE_PENDING}

\* reached_limit: the limit is on the retries, not on the attempts.
ReachedLimit(limit) == attempt >= limit

-----------------------------------------------------------------------------
(* The server of the default protocol                                      *)

\* A chunk of n bytes at offset o, of which k are written: bytes after a gap
\* do not count.
Stores(o, k) ==
  /\ held' = IF o <= held THEN Most(held, o + k) ELSE held
  /\ whole' = (whole \/ (GivesId /\ held' = Total))

ChunkLen(o) == Least(Chunk, Total - o)

\* A chunk the client gave up arrives after all.
LateArrives ==
  /\ \E o \in late : late' = late \ {o} /\ Stores(o, ChunkLen(o))
  /\ UNCHANGED <<pc, taskVars, runVars, countVars, spent>>

\* The server forgets a part of what it has not made a file yet.
ServerLoses ==
  /\ ~whole /\ held > 0 /\ Spend("loss")
  /\ \E h \in 0..(held - 1) : held' = h
  /\ UNCHANGED <<pc, whole, late, taskVars, runVars, countVars>>

-----------------------------------------------------------------------------
(* Runs and commands                                                       *)

\* The scheduler starts a worker, for a new task or one that was paused.
Start ==
  /\ pc \in {"idle", "paused"} /\ Spend("run")
  /\ Goto("prepare") /\ token' = FALSE /\ claimed' = FALSE /\ attempt' = 0 /\ err' = "none"
  /\ asked' = {} /\ tries' = 0 /\ after' = 0
  /\ UNCHANGED <<serverVars, taskVars, offset>>

Running == pc \notin {"idle"} \cup Ended

\* A pause or a cancel command; it cancels the token unless the last request
\* holds the gate.
Command(kind, moved) ==
  /\ Running /\ kind \notin asked
  /\ gate' = moved /\ token' = (token \/ InterruptNow(gate)) /\ asked' = asked \cup {kind}
  /\ UNCHANGED <<pc, serverVars, abort, local, claimed, attempt, offset, err, tries, after, spent>>

Pause == Command("pause", BeginPause(gate))
Cancel == Command("cancel", BeginCancel(gate))

\* The provider session is given up.
Dropped == IF whole THEN held ELSE 0

\* The run was paused, and no cancel has replaced the pause.
Parks == "pause" \in asked /\ "cancel" \notin asked

\* The worker is quiet and the stop is reported; a pause makes the task
\* startable again, a cancel aborts the upload.
StopReported ==
  /\ pc = "stop"
  /\ IF Parks
     THEN Goto("paused") /\ gate' = ResetPause(gate) /\ UNCHANGED held
     ELSE Goto("canceled") /\ held' = Dropped /\ UNCHANGED gate
  /\ UNCHANGED <<whole, late, abort, local, runVars, countVars, spent>>

\* The worker is quiet and the failure is reported, after the abort it needs.
FailureReported ==
  /\ pc = "fail" /\ Goto("failed") /\ held' = IF abort THEN Dropped ELSE held
  /\ UNCHANGED <<whole, late, taskVars, runVars, countVars, spent>>

\* The process ends and a new one uploads the file again.
Restart ==
  /\ Running /\ Spend("restart")
  /\ Goto("idle") /\ gate' = OPEN /\ abort' = FALSE /\ local' = 0
  /\ token' = FALSE /\ claimed' = FALSE /\ attempt' = 0 /\ offset' = 0 /\ err' = "none"
  /\ asked' = {} /\ tries' = 0 /\ after' = 0
  /\ UNCHANGED serverVars

-----------------------------------------------------------------------------
(* Prepare                                                                 *)

\* The token is looked at before every prepare request.
CheckPrepare ==
  /\ pc = "prepare" /\ Goto(IF token THEN "stop" ELSE "preparing")
  /\ UNCHANGED <<serverVars, taskVars, runVars, countVars, spent>>

\* Where the run begins: at the end of a file that has an id, otherwise where
\* the server or this client got to.
ResumeAt == IF whole /\ GivesId THEN Total ELSE Least(Most(local, held), Total)

Prepared ==
  /\ pc = "preparing" /\ Goto("loop")
  /\ offset' = ResumeAt /\ local' = ResumeAt /\ attempt' = 0
  /\ UNCHANGED <<serverVars, gate, abort, token, claimed, err, countVars, spent>>

\* What the errors of prepare lead to: an interruption, a retry of what may
\* pass (for uploads, statuses included), or a failure.
PrepareFails(e) ==
  /\ pc = "preparing" /\ Spend("fault") /\ err' = e
  /\ abort' = (abort \/ e \in {"source", "range"})
  /\ LET related == CancellationCanMask(e)
         forced == abort' \/ (token /\ ~related) IN
     IF token /\ related /\ ~abort' THEN Goto("stop")
     ELSE IF forced \/ ~TransportRetryable(e) \/ ReachedLimit(MaxPrepRetries) THEN Goto("fail")
     ELSE Goto("prepBackoff")
  /\ UNCHANGED <<serverVars, gate, local, token, claimed, attempt, offset, countVars>>

\* The backoff ends by the token or by the clock; both may be ready.
PrepareBackoff ==
  /\ pc = "prepBackoff"
  /\ \/ token /\ Goto("stop") /\ UNCHANGED attempt
     \/ Goto("prepare") /\ attempt' = attempt + 1
  /\ UNCHANGED <<serverVars, taskVars, token, claimed, offset, err, countVars, spent>>

-----------------------------------------------------------------------------
(* The serial loop                                                         *)

Terminal == offset + Chunk >= Total

\* Before a chunk: the token, and for the predicted last one the gate.
Turn ==
  /\ pc = "loop"
  /\ IF token \/ (Terminal /\ ~claimed /\ ~CanClaim(gate))
     THEN Goto("stop") /\ UNCHANGED <<gate, claimed>>
     ELSE /\ Goto("try") /\ claimed' = Terminal
          /\ gate' = IF Terminal THEN BeginCompletion(gate) ELSE gate
  /\ attempt' = 0 /\ tries' = 0
  /\ UNCHANGED <<serverVars, abort, local, token, offset, err, asked, after, spent>>

\* Faulty variant of Try: a request is sent without looking at the token.
TryAnyway == pc = "try" /\ Goto("send")

\* The token is looked at before every request; it may be canceled right
\* after that.
Try == pc = "try" /\ Goto(IF token THEN "stop" ELSE "send")

CheckChunk == Try /\ UNCHANGED <<serverVars, taskVars, runVars, countVars, spent>>

Sent == tries' = tries + 1 /\ after' = IF token THEN after + 1 ELSE after

\* The run has reached the end of a file: there is nothing to send.
NothingLeft ==
  /\ pc = "send" /\ offset >= Total
  /\ Goto("verify")
  /\ UNCHANGED <<serverVars, taskVars, runVars, countVars, spent>>

\* Faulty variant of Suggested: the end of what was sent, whatever the server says.
SuggestedEnd(end) == end

\* The next byte the server needs.  It may leave it out when it stored the whole
\* chunk: the default is the end of the chunk, which is then the same number.
Suggested(end) == held'

\* validate_serial_upload_ack: past the offset and within the chunk.
AckAdvances(next, end) == next > offset /\ next <= end

\* After a chunk that was not the last: a claim is given back, and a stop that
\* waited behind it is obeyed now.
Continue ==
  /\ gate' = IF claimed THEN FinishIncompleteCompletion(gate) ELSE gate
  /\ Goto(IF claimed /\ DeferredStop(gate) THEN "stop" ELSE "loop")

\* The server stores k bytes of the chunk and says what it needs next.
Answered ==
  /\ pc = "send" /\ offset < Total /\ Sent
  /\ \E k \in 0..ChunkLen(offset) : Stores(offset, k)
  /\ LET end == offset + ChunkLen(offset) next == Suggested(end) IN
     IF ~whole' /\ ~AckAdvances(next, end)
     THEN abort' = TRUE /\ err' = "range" /\ Goto("fail")
          /\ UNCHANGED <<gate, claimed, offset, local>>
     ELSE IF whole' \/ next >= Total
     THEN Goto("verify") /\ UNCHANGED <<gate, claimed, abort, err, offset, local>>
     ELSE Continue /\ claimed' = FALSE /\ offset' = next /\ local' = next /\ UNCHANGED <<abort, err>>
  /\ UNCHANGED <<late, token, attempt, asked, spent>>

\* finish_incomplete_completion for a request the protocol gave up.
Settle == gate' = FinishIncompleteCompletion(gate)

\* transfer_chunk_with_retry after an error.
ChunkError(e) ==
  /\ err' = e
  /\ LET deferred == e = "canceled" /\ StopRequested IN
     IF (token /\ CancellationCanMask(e)) \/ deferred
     THEN Goto("stop") /\ IF deferred THEN Settle ELSE UNCHANGED gate
     ELSE /\ Goto(IF ~TransportRetryable(e) \/ ReachedLimit(MaxRetries) THEN "fail" ELSE "backoff")
          /\ UNCHANGED gate

\* The chunk is refused, or the source has changed; the chunk is not stored.
ChunkRefused(e) ==
  /\ pc = "send" /\ offset < Total /\ Spend("fault") /\ Sent /\ ChunkError(e)
  /\ abort' = (abort \/ e = "source")
  /\ UNCHANGED <<serverVars, local, token, claimed, attempt, offset, asked>>

\* The connection breaks before the chunk was stored, after it, or so that it
\* is stored later.
ChunkLost ==
  /\ pc = "send" /\ offset < Total /\ Spend("fault") /\ Sent /\ ChunkError("http")
  /\ \/ UNCHANGED serverVars
     \/ Stores(offset, ChunkLen(offset)) /\ UNCHANGED late
     \/ late' = late \cup {offset} /\ UNCHANGED <<held, whole>>
  /\ UNCHANGED <<abort, local, token, claimed, attempt, offset, asked>>

\* The backoff ends by the token or by the clock; both may be ready.
Backoff ==
  /\ pc = "backoff"
  /\ \/ token /\ Goto("stop") /\ UNCHANGED attempt
     \/ Goto("try") /\ attempt' = attempt + 1
  /\ UNCHANGED <<serverVars, taskVars, token, claimed, offset, err, countVars, spent>>

\* The source is compared once more before the upload may end; complete_upload
\* follows unless the server gave an id or there was nothing to send.
Verified ==
  /\ pc = "verify" /\ Goto(IF whole \/ offset >= Total THEN "done" ELSE "complete")
  /\ UNCHANGED <<serverVars, taskVars, runVars, countVars, spent>>

\* The source has changed meanwhile.
VerifyFails ==
  /\ pc = "verify" /\ Spend("fault") /\ abort' = TRUE /\ ChunkError("source")
  /\ UNCHANGED <<serverVars, local, token, claimed, attempt, offset, countVars>>

\* complete_upload, inside the last chunk request: the provider makes what it
\* has a file.
Complete ==
  /\ pc = "complete" /\ Goto("done") /\ whole' = (held = Total)
  /\ UNCHANGED <<held, late, taskVars, runVars, countVars, spent>>

\* It fails: an error of the chunk like any other.
CompleteFails(e) ==
  /\ pc = "complete" /\ Spend("fault") /\ ChunkError(e)
  /\ UNCHANGED <<serverVars, abort, local, token, claimed, attempt, offset, countVars>>

\* The provider says the upload is complete: acknowledge_terminal_completion.
Done ==
  /\ pc = "done" /\ Goto("completed") /\ gate' = AcknowledgeCompletion(gate)
  /\ offset' = Total /\ local' = Total
  /\ UNCHANGED <<serverVars, abort, token, claimed, attempt, err, countVars, spent>>

-----------------------------------------------------------------------------
WorkerStep ==
  \/ CheckPrepare \/ Prepared \/ PrepareBackoff \/ Turn \/ CheckChunk \/ NothingLeft
  \/ Answered \/ Backoff \/ Verified \/ Complete \/ Done \/ StopReported \/ FailureReported

Fault ==
  \/ \E e \in Errors : PrepareFails(e)
  \/ \E e \in Errors \ {"http", "range", "negative"} : ChunkRefused(e)
  \/ ChunkLost \/ VerifyFails
  \/ \E e \in {"http", "status5", "status4", "canceled"} : CompleteFails(e)

Next == WorkerStep \/ Fault \/ Start \/ Pause \/ Cancel \/ Restart \/ LateArrives \/ ServerLoses

Spec == Init /\ [][Next]_vars

\* The runtime polls the worker: what it can do it does.
FairSpec == Spec /\ WF_vars(WorkerStep)

-----------------------------------------------------------------------------
(* Properties                                                              *)

\* upload_one_chunk and upload_prepare_once: an upload is reported complete only
\* when the server has every byte and has made them a file, whatever answers
\* were lost, whatever arrived late and whatever the server forgot while the
\* task was paused.
CompletedIsCommitted == pc = "completed" => whole /\ held = Total

\* transfer_chunk_with_retry: a chunk is sent once and then at most
\* max_chunk_retries times again, the attempts that failed in complete_upload
\* included.
BudgetKept == tries <= MaxRetries + 1

\* transfer_chunk_with_retry: after a stop has interrupted the run at most one
\* more request is sent, the one whose check came before it; the backoff that is
\* over at the same moment does not let another one pass.
StopIsPrompt == after <= 1

\* finish_incomplete_completion: a task that is reported paused can claim
\* its last request again, also when the pause waited behind that claim and the
\* protocol gave the request up.
ParkedIsOpen == pc = "paused" => gate = OPEN

\* A cancel that was accepted, before or after a pause, is never turned into a
\* pause by the request it waited for.
CancelIsFinal == "cancel" \in asked => pc # "paused"

\* cancellation_can_mask: a run that has seen its source change, or an answer
\* that cannot be, is reported failed even if a stop races it.
AbortIsFailure == abort => pc \notin {"paused", "canceled", "completed"}

\* A stop that waited behind a claim is obeyed when the claim is given back: a
\* worker whose gate is shut has its token canceled, or is on its way out.
ShutGateStops ==
  gate \in {PAUSING, CANCELING} /\ pc \in {"loop", "try", "send", "backoff"} => token

\* Every run ends: retries are limited, and a server whose cursor stands still
\* is refused.
RunEnds == Running ~> ~Running

=============================================================================
