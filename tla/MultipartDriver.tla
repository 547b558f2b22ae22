---------------------------- MODULE MultipartDriver ----------------------------
(***************************************************************************)
(* What a multipart upload protocol sees of the executor: prepare at the   *)
(* stored offset, concurrent parts with retries, one completion, an abort  *)
(* after a cancel, pauses and resumes (exec.rs, retry.rs and the upload    *)
(* half of default_http_transfer.rs).  The protocols (OssUpload,           *)
(* AzureUpload, PresignedUpload) add their own state to these steps.       *)
(*                                                                         *)
(* Offsets are counted in parts.  The file of task t has the content t:    *)
(* what a part holds is the number of the task it was read for.            *)
(***************************************************************************)
EXTENDS Naturals, FiniteSets, Sequences

CONSTANTS Sizes,      \* Sizes[t] is the number of parts of task t
          Window,     \* max_parts_in_flight
          MaxFaults,  \* requests or answers that are lost, in all
          MaxStops,   \* pauses and cancels, in all
          MaxRestarts \* protocol instances that are replaced during a task

VARIABLES pc,      \* where the task is
          task,    \* the task, 0 before the first
          stored,  \* the offset the scheduler keeps
          acked,   \* parts that are done, or were before this run
          flight,  \* parts in flight
          broken,  \* a part failed for good
          stop,    \* the control request that was made
          fresh,   \* parts this run has sent
          spent

driverVars == <<pc, task, stored, acked, flight, broken, stop, fresh, spent>>

MaxSize == CHOOSE n \in {Sizes[t] : t \in DOMAIN Sizes} : \A t \in DOMAIN Sizes : Sizes[t] <= n
Numbers == 1..MaxSize
Total == Sizes[task]
Parts == 1..Total
Busy == {"prepare", "parts", "complete", "abort"}
Ended == {"done", "failed", "canceled"}

DriverInit ==
  /\ pc = "none" /\ task = 0 /\ stored = 0 /\ acked = {} /\ flight = {} /\ broken = FALSE
  /\ stop = "no" /\ fresh = {} /\ spent = [fault |-> 0, stop |-> 0, restart |-> 0]

Fault == spent.fault < MaxFaults /\ spent' = [spent EXCEPT !.fault = @ + 1]

\* The contiguous prefix that Progress reports.
Watermark(done) == CHOOSE n \in 0..Total : 1..n \subseteq done /\ (n = Total \/ n + 1 \notin done)

-----------------------------------------------------------------------------

\* A task is enqueued: its first run starts at offset 0.
Enqueue ==
  /\ pc \in Ended \cup {"none"} /\ task + 1 \in DOMAIN Sizes
  /\ pc' = "prepare" /\ task' = task + 1 /\ stored' = 0 /\ stop' = "no"
  /\ acked' = {} /\ flight' = {} /\ broken' = FALSE /\ fresh' = {}
  /\ UNCHANGED spent

\* A paused group is resumed at the stored offset.
Resume ==
  /\ pc = "paused" /\ pc' = "prepare" /\ stop' = "no"
  /\ acked' = {} /\ flight' = {} /\ broken' = FALSE /\ fresh' = {}
  /\ UNCHANGED <<task, stored, spent>>

\* The protocol instance is lost and another one is prepared at the offset
\* its caller passes (the trait's local_offset): a scheduler keeps the
\* instances of its tasks, a new process starts at 0.
Restarted(from) ==
  /\ pc \in Busy \cup {"paused"} /\ spent.restart < MaxRestarts
  /\ spent' = [spent EXCEPT !.restart = @ + 1]
  /\ pc' = "prepare" /\ stop' = "no" /\ acked' = {} /\ flight' = {} /\ broken' = FALSE /\ fresh' = {}
  /\ stored' = from /\ UNCHANGED task

\* A pause or a cancel is requested; a pause may become a cancel.  A cancel
\* that comes after the completion was begun does not interrupt it.
Control ==
  /\ spent.stop < MaxStops /\ spent' = [spent EXCEPT !.stop = @ + 1]
  /\ \/ /\ pc \in {"prepare", "parts"}
        /\ \E s \in {"pause", "cancel"} : stop # "cancel" /\ s # stop /\ stop' = s
        /\ UNCHANGED pc
     \/ pc = "complete" /\ stop = "no" /\ stop' = "cancel" /\ UNCHANGED pc
     \/ pc = "paused" /\ stop' = "cancel" /\ pc' = "abort"
  /\ UNCHANGED <<task, stored, acked, flight, broken, fresh>>

\* What follows when a run stops at the token.
Stopped == IF stop = "pause" THEN "paused" ELSE "abort"

\* The loop around prepare sees the token between two attempts.
PrepareStopped ==
  /\ pc = "prepare" /\ stop # "no" /\ pc' = Stopped
  /\ UNCHANGED <<task, stored, acked, flight, broken, stop, fresh, spent>>

\* A worker failed: a cancel that was accepted is still followed by the abort.
Failing == IF stop = "cancel" THEN "abort" ELSE "failed"

\* A refused prepare fails the task.
PrepareFails ==
  /\ pc = "prepare" /\ pc' = Failing
  /\ UNCHANGED <<task, stored, acked, flight, broken, stop, fresh, spent>>

\* A transport error: the token masks it; else another attempt, or the end.
PrepareBreaks ==
  /\ pc = "prepare" /\ Fault
  /\ pc' \in IF stop = "no" THEN {"prepare", "failed"} ELSE {Stopped}
  /\ UNCHANGED <<task, stored, acked, flight, broken, stop, fresh>>

\* upload_prepare_once: next_byte is merged with the local offset.  A run that
\* starts at the total reports Completed at once.
Prepared(next) ==
  /\ pc = "prepare"
  /\ LET start == IF next > stored THEN next ELSE stored IN
       /\ acked' = 1..start /\ stored' = start
       /\ pc' = IF start < Total THEN "parts" ELSE IF stop = "no" THEN "done" ELSE Stopped
  /\ UNCHANGED <<task, flight, broken, stop, fresh, spent>>

Todo == Parts \ (acked \cup flight)

Dispatch(i) ==
  /\ pc = "parts" /\ stop = "no" /\ ~broken /\ Cardinality(flight) < Window
  /\ i \in Todo /\ \A j \in Todo : i <= j
  /\ flight' = flight \cup {i}
  /\ UNCHANGED <<pc, task, stored, acked, broken, stop, fresh, spent>>

\* upload_chunk of part i succeeded.
PartDone(i) ==
  /\ pc = "parts" /\ i \in flight
  /\ flight' = flight \ {i} /\ acked' = acked \cup {i} /\ fresh' = fresh \cup {i}
  /\ stored' = Watermark(acked')
  /\ UNCHANGED <<pc, task, broken, stop, spent>>

\* Faulty variant of PartFails: the last retry counts as done.
PartFailsDone(i) ==
  /\ pc = "parts" /\ i \in flight /\ flight' = flight \ {i} /\ acked' = acked \cup {i}
  /\ UNCHANGED <<pc, task, stored, broken, stop, fresh>>

\* It failed: it is sent again, given up, or the token masks the error.
PartFails(i) ==
  /\ pc = "parts" /\ i \in flight
  /\ \/ stop = "no" /\ UNCHANGED <<flight, broken>>
     \/ stop = "no" /\ flight' = flight \ {i} /\ broken' = TRUE
     \/ stop # "no" /\ flight' = flight \ {i} /\ UNCHANGED broken
  /\ UNCHANGED <<pc, task, stored, acked, stop, fresh>>

\* The token is seen before a request is sent, or while its retry is delayed.
PartCanceled(i) ==
  /\ pc = "parts" /\ i \in flight /\ stop # "no" /\ flight' = flight \ {i}
  /\ UNCHANGED <<pc, task, stored, acked, broken, stop, fresh, spent>>

\* The service refused it: no retry, and the token does not mask it.
PartRefused(i) ==
  /\ pc = "parts" /\ i \in flight /\ flight' = flight \ {i} /\ broken' = TRUE
  /\ UNCHANGED <<pc, task, stored, acked, stop, fresh, spent>>

\* The join barrier: a failure, then the token, then the completion.
Join ==
  /\ pc = "parts" /\ flight = {}
  /\ pc' = IF broken THEN Failing ELSE IF stop # "no" THEN Stopped ELSE "complete"
  /\ broken \/ stop # "no" \/ acked = Parts
  /\ UNCHANGED <<task, stored, acked, flight, broken, stop, fresh, spent>>

Completed ==
  /\ pc = "complete" /\ pc' = "done"
  /\ UNCHANGED <<task, stored, acked, flight, broken, stop, fresh, spent>>

\* complete is called once; its error fails the task.
CompleteFails ==
  /\ pc = "complete" /\ pc' = Failing
  /\ UNCHANGED <<task, stored, acked, flight, broken, stop, fresh>>

\* The task ends whether the abort succeeded or not.
Aborted ==
  /\ pc = "abort" /\ pc' = "canceled"
  /\ UNCHANGED <<task, stored, acked, flight, broken, stop, fresh>>

=============================================================================
