----------------------------- MODULE GroupWorker -----------------------------
(***************************************************************************)
(* The contract of the worker of one group, as the scheduler relies on it: *)
(* the worker actions of module Scheduler for one key, next to the stops   *)
(* the scheduler may request meanwhile.  ParallelGroup is shown to         *)
(* implement it.  A stop requested after the worker has decided its        *)
(* terminal event only moves the gate and is left to Scheduler.            *)
(***************************************************************************)
EXTENDS TransferLifecycle

CONSTANT Direction     \* "Upload" or "Download"

VARIABLES
  worker,      \* "prepare", "transfer", "finishing" or "exit"
  terminal,    \* the gate shared with the scheduler
  token,       \* the CancellationToken is cancelled
  outbox,      \* the terminal event, once decided
  acked,       \* the provider reported the object complete
  aborted      \* the upload session was aborted

vars == <<worker, terminal, token, outbox, acked, aborted>>

Init ==
  /\ worker = "prepare"
  /\ terminal = OPEN
  /\ token = FALSE
  /\ outbox = "none"
  /\ acked = FALSE
  /\ aborted = FALSE

Active == worker # "exit"

\* pause_group, cancel_group and Close act on a registered worker.
RequestPause ==
  /\ terminal' = BeginPause(terminal)
  /\ token' = (token \/ InterruptNow(terminal))
  /\ UNCHANGED <<worker, outbox, acked, aborted>>

RequestCancel ==
  /\ terminal' = BeginCancel(terminal)
  /\ token' = (token \/ InterruptNow(terminal))
  /\ UNCHANGED <<worker, outbox, acked, aborted>>

\* Close interrupts a worker whose cancel was deferred.
Interrupt ==
  /\ terminal = COMPLETING_CANCEL_PENDING
  /\ token' = TRUE
  /\ UNCHANGED <<worker, terminal, outbox, acked, aborted>>

Finish(ev) == worker' = "exit" /\ outbox' = ev

FinishStopped == Finish("Canceled") \/ (Direction = "Download" /\ Finish("Failed"))

Prepared ==
  /\ worker = "prepare"
  /\ worker' = "transfer"
  /\ UNCHANGED <<terminal, token, outbox, acked, aborted>>

ClaimCompletion ==
  /\ worker = "transfer" /\ CanClaim(terminal)
  /\ terminal' = BeginCompletion(terminal)
  /\ worker' = "finishing"
  /\ UNCHANGED <<token, outbox, acked, aborted>>

ObserveStop ==
  /\ \/ Active /\ token
     \/ worker = "transfer" /\ ~CanClaim(terminal)
  /\ FinishStopped
  /\ UNCHANGED <<terminal, token, acked, aborted>>

ReportedDone ==
  /\ worker \in {"transfer", "finishing"}
  /\ \/ terminal' = AcknowledgeCompletion(terminal)
     \/ worker = "finishing" /\ UNCHANGED terminal
  /\ acked' = TRUE
  /\ Finish("Completed") \/ (Direction = "Download" /\ Finish("Failed"))
  /\ UNCHANGED <<token, aborted>>

GiveClaimBack ==
  /\ worker = "finishing"
  /\ terminal' = FinishIncompleteCompletion(terminal)
  /\ IF DeferredStop(terminal)
     THEN FinishStopped
     ELSE worker' = "transfer" /\ UNCHANGED outbox
  /\ UNCHANGED <<token, acked, aborted>>

Fail ==
  /\ Active
  /\ Finish("Failed")
  /\ aborted' \in {aborted, aborted \/ Direction = "Upload"}
  /\ UNCHANGED <<terminal, token, acked>>

Next ==
  \/ Active /\ (RequestPause \/ RequestCancel \/ Interrupt)
  \/ Prepared \/ ClaimCompletion \/ ObserveStop \/ ReportedDone
  \/ GiveClaimBack \/ Fail

Spec == Init /\ [][Next]_vars
=============================================================================
