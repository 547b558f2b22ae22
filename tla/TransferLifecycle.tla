------------------------- MODULE TransferLifecycle -------------------------
(***************************************************************************)
(* The terminal gate of one task (inner_task.rs, struct TransferLifecycle). *)
(* Every view of a task shares one atomic byte that decides, in one        *)
(* compare-and-exchange, whether the final request or a pause/cancel wins. *)
(* Each operator is the effect of one method on that byte; the retry loops *)
(* around the compare-and-exchange disappear because a failed exchange     *)
(* changes nothing and is tried again.                                     *)
(***************************************************************************)

OPEN == "Open"
COMPLETING == "Completing"
CANCELING == "Canceling"
PAUSING == "Pausing"
COMPLETING_CANCEL_PENDING == "CompletingCancelPending"
COMPLETING_PAUSE_PENDING == "CompletingPausePending"

GateState == {OPEN, COMPLETING, CANCELING, PAUSING,
              COMPLETING_CANCEL_PENDING, COMPLETING_PAUSE_PENDING}

\* A completion claim is outstanding, with or without a stop waiting behind it.
Claimed == {COMPLETING, COMPLETING_CANCEL_PENDING, COMPLETING_PAUSE_PENDING}

\* begin_completion succeeds exactly when nobody else holds the gate.
CanClaim(s) == s = OPEN

BeginCompletion(s) == IF CanClaim(s) THEN COMPLETING ELSE s

AcknowledgeCompletion(s) == COMPLETING

\* begin_pause / begin_cancel return InterruptNow or DeferredUntilRequestReturns.
InterruptNow(s) == s \notin Claimed

BeginPause(s) ==
  CASE s = OPEN       -> PAUSING
    [] s = COMPLETING -> COMPLETING_PAUSE_PENDING
    [] OTHER          -> s

BeginCancel(s) ==
  IF InterruptNow(s) THEN CANCELING ELSE COMPLETING_CANCEL_PENDING

\* Faulty variant of ResetPause: the gate of a paused task stays shut.
ResetPauseNot(s) == s

ResetPause(s) == IF s = PAUSING THEN OPEN ELSE s

\* finish_incomplete_completion: the predicted last request was not the last.
\* It returns a stop exactly when one was pending behind the claim.
FinishIncompleteCompletion(s) ==
  CASE s = COMPLETING                -> OPEN
    [] s = COMPLETING_PAUSE_PENDING  -> PAUSING
    [] s = COMPLETING_CANCEL_PENDING -> CANCELING
    [] OTHER                         -> s

DeferredStop(s) == s \in Claimed \ {COMPLETING}
=============================================================================
