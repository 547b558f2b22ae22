--------------------------- MODULE MCSchedulerLate ---------------------------
(***************************************************************************)
(* The scheduler with a history of the cancels that came too late: those   *)
(* answered Ok while the worker was in the last request, for which it had  *)
(* claimed completion.                                                     *)
(***************************************************************************)
EXTENDS MCScheduler

VARIABLE late_ok  \* tasks whose cancel was accepted after the claim

\* The worker holds the gate and its last request is out.
CompletionClaimed(t) == terminal[t] \in Claimed /\ worker[KeyOf[t]] = "finishing"

LateInit == Init /\ late_ok = {}

LateNext ==
  /\ Next
  /\ late_ok' = late_ok \cup {t \in cancel_ok' \ cancel_ok : CompletionClaimed(t)}

LateSpec == LateInit /\ [][LateNext]_<<vars, late_ok>>

\* cancel_group says "If completion already claimed the task, reject this late
\* cancel instead of reporting it accepted and then silently
\* completing/aborting" (executor.rs:733): a cancel that was accepted after the
\* claim is not followed by Complete.  Cancels that the claim did not precede
\* are not meant: a provider that reports the object complete early may win
\* over those.
LateCancelRejected == \A t \in late_ok : status[t] # "Complete"
=============================================================================
