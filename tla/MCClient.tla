------------------------------- MODULE MCClient -------------------------------
(***************************************************************************)
(* The client for TLC: in each behaviour one scenario with constants of    *)
(* its own.  The callers are c1, c2 and cb, which runs the callbacks.      *)
(***************************************************************************)
EXTENDS Naturals

CONSTANTS Scenarios, c1, c2, cb, p1, b1

VARIABLES scenario, lifecycle, already, closed, dropped, loop, queue, live, reply, complete, closer,
          supervisor, pc, arg, notified, accepted, reported, succeeded

vars == <<scenario, lifecycle, already, closed, dropped, loop, queue, live, reply, complete, closer,
          supervisor, pc, arg, notified, accepted, reported, succeeded>>

\* Both executors, and callers that may drop any future.
Mixed == INSTANCE Client WITH
  Caller <- {c1, cb}, Callback <- cb, PounceTask <- {p1}, BinaryTask <- {b1}, QueueCapacity <- 1,
  MayDrop <- {"plain", "mixed", "call"}, MayDie <- {}

\* In-memory downloads only: three callers, and closes that may be dropped.
Crowd == INSTANCE Client WITH
  Caller <- {c1, c2, cb}, Callback <- cb, PounceTask <- {}, BinaryTask <- {b1}, QueueCapacity <- 1,
  MayDrop <- {"mixed"}, MayDie <- {}

\* File transfers only: every future but that of close may be dropped, and the
\* scheduler thread may panic.
Plain == INSTANCE Client WITH
  Caller <- {c1, c2, cb}, Callback <- cb, PounceTask <- {p1}, BinaryTask <- {}, QueueCapacity <- 1,
  MayDrop <- {"mixed", "call"}, MayDie <- {"pounce"}

\* File transfers only, and the future of close may be dropped.
Stranded == INSTANCE Client WITH
  Caller <- {c1, c2, cb}, Callback <- cb, PounceTask <- {p1}, BinaryTask <- {}, QueueCapacity <- 1,
  MayDrop <- {"plain", "mixed", "call"}, MayDie <- {}

Init ==
  /\ scenario \in Scenarios
  /\ \/ scenario = "mixed" /\ Mixed!Init
     \/ scenario = "crowd" /\ Crowd!Init
     \/ scenario = "plain" /\ Plain!Init
     \/ scenario = "stranded" /\ Stranded!Init

MixedStep == scenario = "mixed" /\ Mixed!Next /\ UNCHANGED scenario
CrowdStep == scenario = "crowd" /\ Crowd!Next /\ UNCHANGED scenario
PlainStep == scenario = "plain" /\ Plain!Next /\ UNCHANGED scenario
StrandedStep == scenario = "stranded" /\ Stranded!Next /\ UNCHANGED scenario

Next == MixedStep \/ CrowdStep \/ PlainStep \/ StrandedStep

\* Threads run, calls are polled, callbacks return.  A send gets its turn and a
\* drain its end, since commands and callbacks in front of them are finite.
CallStep(c) ==
  /\ \/ scenario = "crowd" /\ Crowd!CallStep(c)
     \/ scenario = "plain" /\ Plain!CallStep(c)
     \/ scenario = "stranded" /\ Stranded!CallStep(c)
  /\ UNCHANGED scenario
ThreadStep ==
  /\ \/ scenario = "crowd" /\ (Crowd!SupervisorFinish \/ Crowd!LeaveCallback)
     \/ scenario = "plain" /\ (Plain!SupervisorFinish \/ Plain!LeaveCallback)
     \/ scenario = "stranded" /\ (Stranded!SupervisorFinish \/ Stranded!LeaveCallback)
  /\ UNCHANGED scenario
LoopStep(e) ==
  /\ \/ scenario = "crowd" /\ Crowd!LoopStep(e)
     \/ scenario = "plain" /\ Plain!LoopStep(e)
     \/ scenario = "stranded" /\ Stranded!LoopStep(e)
  /\ UNCHANGED scenario
Drained(e) ==
  /\ \/ scenario = "crowd" /\ Crowd!Drained(e)
     \/ scenario = "plain" /\ Plain!Drained(e)
     \/ scenario = "stranded" /\ Stranded!Drained(e)
  /\ UNCHANGED scenario
CloseSend(e) ==
  /\ \/ scenario = "crowd" /\ Crowd!CloseSend(e)
     \/ scenario = "plain" /\ Plain!CloseSend(e)
     \/ scenario = "stranded" /\ Stranded!CloseSend(e)
  /\ UNCHANGED scenario

FairSpec ==
  /\ Init /\ [][Next]_vars
  /\ WF_vars(ThreadStep)
  /\ WF_vars(CallStep(c1)) /\ WF_vars(CallStep(c2)) /\ WF_vars(CallStep(cb))
  /\ \A e \in {"pounce", "binary"} :
       WF_vars(LoopStep(e)) /\ SF_vars(Drained(e)) /\ SF_vars(CloseSend(e))

-----------------------------------------------------------------------------
(* Properties                                                              *)

\* A closed client leaves nothing behind: every executor that was ever published
\* has left its loop, whoever raced to publish it; and a close that returned Ok
\* is final and every task accepted before it was told how it ended: nothing is
\* accepted behind the Close command (get_exec_locked, get_binary_exec_locked,
\* try_enqueue under the lifecycle lock).
ClosedLeavesNothing ==
  /\ scenario = "mixed" => Mixed!ClosedLeavesNothing /\ Mixed!OkMeansReported
  /\ scenario = "crowd" => Crowd!ClosedLeavesNothing /\ Crowd!OkMeansReported
  /\ scenario = "plain" => Plain!ClosedLeavesNothing /\ Plain!OkMeansReported /\ Plain!FlagsAgree
  /\ scenario = "stranded" => Stranded!ClosedLeavesNothing /\ Stranded!OkMeansReported

\* There is one teardown at a time: while the client is Closing exactly one
\* caller or the supervisor is in charge of ending that state, unless the future
\* of a plain close was dropped (close and its supervisor thread).
OneTeardown ==
  /\ scenario = "mixed" => Mixed!OneTeardown
  /\ scenario = "crowd" => Crowd!OneTeardown
  /\ scenario = "plain" => Plain!OneTeardown
  /\ scenario = "stranded" => Stranded!OneTeardown

\* A retry after a partial failure asks only the executors that are not closed,
\* and a mixed client is never reopened (CloseFailed).
RetryIsPartial ==
  [][/\ \A e \in {"pounce", "binary"} : already[e] /\ closer'[e] = "send" => closer[e] = "send"
     /\ lifecycle \in {"CloseFailed", "Closed"} => lifecycle' # "Open"]_vars

Fair == scenario \in {"crowd", "plain"}
Returned(c) == pc[c] = "idle"

\* Every close() returns, also one that only waits for another; enqueue_and_wait
\* returns once its scheduler closes or is gone, even if it was never told how
\* the task ended; and a client that is dropped without close lets its scheduler
\* threads go (close_notify, enqueue_and_wait, the Drop of the executors).
CallsReturn ==
  /\ \A c \in {c1, c2, cb} :
       (Fair /\ (pc[c] = "registered" \/ (pc[c] = "awaiting" /\ loop["pounce"] \in {"draining", "exited"})))
         ~> (Fair /\ Returned(c))
  /\ (Fair /\ dropped) ~> (Fair /\ \A e \in Crowd!Published : loop[e] = "exited")

\* docs/test-scenarios.md says "close cannot deadlock": a close() returns, also
\* after the future of an earlier one was dropped.
CloseReturns ==
  \A c \in {c1, c2, cb} :
    (scenario = "stranded" /\ pc[c] = "registered") ~> (scenario = "stranded" /\ Returned(c))

=============================================================================
