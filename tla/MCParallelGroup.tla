--------------------------- MODULE MCParallelGroup ---------------------------
(***************************************************************************)
(* The parallel driver for TLC, in two scenarios with constants of their   *)
(* own, and the loop of on_done as the code writes it.                     *)
(***************************************************************************)
EXTENDS Naturals, TLC

CONSTANTS Scenarios, fu, fd

VARIABLES scenario, driver, start, window, part, failed, cancelled, terminal, interrupted, waiters,
          outbox, reported, stored, acked, abort_required, aborted

vars == <<scenario, driver, start, window, part, failed, cancelled, terminal, interrupted, waiters,
          outbox, reported, stored, acked, abort_required, aborted>>

\* One upload: four parts, the last one short, or three after an odd resume.
One == INSTANCE ParallelGroup WITH
  File <- {fu}, DirOf <- fu :> "Upload", Total <- fu :> 7, Chunk <- fu :> 2, MaxParts <- fu :> 3,
  Starts <- fu :> {0, 1, 7}, Scratch <- 1, MemoryLimit <- 9, MaxPartTasks <- 4

\* An upload and a download share a budget that cannot serve both at once.
Two == INSTANCE ParallelGroup WITH
  File <- {fu, fd}, DirOf <- (fu :> "Upload") @@ (fd :> "Download"),
  Total <- (fu :> 3) @@ (fd :> 4), Chunk <- (fu :> 2) @@ (fd :> 2),
  MaxParts <- (fu :> 2) @@ (fd :> 2), Starts <- (fu :> {1}) @@ (fd :> {0, 1, 4}),
  Scratch <- 1, MemoryLimit <- 7, MaxPartTasks <- 4

ASSUME Cuttable == One!Constants /\ Two!Constants

Init ==
  /\ scenario \in Scenarios
  /\ \/ scenario = "one" /\ One!Init
     \/ scenario = "two" /\ Two!Init

OneStep == scenario = "one" /\ One!Next /\ UNCHANGED scenario
TwoStep == scenario = "two" /\ Two!Next /\ UNCHANGED scenario

Next == OneStep \/ TwoStep

Work ==
  /\ \/ scenario = "one" /\ One!Work
     \/ scenario = "two" /\ Two!Work
  /\ UNCHANGED scenario

FairSpec == Init /\ [][Next]_vars /\ WF_vars(Work)

-----------------------------------------------------------------------------
(* Properties                                                              *)

RECURSIVE LoopMark(_, _, _)
LoopMark(cut, m, done) ==
  IF m < cut.total /\ m \in done
  THEN LoopMark(cut, One!Least(m + cut.chunk, cut.total), done \ {m})
  ELSE <<m, done>>

\* The closed form of the prefix is what the loop of on_done computes, for
\* every set of parts that may be complete.
AbsorbIsLoop ==
  driver[fu] \in {"fill", "join"} =>
    \A o \in One!LiveParts(fu) :
      LET w == One!OnDone(One!Cut(fu), window[fu], o)
      IN  LoopMark(One!Cut(fu), window[fu].watermark, window[fu].completed \cup {o})
            = <<w.watermark, w.completed>>

\* The offset the scheduler is told never skips a hole: every byte below it is
\* stored, whatever the order in which the parts came back, and Completed is
\* only reported for a file that is stored in full (PartWindow::on_done).
PrefixIsStored ==
  /\ scenario = "one" => One!PrefixIsStored /\ One!CompletedIsWhole /\ AbsorbIsLoop
  /\ scenario = "two" => Two!PrefixIsStored /\ Two!CompletedIsWhole

\* Part tasks are accounted for to the last one. The window counts exactly the
\* tasks in the JoinSet and keeps its bound, they never exceed the memory checked
\* before the window opened, and every waiter of the budget belongs to a part that still waits. So
\* when completion is claimed, the session aborted or the terminal event decided,
\* no part runs any more, and a part that failed or panicked is never hidden by a
\* stop or by completion (run_group_parallel, ParallelMemoryBudget).
Quiescent ==
  /\ scenario = "one" => /\ One!WindowCount /\ One!WindowFits /\ One!QueueIsLive
                         /\ One!Quiescent /\ One!FailureWins
  /\ scenario = "two" => /\ Two!WindowCount /\ Two!WindowFits /\ Two!QueueIsLive
                         /\ Two!Quiescent /\ Two!FailureWins

\* The driver of each file keeps the contract the scheduler relies on: the gate
\* is claimed before completion, stops are obeyed, and there is one answer
\* (GroupWorker).
KeepsContract ==
  [][/\ scenario = "one" => One!KeepsContract
     /\ scenario = "two" => Two!KeepsContract]_vars

Ended ==
  /\ scenario = "one" => driver[fu] = "exit"
  /\ scenario = "two" => driver[fu] = "exit" /\ driver[fd] = "exit"

\* Every group ends: parts that hold memory finish, so the others get theirs
\* (run_group_parallel, ParallelMemoryBudget).
GroupEnds == <>Ended

=============================================================================
