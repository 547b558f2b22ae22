--------------------------- MODULE SchedulerSteps ---------------------------
(*****************************************************************************)
(* Every step preserves the invariant of the scheduler, the handlers that    *)
(* end in try_start_next up to what that does.  The facts about filtering    *)
(* the queue and about counting slots, which need the library of finite      *)
(* sets, are collected in Filtering and Releasing, proved in SchedulerProofs. *)
(* The second half does the same for what the records of a task say, and what *)
(* its terminal gate and its worker have to do with it.                      *)
(*****************************************************************************)
EXTENDS SchedulerInductive, TLAPS

USE SchedulerAssumption

(* Steps of a worker                                                       *)

\* What Append does, element by element.
LEMMA AppendFacts ==
  ASSUME NEW A, NEW s \in Seq(A), NEW e \in A
  PROVE  /\ Append(s, e) \in Seq(A)
         /\ Len(s) \in Nat /\ DOMAIN s = 1 .. Len(s)
         /\ DOMAIN Append(s, e) = 1 .. Len(s) + 1
         /\ \A i \in 1 .. Len(s) : Append(s, e)[i] = s[i]
         /\ Append(s, e)[Len(s) + 1] = e
  OBVIOUS

\* The same for the channel of events.
LEMMA SentFacts ==
  ASSUME NEW s \in Seq(Event), NEW e \in Event
  PROVE  /\ Len(s) \in Nat /\ DOMAIN s = 1 .. Len(s)
         /\ DOMAIN Append(s, e) = 1 .. Len(s) + 1
         /\ \A i \in 1 .. Len(s) : Append(s, e)[i] = s[i]
         /\ Append(s, e)[Len(s) + 1] = e
  BY AppendFacts

\* A worker that has not answered yet transfers the live task of its key.
LEMMA RunnerIsLive ==
  ASSUME IInv, NEW k \in Key, worker[k] # "none"
  PROVE  k \in active /\ runner[k] = groups[k] /\ runner[k] \in Task /\ groups[k] \in Task
  BY Zenon DEF IInv, TypeOK, Bookkeeping, OneAnswerPerWorker, Live, TaskOrNone

\* A worker step leaves the scheduler's collections alone.
LEMMA WorkerLeavesScheduler ==
  ASSUME IInv, NEW k \in Key, Worker(k)
  PROVE  /\ UNCHANGED <<schedVars, submitted, cancel_ok, status, cancelled>>
         /\ Bookkeeping' /\ QueueMirror' /\ SlotAccounting' /\ WorkConserving'
         /\ NoStaleProgress'
<1>1. UNCHANGED <<schedVars, submitted, cancel_ok, status, cancelled>>
  BY Zenon DEF Worker, Prepared, ChunkDone, ClaimCompletion, ObserveStop, ReportedDone,
         GiveClaimBack, Fail, SendTerminal, obsVars
<1>2. Bookkeeping' /\ QueueMirror'
  BY <1>1 DEF IInv, Bookkeeping, QueueMirror, schedVars, Live
<1>3. SlotAccounting' /\ WorkConserving'
  BY <1>1 DEF IInv, SlotAccounting, WorkConserving, schedVars
<1>4. NoStaleProgress'
  BY <1>1 DEF IInv, NoStaleProgress, schedVars, Live
<1> QED
  BY <1>1, <1>2, <1>3, <1>4, Zenon

\* A worker that moves on, or stops and then owes an answer, sends nothing.
LEMMA WorkerMoves ==
  ASSUME IInv, NEW k \in Key, worker[k] \in Running,
         NEW w \in Running \cup {"exit"}, NEW o \in TerminalEvent \cup {"none"},
         w = "exit" <=> o # "none",
         worker' = [worker EXCEPT ![k] = w], outbox' = [outbox EXCEPT ![k] = o],
         UNCHANGED <<groups, active, runner, worker_rx>>
  PROVE  /\ OneAnswerPerWorker'
         /\ worker' \in [Key -> Running \cup {"none", "exit"}]
         /\ outbox' \in [Key -> TerminalEvent \cup {"none"}]
<1>1. worker \in [Key -> Running \cup {"none", "exit"}]
      /\ outbox \in [Key -> TerminalEvent \cup {"none"}]
  BY Zenon DEF IInv, TypeOK
<1>2. worker' \in [Key -> Running \cup {"none", "exit"}]
      /\ outbox' \in [Key -> TerminalEvent \cup {"none"}]
  BY <1>1, Zenon
<1>3. worker[k] # "none" /\ worker'[k] # "none"
  BY <1>1, Zenon DEF Running
<1>4. \A i \in DOMAIN worker_rx :
        worker_rx[i].key \in Key /\ (worker_rx[i].type # "Progress" => worker_rx[i].key # k)
  BY <1>3 DEF IInv, TypeOK, OneAnswerPerWorker
<1>5. ASSUME NEW j \in Key
      PROVE  /\ worker'[j] # "none" => j \in active' /\ runner'[j] = groups'[j]
             /\ worker'[j] = "exit" <=> outbox'[j] # "none"
  <2>1. CASE j = k
    BY <2>1, <1>1, <1>3 DEF IInv, OneAnswerPerWorker
  <2>2. CASE j # k
    BY <2>2, <1>1 DEF IInv, OneAnswerPerWorker
  <2> QED BY <2>1, <2>2, Zenon
<1>6. ASSUME NEW j \in active', worker'[j] = "none"
      PROVE  \E i \in DOMAIN worker_rx' : worker_rx'[i].key = j /\ worker_rx'[i].type # "Progress"
  <2>1. j \in active /\ j \in Key /\ j # k /\ worker[j] = "none"
    BY <1>1, <1>3, <1>6, Zenon DEF IInv, TypeOK
  <2> QED
    BY <2>1 DEF IInv, OneAnswerPerWorker
<1>7. ASSUME NEW i \in DOMAIN worker_rx'
      PROVE  /\ worker_rx'[i].key \in active' /\ worker_rx'[i].by = groups'[worker_rx'[i].key]
             /\ worker_rx'[i].type # "Progress" =>
                  /\ worker'[worker_rx'[i].key] = "none"
                  /\ \A j \in DOMAIN worker_rx' : worker_rx'[j].key = worker_rx'[i].key => j <= i
  <2>1. worker_rx[i].type # "Progress" => worker'[worker_rx[i].key] = worker[worker_rx[i].key]
    BY <1>1, <1>4, Zenon
  <2> QED
    BY <2>1, Zenon DEF IInv, OneAnswerPerWorker
<1> QED
  BY <1>2, <1>5, <1>6, <1>7, Zenon DEF OneAnswerPerWorker

\* A worker appends an event of its own: progress while it runs, the terminal
\* event as its last step.
LEMMA WorkerSends ==
  ASSUME IInv, NEW k \in Key, worker[k] # "none", NEW type, NEW total \in BOOLEAN,
         NEW w,
         \/ type = "Progress" /\ w \in Running /\ worker[k] \in Running
                              /\ outbox' = outbox /\ runner' = runner
         \/ type \in TerminalEvent /\ w = "none"
              /\ outbox' = [outbox EXCEPT ![k] = "none"]
              /\ runner' = [runner EXCEPT ![k] = NoTask],
         worker' = [worker EXCEPT ![k] = w],
         worker_rx' = Append(worker_rx, [type |-> type, key |-> k, by |-> runner[k],
                                         total |-> total]),
         UNCHANGED <<groups, active>>
  PROVE  /\ OneAnswerPerWorker'
         /\ worker_rx' \in Seq(Event)
         /\ worker' \in [Key -> Running \cup {"none", "exit"}]
         /\ outbox' \in [Key -> TerminalEvent \cup {"none"}]
         /\ runner' \in [Key -> TaskOrNone]
<1> DEFINE e == [type |-> type, key |-> k, by |-> runner[k], total |-> total]
<1>1. k \in active /\ runner[k] = groups[k] /\ runner[k] \in Task
  BY RunnerIsLive, Zenon
<1>2. e \in Event
  BY <1>1, Zenon DEF Event, TerminalEvent
<1>3. /\ worker \in [Key -> Running \cup {"none", "exit"}]
      /\ outbox \in [Key -> TerminalEvent \cup {"none"}]
      /\ runner \in [Key -> TaskOrNone]
      /\ worker_rx \in Seq(Event)
  BY Zenon DEF IInv, TypeOK
<1>4. /\ worker' \in [Key -> Running \cup {"none", "exit"}]
      /\ outbox' \in [Key -> TerminalEvent \cup {"none"}]
      /\ runner' \in [Key -> TaskOrNone]
  BY <1>3, Zenon DEF TaskOrNone
<1>5. /\ worker_rx' \in Seq(Event)
      /\ Len(worker_rx) \in Nat /\ DOMAIN worker_rx = 1 .. Len(worker_rx)
      /\ DOMAIN worker_rx' = 1 .. Len(worker_rx) + 1
      /\ \A i \in 1 .. Len(worker_rx) : worker_rx'[i] = worker_rx[i]
      /\ worker_rx'[Len(worker_rx) + 1] = e
  <2> HIDE DEF e
  <2>1. worker_rx' = Append(worker_rx, e)
    BY Zenon DEF e
  <2> QED
    BY <1>2, <1>3, <2>1, AppendFacts
<1>6. e.type = type /\ e.key = k /\ e.by = groups[k]
  BY <1>1, Zenon
<1> HIDE DEF e
<1>7. \A i \in 1 .. Len(worker_rx) :
        worker_rx[i].key \in Key /\ (worker_rx[i].type # "Progress" => worker_rx[i].key # k)
  <2> SUFFICES ASSUME NEW i \in 1 .. Len(worker_rx)
               PROVE  /\ worker_rx[i].key \in Key
                      /\ worker_rx[i].type # "Progress" => worker_rx[i].key # k
    BY Zenon
  <2>1. worker_rx[i] \in Event
    BY <1>3
  <2>2. worker_rx[i].key \in Key
    BY <2>1, Zenon DEF Event
  <2>3. worker_rx[i].type # "Progress" => worker[worker_rx[i].key] = "none"
    BY <1>5, Zenon DEF IInv, OneAnswerPerWorker
  <2> QED
    BY <2>2, <2>3, Zenon
<1>8. ASSUME NEW j \in Key
      PROVE  /\ worker'[j] # "none" => j \in active' /\ runner'[j] = groups'[j]
             /\ worker'[j] = "exit" <=> outbox'[j] # "none"
  <2>1. CASE j = k
    <3>1. worker'[k] = w
      BY <1>3, Zenon
    <3>2. CASE type = "Progress"
      <4>1. w \in Running /\ worker[k] \in Running /\ outbox' = outbox /\ runner' = runner
        BY <3>2, Zenon DEF TerminalEvent
      <4>2. w # "exit" /\ worker[k] # "exit"
        BY <4>1, Zenon DEF Running
      <4> QED BY <2>1, <3>1, <4>1, <4>2, <1>1 DEF IInv, OneAnswerPerWorker
    <3>3. CASE type # "Progress"
      <4>1. w = "none" /\ outbox' = [outbox EXCEPT ![k] = "none"]
        BY <3>3, Zenon
      <4> QED BY <2>1, <3>1, <4>1, <1>3, Zenon
    <3> QED BY <3>2, <3>3, Zenon
  <2>2. CASE j # k
    <3>1. worker'[j] = worker[j] /\ outbox'[j] = outbox[j] /\ runner'[j] = runner[j]
      BY <2>2, <1>3, Zenon
    <3> QED BY <3>1 DEF IInv, OneAnswerPerWorker
  <2> QED BY <2>1, <2>2, Zenon
<1>9. ASSUME NEW j \in active', worker'[j] = "none"
      PROVE  \E i \in DOMAIN worker_rx' : worker_rx'[i].key = j /\ worker_rx'[i].type # "Progress"
  <2>1. j \in active /\ j \in Key
    BY Zenon DEF IInv, TypeOK
  <2>2. CASE j = k
    <3>1. w = "none"
      BY <2>1, <2>2, <1>3, <1>9, Zenon
    <3>2. type # "Progress"
      BY <3>1, Zenon DEF Running, TerminalEvent
    <3>3. Len(worker_rx) + 1 \in DOMAIN worker_rx'
      BY <1>5
    <3> QED BY <2>2, <3>2, <3>3, <1>5, <1>6, Zenon
  <2>3. CASE j # k
    <3>1. worker[j] = "none"
      BY <2>1, <2>3, <1>3, <1>9, Zenon
    <3>2. PICK i \in DOMAIN worker_rx : worker_rx[i].key = j /\ worker_rx[i].type # "Progress"
      BY <2>1, <3>1, Zenon DEF IInv, OneAnswerPerWorker
    <3>3. i \in DOMAIN worker_rx' /\ worker_rx'[i] = worker_rx[i]
      BY <1>5
    <3> QED BY <3>2, <3>3, Zenon
  <2> QED BY <2>2, <2>3, Zenon
<1>10. ASSUME NEW i \in DOMAIN worker_rx'
       PROVE  /\ worker_rx'[i].key \in active' /\ worker_rx'[i].by = groups'[worker_rx'[i].key]
              /\ worker_rx'[i].type # "Progress" =>
                   /\ worker'[worker_rx'[i].key] = "none"
                   /\ \A j \in DOMAIN worker_rx' : worker_rx'[j].key = worker_rx'[i].key => j <= i
  <2>1. CASE i = Len(worker_rx) + 1
    <3>1. worker_rx'[i] = e
      BY <2>1, <1>5, Zenon
    <3>2. \A j \in DOMAIN worker_rx' : j <= i
      BY <2>1, <1>5
    <3>3. type # "Progress" => worker'[k] = "none"
      BY <1>3, Zenon
    <3> QED BY <3>1, <3>2, <3>3, <1>1, <1>6, Zenon
  <2>2. CASE i \in 1 .. Len(worker_rx)
    <3>1. worker_rx'[i] = worker_rx[i] /\ i \in DOMAIN worker_rx
      BY <2>2, <1>5, Zenon
    <3>2. worker_rx[i].type # "Progress" =>
            worker'[worker_rx[i].key] = worker[worker_rx[i].key]
      BY <2>2, <1>3, <1>7, Zenon
    <3>3. ASSUME worker_rx[i].type # "Progress", NEW j \in DOMAIN worker_rx',
                 worker_rx'[j].key = worker_rx[i].key
          PROVE  j <= i
      <4>1. j # Len(worker_rx) + 1
        BY <3>3, <2>2, <1>5, <1>6, <1>7, Zenon
      <4>2. j \in DOMAIN worker_rx /\ worker_rx'[j] = worker_rx[j]
        BY <4>1, <1>5
      <4> QED BY <3>1, <3>3, <4>2 DEF IInv, OneAnswerPerWorker
    <3> QED BY <3>1, <3>2, <3>3 DEF IInv, OneAnswerPerWorker
  <2> QED BY <2>1, <2>2, <1>5
<1> QED
  BY <1>4, <1>5, <1>8, <1>9, <1>10, Zenon DEF OneAnswerPerWorker

\* Every method of the gate leads from a gate state to a gate state.
LEMMA GateClosed ==
  ASSUME NEW s \in GateState
  PROVE  /\ BeginCompletion(s) \in GateState /\ AcknowledgeCompletion(s) \in GateState
         /\ BeginPause(s) \in GateState /\ BeginCancel(s) \in GateState
         /\ ResetPause(s) \in GateState /\ FinishIncompleteCompletion(s) \in GateState
  BY Zenon DEF GateState, BeginCompletion, AcknowledgeCompletion, BeginPause, BeginCancel,
         ResetPause, FinishIncompleteCompletion, OPEN, COMPLETING, CANCELING, PAUSING,
         COMPLETING_CANCEL_PENDING, COMPLETING_PAUSE_PENDING

\* A worker step preserves the invariant.
LEMMA WorkerStep ==
  ASSUME IInv, NEW k \in Key, Worker(k)
  PROVE  IInv'
<1>1. /\ UNCHANGED <<schedVars, submitted, cancel_ok, status, cancelled>>
      /\ Bookkeeping' /\ QueueMirror' /\ SlotAccounting' /\ WorkConserving'
      /\ NoStaleProgress'
  BY WorkerLeavesScheduler, Zenon
<1>2. UNCHANGED <<groups, active>>
  BY <1>1, Zenon DEF schedVars
<1>3. /\ worker \in [Key -> Running \cup {"none", "exit"}]
      /\ outbox \in [Key -> TerminalEvent \cup {"none"}]
      /\ runner \in [Key -> TaskOrNone]
      /\ worker_rx \in Seq(Event)
      /\ terminal \in [Task -> GateState]
      /\ acked \in SUBSET Task /\ aborted \in SUBSET Task
  BY Zenon DEF IInv, TypeOK
<1>4. worker[k] \in Running => worker[k] # "none" /\ worker[k] # "exit"
  BY Zenon DEF Running
<1>5. worker[k] # "none" => runner[k] \in Task
  BY RunnerIsLive, Zenon
<1>6. worker[k] # "exit" => outbox[k] = "none"
  BY Zenon DEF IInv, OneAnswerPerWorker
<1> DEFINE Goal == /\ OneAnswerPerWorker'
                   /\ worker_rx' \in Seq(Event)
                   /\ worker' \in [Key -> Running \cup {"none", "exit"}]
                   /\ outbox' \in [Key -> TerminalEvent \cup {"none"}]
                   /\ runner' \in [Key -> TaskOrNone]
                   /\ terminal' \in [Task -> GateState]
                   /\ acked' \in SUBSET Task /\ aborted' \in SUBSET Task
<1>7. ASSUME worker[k] \in Running, NEW ev \in TerminalEvent, Finish(k, ev),
             UNCHANGED <<runner, worker_rx>>
      PROVE  /\ OneAnswerPerWorker' /\ worker_rx' \in Seq(Event)
             /\ worker' \in [Key -> Running \cup {"none", "exit"}]
             /\ outbox' \in [Key -> TerminalEvent \cup {"none"}]
             /\ runner' \in [Key -> TaskOrNone]
  <2>1. ev # "none"
    BY Zenon DEF TerminalEvent
  <2> QED
    BY <1>2, <1>3, <1>7, <2>1, WorkerMoves, Zenon DEF Finish
<1>8. ASSUME Prepared(k) PROVE  Goal
  <2>1. PICK total \in BOOLEAN : Send(k, "Progress", total)
    BY <1>8, Zenon DEF Prepared
  <2>2. /\ worker[k] \in Running /\ "transfer" \in Running
        /\ worker' = [worker EXCEPT ![k] = "transfer"]
        /\ outbox' = outbox /\ runner' = runner
        /\ UNCHANGED <<terminal, acked, aborted>>
    BY <1>8, Zenon DEF Prepared, Running, obsVars
  <2>3. worker_rx' = Append(worker_rx, [type |-> "Progress", key |-> k, by |-> runner[k],
                                        total |-> total])
    BY <2>1, Zenon DEF Send
  <2>4. /\ OneAnswerPerWorker' /\ worker_rx' \in Seq(Event)
        /\ worker' \in [Key -> Running \cup {"none", "exit"}]
        /\ outbox' \in [Key -> TerminalEvent \cup {"none"}]
        /\ runner' \in [Key -> TaskOrNone]
    BY <1>2, <1>4, <2>2, <2>3, WorkerSends, Zenon
  <2> QED
    BY <2>2, <2>4, <1>3, Zenon
<1>9. ASSUME ChunkDone(k) PROVE  Goal
  <2>1. PICK total \in BOOLEAN : Send(k, "Progress", total)
    BY <1>9, Zenon DEF ChunkDone
  <2>2. /\ worker[k] \in Running
        /\ worker' = worker /\ outbox' = outbox /\ runner' = runner
        /\ UNCHANGED <<terminal, acked, aborted>>
    BY <1>9, Zenon DEF ChunkDone, Running, obsVars
  <2>3. worker' = [worker EXCEPT ![k] = worker[k]]
    BY <2>2, <1>3, Zenon
  <2>4. worker_rx' = Append(worker_rx, [type |-> "Progress", key |-> k, by |-> runner[k],
                                        total |-> total])
    BY <2>1, Zenon DEF Send
  <2>5. /\ OneAnswerPerWorker' /\ worker_rx' \in Seq(Event)
        /\ worker' \in [Key -> Running \cup {"none", "exit"}]
        /\ outbox' \in [Key -> TerminalEvent \cup {"none"}]
        /\ runner' \in [Key -> TaskOrNone]
    BY <1>2, <1>4, <2>2, <2>3, <2>4, WorkerSends, Zenon
  <2> QED
    BY <2>2, <2>5, <1>3, Zenon
<1>10. ASSUME ClaimCompletion(k) PROVE  Goal
  <2>1. /\ worker[k] \in Running /\ "finishing" \in Running
        /\ worker' = [worker EXCEPT ![k] = "finishing"]
        /\ UNCHANGED <<outbox, runner, worker_rx, acked, aborted>>
        /\ terminal' = [terminal EXCEPT ![runner[k]] = BeginCompletion(@)]
    BY <1>10, Zenon DEF ClaimCompletion, Running, obsVars
  <2>2. outbox' = [outbox EXCEPT ![k] = "none"]
    BY <2>1, <1>3, <1>4, <1>6, Zenon
  <2>3. terminal' \in [Task -> GateState]
    BY <2>1, <1>3, <1>4, <1>5, GateClosed, Zenon
  <2>4. /\ OneAnswerPerWorker'
        /\ worker' \in [Key -> Running \cup {"none", "exit"}]
        /\ outbox' \in [Key -> TerminalEvent \cup {"none"}]
    BY <1>2, <2>1, <2>2, WorkerMoves, Zenon
  <2> QED
    BY <2>1, <2>3, <2>4, <1>3, Zenon
<1>11. ASSUME ObserveStop(k) PROVE  Goal
  <2>1. worker[k] \in Running /\ UNCHANGED <<runner, worker_rx, terminal, acked, aborted>>
    BY <1>11, Zenon DEF ObserveStop, Running, obsVars
  <2>2. PICK ev \in TerminalEvent : Finish(k, ev)
    BY <1>11, Zenon DEF ObserveStop, FinishStopped, TerminalEvent
  <2> QED
    BY <2>1, <2>2, <1>3, <1>7, Zenon
<1>12. ASSUME ReportedDone(k) PROVE  Goal
  <2>1. worker[k] \in Running /\ UNCHANGED <<runner, worker_rx, aborted>>
        /\ acked' = acked \cup {runner[k]}
        /\ (terminal' = [terminal EXCEPT ![runner[k]] = AcknowledgeCompletion(@)]
              \/ terminal' = terminal)
    BY <1>12, Zenon DEF ReportedDone, Running
  <2>2. PICK ev \in TerminalEvent : Finish(k, ev)
    BY <1>12, Zenon DEF ReportedDone, TerminalEvent
  <2>3. terminal' \in [Task -> GateState] /\ acked' \in SUBSET Task
    <3>1. runner[k] \in Task
      BY <2>1, <1>4, <1>5, Zenon
    <3>2. AcknowledgeCompletion(terminal[runner[k]]) \in GateState
      BY <3>1, <1>3, GateClosed, Zenon
    <3>3. acked' \in SUBSET Task
      BY <2>1, <3>1, <1>3, Zenon
    <3>4. CASE terminal' = terminal
      BY <3>3, <3>4, <1>3, Zenon
    <3>5. CASE terminal' = [terminal EXCEPT ![runner[k]] = AcknowledgeCompletion(@)]
      BY <3>1, <3>2, <3>3, <3>5, <1>3, Zenon
    <3> QED
      BY <2>1, <3>4, <3>5, Zenon
  <2> QED
    BY <2>1, <2>2, <2>3, <1>3, <1>7, Zenon
<1>13. ASSUME GiveClaimBack(k) PROVE  Goal
  <2>1. /\ worker[k] \in Running /\ "transfer" \in Running
        /\ UNCHANGED <<runner, worker_rx, acked, aborted>>
        /\ terminal' = [terminal EXCEPT ![runner[k]] = FinishIncompleteCompletion(@)]
    BY <1>13, Zenon DEF GiveClaimBack, Running, obsVars
  <2>2. terminal' \in [Task -> GateState]
    BY <2>1, <1>3, <1>4, <1>5, GateClosed, Zenon
  <2>3. CASE FinishStopped(k)
    <3>1. PICK ev \in TerminalEvent : Finish(k, ev)
      BY <2>3, Zenon DEF FinishStopped, TerminalEvent
    <3> QED
      BY <2>1, <2>2, <3>1, <1>3, <1>7, Zenon
  <2>4. CASE worker' = [worker EXCEPT ![k] = "transfer"] /\ UNCHANGED outbox
    <3>1. outbox' = [outbox EXCEPT ![k] = "none"]
      BY <2>1, <2>4, <1>3, <1>4, <1>6, Zenon
    <3>2. /\ OneAnswerPerWorker'
          /\ worker' \in [Key -> Running \cup {"none", "exit"}]
          /\ outbox' \in [Key -> TerminalEvent \cup {"none"}]
      BY <1>2, <2>1, <2>4, <3>1, WorkerMoves, Zenon
    <3> QED
      BY <2>1, <2>2, <3>2, <1>3, Zenon
  <2> QED
    BY <2>3, <2>4, <1>13, Zenon DEF GiveClaimBack
<1>14. ASSUME Fail(k) PROVE  Goal
  <2>1. worker[k] \in Running /\ UNCHANGED <<runner, worker_rx, terminal, acked>>
        /\ Finish(k, "Failed")
        /\ (aborted' = Abort(runner[k]) \/ aborted' = aborted)
    BY <1>14, Zenon DEF Fail
  <2>2. aborted' \in SUBSET Task
    BY <2>1, <1>3, <1>4, <1>5 DEF Abort
  <2>3. "Failed" \in TerminalEvent
    BY Zenon DEF TerminalEvent
  <2> QED
    BY <2>1, <2>2, <2>3, <1>3, <1>7, Zenon
<1>15. ASSUME SendTerminal(k) PROVE  Goal
  <2>1. /\ worker[k] = "exit"
        /\ worker' = [worker EXCEPT ![k] = "none"]
        /\ runner' = [runner EXCEPT ![k] = NoTask]
        /\ outbox' = [outbox EXCEPT ![k] = "none"]
        /\ UNCHANGED <<terminal, acked, aborted>>
        /\ worker_rx' = Append(worker_rx, [type |-> outbox[k], key |-> k, by |-> runner[k],
                                           total |-> FALSE])
    BY <1>15, Zenon DEF SendTerminal, Send, obsVars
  <2>2. outbox[k] \in TerminalEvent
    BY <2>1, <1>3 DEF IInv, OneAnswerPerWorker
  <2>3. /\ OneAnswerPerWorker' /\ worker_rx' \in Seq(Event)
        /\ worker' \in [Key -> Running \cup {"none", "exit"}]
        /\ outbox' \in [Key -> TerminalEvent \cup {"none"}]
        /\ runner' \in [Key -> TaskOrNone]
    BY <1>2, <2>1, <2>2, WorkerSends, Zenon
  <2> QED
    BY <2>1, <2>3, <1>3, Zenon
<1>16. Goal
  BY <1>8, <1>9, <1>10, <1>11, <1>12, <1>13, <1>14, <1>15, Zenon DEF Worker
<1>17. TypeOK'
  BY <1>1, <1>16, Zenon DEF IInv, TypeOK, schedVars
<1> QED
  BY <1>1, <1>16, <1>17, Zenon DEF IInv

-----------------------------------------------------------------------------
(* Commands                                                                *)

\* The queue as the invariant describes it, and with one key more.
LEMMA QueueFacts ==
  ASSUME IInv, NEW k \in Key
  PROVE  /\ queued \in Seq(Key) /\ NoRepeat(queued) /\ Elements(queued) = queued_set
         /\ k \notin queued_set => /\ Append(queued, k) \in Seq(Key)
                                   /\ NoRepeat(Append(queued, k))
                                   /\ Elements(Append(queued, k)) = queued_set \cup {k}
<1>1. queued \in Seq(Key) /\ NoRepeat(queued) /\ Elements(queued) = queued_set
      /\ queued_set \subseteq Key
  BY Zenon DEF IInv, TypeOK, QueueMirror, NoRepeat, Elements
<1>2. ASSUME k \notin queued_set
      PROVE  /\ Append(queued, k) \in Seq(Key)
             /\ NoRepeat(Append(queued, k))
             /\ Elements(Append(queued, k)) = queued_set \cup {k}
  <2> DEFINE s == Append(queued, k)
  <2>1. /\ s \in Seq(Key)
        /\ Len(queued) \in Nat /\ DOMAIN queued = 1 .. Len(queued)
        /\ DOMAIN s = 1 .. Len(queued) + 1
        /\ \A i \in 1 .. Len(queued) : s[i] = queued[i]
        /\ s[Len(queued) + 1] = k
    BY <1>1, AppendFacts
  <2> HIDE DEF s
  <2>2. DOMAIN s = DOMAIN queued \cup {Len(queued) + 1}
    BY <2>1
  <2>3. \A i \in DOMAIN queued : s[i] = queued[i] /\ s[i] # k
    BY <2>1, <1>1, <1>2, Zenon DEF Elements
  <2>4. NoRepeat(s)
    BY <2>1, <2>2, <2>3, <1>1, Zenon DEF NoRepeat
  <2>5. Elements(s) = queued_set \cup {k}
    <3>1. \A x : x \in Elements(s) <=> \E i \in DOMAIN s : x = s[i]
      BY Zenon DEF Elements
    <3>2. \A x : x \in queued_set <=> \E i \in DOMAIN queued : x = queued[i]
      BY <1>1, Zenon DEF Elements
    <3>3. ASSUME NEW x \in Elements(s) PROVE x \in queued_set \cup {k}
      <4>1. PICK i \in DOMAIN s : x = s[i]
        BY <3>1, Zenon
      <4>2. CASE i \in DOMAIN queued
        BY <4>1, <4>2, <3>2, <2>3, Zenon
      <4>3. CASE i = Len(queued) + 1
        BY <4>1, <4>3, <2>1, Zenon
      <4> QED BY <4>2, <4>3, <2>2, Zenon
    <3>4. ASSUME NEW x \in queued_set PROVE x \in Elements(s)
      BY <3>1, <3>2, <2>2, <2>3
    <3>5. k \in Elements(s)
      BY <3>1, <2>1, <2>2, Zenon
    <3> QED
      BY <3>3, <3>4, <3>5, Zenon
  <2> QED
    BY <2>1, <2>4, <2>5, Zenon DEF s
<1> QED
  BY <1>1, <1>2, Zenon

\* What a command handler that leaves the running keys alone may rely on.
LEMMA CommandFacts ==
  ASSUME IInv, UNCHANGED <<outbox, worker_rx>>,
         \A k \in active : groups'[k] = groups[k]
  PROVE  /\ active \in SUBSET Key /\ active_count \in [Direction -> Nat]
         /\ \A d \in Direction : /\ active_count[d] = Cardinality(InDir(active, d))
                                 /\ active_count[d] <= MaxConcurrency[d]
         /\ WorkersDone(active)
<1>1. /\ active \in SUBSET Key /\ active_count \in [Direction -> Nat]
      /\ \A d \in Direction : /\ active_count[d] = Cardinality(InDir(active, d))
                              /\ active_count[d] <= MaxConcurrency[d]
  BY Zenon DEF IInv, TypeOK, SlotAccounting, InDir
<1>2. WorkersDone(active)
  <2>1. /\ worker \in [Key -> Running \cup {"none", "exit"}]
        /\ runner \in [Key -> TaskOrNone]
    BY Zenon DEF IInv, TypeOK
  <2>2. ASSUME NEW i \in DOMAIN worker_rx'
        PROVE  /\ worker_rx'[i].key \in active /\ worker_rx'[i].by = groups'[worker_rx'[i].key]
               /\ worker_rx'[i].type # "Progress" =>
                    /\ worker[worker_rx'[i].key] = "none"
                    /\ \A j \in DOMAIN worker_rx' : worker_rx'[j].key = worker_rx'[i].key => j <= i
    BY Zenon DEF IInv, OneAnswerPerWorker
  <2> QED
    BY <2>1, <2>2 DEF IInv, OneAnswerPerWorker, WorkersDone
<1> QED
  BY <1>1, <1>2, Zenon

\* Each command handler preserves the invariant, or leads up to try_start_next.
LEMMA CommandStep ==
  ASSUME IInv, NEW t \in Task, Command(t), Filtering(KeyOf[t])
  PROVE  Reschedules \/ IInv'
<1> DEFINE k == KeyOf[t]
<1>1. TypeOK /\ Bookkeeping /\ NoStaleProgress
  BY Zenon DEF IInv
<1>2. k \in Key
  BY Zenon
<1>3. groups[k] # NoTask => groups[k] \in Task
  BY <1>1, <1>2, Zenon DEF TypeOK, TaskOrNone
<1>4. t \in mapped => groups[k] = t /\ k \notin canceling_set
  BY <1>1, Zenon DEF Bookkeeping
<1>5. CASE EnqueueDuplicate(t)
  <2>1. UNCHANGED <<schedVars, workVars, cancel_ok, acked, aborted>>
    BY <1>5, Zenon DEF EnqueueDuplicate
  <2>2. submitted' = submitted \cup {t} /\ status' = [status EXCEPT ![t] = "Duplicate"]
    BY <1>5, Zenon DEF EnqueueDuplicate
  <2>3. TypeOK'
    BY <2>1, <2>2, <1>1, Zenon DEF TypeOK, schedVars, workVars, Status, Ended
  <2>4. Bookkeeping'
    BY <2>1, <2>2, <1>1, Zenon DEF Bookkeeping, Live, schedVars
  <2>5. QueueMirror' /\ SlotAccounting' /\ WorkConserving' /\ NoStaleProgress'
    <3>1. UNCHANGED <<queued, queued_set, active, active_count, phase, groups, offsets,
                      known_totals>>
      BY <2>1, Zenon DEF schedVars
    <3>2. QueueMirror' /\ WorkConserving' /\ NoStaleProgress'
      BY <3>1 DEF IInv, QueueMirror, WorkConserving, NoStaleProgress
    <3>3. SlotAccounting'
      BY <3>1, Zenon DEF IInv, SlotAccounting
    <3> QED
      BY <3>2, <3>3, Zenon
  <2>6. OneAnswerPerWorker'
    BY <2>1, Zenon DEF IInv, OneAnswerPerWorker, schedVars, workVars
  <2> QED
    BY <2>3, <2>4, <2>5, <2>6, Zenon DEF IInv
<1>6. ASSUME Enqueue(t) \/ EnqueuePaused(t)
      PROVE  /\ k \notin queued_set /\ k \notin paused_set /\ k \notin active
             /\ submitted' = submitted \cup {t}
             /\ UNCHANGED <<canceling_set, offsets, known_totals, phase, terminal,
                            outbox, worker_rx, cancel_ok, acked, aborted>>
             /\ groups' \in [Key -> TaskOrNone] /\ mapped' \subseteq Task
             /\ \A j \in Key : groups'[j] = IF j = k THEN t ELSE groups[j]
             /\ \A j \in active : groups'[j] = groups[j]
             /\ \A j \in Key : groups'[j] # NoTask =>
                                 KeyOf[groups'[j]] = j /\ groups'[j] \in submitted'
             /\ \A u \in Task :
                  u \in mapped' <=> groups'[KeyOf[u]] = u /\ KeyOf[u] \notin canceling_set'
             /\ NoStaleProgress'
  <2>1. groups[k] = NoTask
    BY <1>6, Zenon DEF Enqueue, EnqueuePaused
  <2>2. k \notin queued_set /\ k \notin paused_set /\ k \notin active /\ k \notin canceling_set
    BY <2>1, <1>1, <1>2, Zenon DEF Bookkeeping, Live
  <2>3. /\ groups' = [groups EXCEPT ![k] = t]
        /\ mapped' = mapped \cup {t} /\ submitted' = submitted \cup {t}
        /\ UNCHANGED <<canceling_set, offsets, known_totals, phase, terminal,
                       outbox, worker_rx, cancel_ok, acked, aborted>>
    BY <1>6, Zenon DEF Enqueue, EnqueuePaused, workVars
  <2>4. /\ \A j \in Key : groups'[j] = IF j = k THEN t ELSE groups[j]
        /\ groups' \in [Key -> TaskOrNone]
    BY <2>3, <1>1, Zenon DEF TypeOK, TaskOrNone
  <2>5. \A j \in active : groups'[j] = groups[j]
    BY <2>2, <2>4, <1>1, Zenon DEF TypeOK
  <2>6. NoStaleProgress'
    BY <2>1, <2>3, <2>4, <1>1, Zenon DEF NoStaleProgress
  <2>7. \A j \in Key : groups'[j] # NoTask => KeyOf[groups'[j]] = j /\ groups'[j] \in submitted'
    BY <2>3, <2>4, <1>1 DEF Bookkeeping, Live
  <2>8. ASSUME NEW u \in Task
        PROVE  u \in mapped' <=> groups'[KeyOf[u]] = u /\ KeyOf[u] \notin canceling_set'
    <3>1. u \in mapped <=> groups[KeyOf[u]] = u /\ KeyOf[u] \notin canceling_set
      BY <1>1, Zenon DEF Bookkeeping
    <3>2. KeyOf[u] \in Key
      BY Zenon
    <3>3. u \in mapped' <=> u \in mapped \/ u = t
      BY <2>3, Zenon
    <3>4. canceling_set' = canceling_set
      BY <2>3, Zenon
    <3>5. groups'[KeyOf[u]] = IF KeyOf[u] = k THEN t ELSE groups[KeyOf[u]]
      BY <2>4, <3>2, Zenon
    <3>6. u # NoTask
      BY Zenon
    <3> QED
      BY <3>1, <3>3, <3>4, <3>5, <3>6, <2>1, <2>2, Zenon
  <2>9. mapped' \subseteq Task
    BY <2>3, <1>1, Zenon DEF TypeOK
  <2> QED
    BY <2>2, <2>3, <2>4, <2>5, <2>6, <2>7, <2>8, <2>9, Zenon
<1>7. CASE Enqueue(t)
  <2> DEFINE q == Append(queued, k)
             qs == queued_set \cup {k}
             st == [status EXCEPT ![t] = "Pending"]
  <2>1. TryStartNext(q, qs, active, active_count, cancelled, st) /\ UNCHANGED paused_set
    BY <1>6, <1>7, Zenon DEF Enqueue
  <2>2. q \in Seq(Key) /\ NoRepeat(q) /\ Elements(q) = qs
    BY <1>2, <1>6, <1>7, QueueFacts, Zenon
  <2>3. /\ active \in SUBSET Key /\ active_count \in [Direction -> Nat]
        /\ \A d \in Direction : /\ active_count[d] = Cardinality(InDir(active, d))
                                /\ active_count[d] <= MaxConcurrency[d]
        /\ WorkersDone(active)
    BY <1>6, <1>7, CommandFacts, Zenon
  <2>4. \A j \in qs : j \notin paused_set' /\ j \notin active /\ groups'[j] # NoTask
    BY <2>1, <1>1, <1>6, <1>7 DEF Bookkeeping, Live, TypeOK
  <2>5. st \in [Task -> Status] /\ cancelled \in SUBSET Key
    BY <1>1, Zenon DEF TypeOK, Status
  <2>6. RestOK'
    <3>1. submitted' \subseteq Task
      BY <1>1, <1>6, <1>7 DEF TypeOK
    <3> QED
      BY <2>1, <3>1, <1>1, <1>6, <1>7 DEF TypeOK, RestOK
  <2>7. GroupsDone(qs, active)
    <3>1. {j \in Key : groups'[j] # NoTask} = qs \cup paused_set' \cup active
      BY <2>1, <1>1, <1>2, <1>6, <1>7 DEF Bookkeeping, Live, TypeOK
    <3>2. canceling_set' \subseteq active \ paused_set'
      BY <2>1, <1>1, <1>6, <1>7, Zenon DEF Bookkeeping
    <3> QED
      BY <3>1, <3>2, <1>6, <1>7, Zenon DEF GroupsDone
  <2> HIDE DEF q, qs, st
  <2>8. Startable(q, qs, active, active_count)
    BY <2>2, <2>3, <2>4, Zenon DEF Startable
  <2> QED
    BY <2>1, <2>3, <2>5, <2>6, <2>7, <2>8, <1>6, <1>7, Zenon DEF Reschedules
<1>8. CASE EnqueuePaused(t)
  <2>1. /\ paused_set' = paused_set \cup {k} /\ status' = [status EXCEPT ![t] = "Paused"]
        /\ UNCHANGED <<queued, queued_set, active, active_count, workVars>>
    BY <1>8, Zenon DEF EnqueuePaused
  <2>2. TypeOK'
    <3>1. submitted' \subseteq Task /\ paused_set' \subseteq Key /\ status' \in [Task -> Status]
      BY <2>1, <1>1, <1>2, <1>6, <1>8 DEF TypeOK, Status
    <3> QED
      BY <2>1, <3>1, <1>1, <1>6, <1>8, ZenonT(60) DEF TypeOK, workVars
  <2>3. Bookkeeping'
    <3>1. Live' = queued_set' \cup paused_set' \cup active'
      BY <2>1, <1>1, <1>2, <1>6, <1>8 DEF Bookkeeping, Live, TypeOK
    <3>2. /\ queued_set' \cap (paused_set' \cup active') = {}
          /\ canceling_set' \subseteq active' \ paused_set'
      BY <2>1, <1>1, <1>6, <1>8 DEF Bookkeeping
    <3>3. \A j \in Live' : KeyOf[groups'[j]] = j /\ groups'[j] \in submitted'
      BY <1>6, <1>8, Zenon DEF Live
    <3> QED
      BY <3>1, <3>2, <3>3, <1>6, <1>8, Zenon DEF Bookkeeping
  <2>4. QueueMirror' /\ SlotAccounting' /\ WorkConserving'
    <3>1. UNCHANGED <<queued, queued_set, active, active_count, phase>>
      BY <2>1, <1>6, <1>8, Zenon
    <3>2. QueueMirror /\ SlotAccounting /\ WorkConserving
      BY Zenon DEF IInv
    <3>3. QueueMirror' /\ WorkConserving'
      BY <3>1, <3>2 DEF QueueMirror, WorkConserving
    <3>4. SlotAccounting'
      BY <3>1, <3>2, Zenon DEF SlotAccounting
    <3> QED
      BY <3>3, <3>4, Zenon
  <2>5. OneAnswerPerWorker'
    <3>1. WorkersDone(active)
      BY <1>6, <1>8, CommandFacts, Zenon
    <3> QED
      BY <2>1, <3>1, ZenonT(60) DEF WorkersDone, OneAnswerPerWorker, workVars
  <2> QED
    BY <2>2, <2>3, <2>4, <2>5, <1>6, <1>8, Zenon DEF IInv
<1>9. ASSUME NEW c \in SUBSET Key, NEW st \in [Task -> Status],
             t \in mapped,
             paused_set' \in {paused_set \cup {k}, paused_set \ {k}},
             k \in active \/ k \in paused_set' \/ groups'[k] = NoTask,
             \/ groups' = groups
             \/ k \notin active /\ paused_set' = paused_set \ {k}
                  /\ groups' = [groups EXCEPT ![k] = NoTask],
             UNCHANGED <<outbox, worker_rx, submitted>>,
             canceling_set' \subseteq active \ paused_set',
             \A u \in Task : u \in mapped' <=>
                  groups'[KeyOf[u]] = u /\ KeyOf[u] \notin canceling_set',
             TryStartNext(Unqueued(k), queued_set \ {k}, active, active_count, c, st),
             RestOK', NoStaleProgress'
      PROVE  Reschedules
  <2> DEFINE q == Unqueued(k)
             qs == queued_set \ {k}
  <2>1. q \in Seq(Key) /\ NoRepeat(q) /\ Elements(q) = qs
    BY Zenon DEF Filtering
  <2>2. \A j \in Key : j # k => groups'[j] = groups[j]
    BY <1>1, <1>9, Zenon DEF TypeOK
  <2>3. \A j \in active : groups'[j] = groups[j]
    BY <1>9, <2>2, <1>1, Zenon DEF TypeOK
  <2>4. /\ active \in SUBSET Key /\ active_count \in [Direction -> Nat]
        /\ \A d \in Direction : /\ active_count[d] = Cardinality(InDir(active, d))
                                /\ active_count[d] <= MaxConcurrency[d]
        /\ WorkersDone(active)
    BY <2>3, <1>9, CommandFacts, Zenon
  <2>5. \A j \in qs : j \notin paused_set' /\ j \notin active /\ groups'[j] # NoTask
    BY <2>2, <1>1, <1>9 DEF Bookkeeping, Live, TypeOK
  <2>6. groups[k] # NoTask
    BY <1>4, <1>9, Zenon
  <2>7. groups'[k] = groups[k] \/ (groups'[k] = NoTask /\ k \notin active /\ k \notin paused_set')
    BY <1>1, <1>2, <1>9, Zenon DEF TypeOK
  <2>8. {j \in Key : groups'[j] # NoTask} = qs \cup paused_set' \cup active
    <3>1. ASSUME NEW j \in Key
          PROVE  groups'[j] # NoTask <=> j \in qs \cup paused_set' \cup active
      <4>1. groups[j] # NoTask <=> j \in queued_set \cup paused_set \cup active
        BY <1>1, Zenon DEF Bookkeeping, Live
      <4>2. CASE j = k
        BY <4>2, <2>6, <2>7, <1>9, Zenon
      <4>3. CASE j # k
        BY <4>1, <4>3, <2>2, <1>9, Zenon
      <4> QED BY <4>2, <4>3, Zenon
    <3>2. qs \cup paused_set' \cup active \subseteq Key
      BY <1>1, <1>9, Zenon DEF TypeOK, RestOK
    <3> QED
      BY <3>1, <3>2, Zenon
  <2>9. \A j \in Key : groups'[j] # NoTask => KeyOf[groups'[j]] = j /\ groups'[j] \in submitted'
    <3>1. \A j \in Key : groups[j] # NoTask => KeyOf[groups[j]] = j /\ groups[j] \in submitted
      BY <1>1, Zenon DEF Bookkeeping, Live
    <3> QED
      BY <3>1, <2>2, <2>7, <1>9, Zenon
  <2>10. GroupsDone(qs, active)
    <3>1. groups' \in [Key -> TaskOrNone]
      BY <1>9, Zenon DEF RestOK
    <3> QED
      BY <3>1, <2>8, <2>9, <1>9, Zenon DEF GroupsDone
  <2> HIDE DEF q, qs
  <2>11. Startable(q, qs, active, active_count)
    BY <2>1, <2>4, <2>5, Zenon DEF Startable
  <2>12. TryStartNext(q, qs, active, active_count, c, st)
    BY <1>9, Zenon DEF q, qs
  <2> QED
    BY <2>4, <2>10, <2>11, <2>12, <1>9, Zenon DEF Reschedules
<1>10. CASE Pause(t)
  <2> DEFINE c == IF WasActive(k) /\ InterruptNow(terminal[groups[k]])
                  THEN cancelled \cup {k} ELSE cancelled
             st == IF WasActive(k) THEN status ELSE [status EXCEPT ![groups[k]] = "Paused"]
  <2>1. /\ t \in mapped /\ paused_set' = paused_set \cup {k}
        /\ UNCHANGED <<groups, mapped, canceling_set, offsets, known_totals, phase,
                       outbox, worker_rx, submitted, cancel_ok, acked, aborted>>
        /\ TryStartNext(Unqueued(k), queued_set \ {k}, active, active_count, c, st)
    BY <1>10, Zenon DEF Pause
  <2>2. groups[k] = t /\ k \notin canceling_set
    BY <2>1, <1>4, Zenon
  <2>3. c \in SUBSET Key /\ st \in [Task -> Status]
    BY <2>2, <1>1, <1>2, Zenon DEF TypeOK, Status
  <2>4. terminal' \in [Task -> GateState]
    <3>1. terminal \in [Task -> GateState] /\ BeginPause(terminal[t]) \in GateState
      BY <1>1, GateClosed, Zenon DEF TypeOK
    <3> QED
      BY <3>1, <2>2, <1>10, Zenon DEF Pause
  <2>5. RestOK'
    <3>1. paused_set' \subseteq Key
      BY <2>1, <1>1, <1>2, Zenon DEF TypeOK
    <3> QED
      BY <2>1, <2>4, <3>1, <1>1, Zenon DEF TypeOK, RestOK
  <2>6. NoStaleProgress'
    BY <2>1, <1>1, Zenon DEF NoStaleProgress
  <2>7. canceling_set' \subseteq active \ paused_set'
    BY <2>1, <2>2, <1>1, Zenon DEF Bookkeeping
  <2>8. \A u \in Task : u \in mapped' <=>
          groups'[KeyOf[u]] = u /\ KeyOf[u] \notin canceling_set'
    BY <2>1, <1>1, Zenon DEF Bookkeeping
  <2> HIDE DEF c, st
  <2> QED
    BY <2>1, <2>3, <2>5, <2>6, <2>7, <2>8, <1>9, Zenon
<1>11. CASE CancelActive(t)
  <2> DEFINE c == IF InterruptNow(terminal[groups[k]]) THEN cancelled \cup {k} ELSE cancelled
  <2>1. /\ t \in mapped /\ paused_set' = paused_set \ {k} /\ k \in active
        /\ canceling_set' = canceling_set \cup {k}
        /\ mapped' = mapped \ {groups[k]}
        /\ cancel_ok' = cancel_ok \cup {t}
        /\ terminal' = [terminal EXCEPT ![groups[k]] = BeginCancel(@)]
        /\ UNCHANGED <<groups, offsets, known_totals, phase, outbox, worker_rx,
                       submitted, acked, aborted>>
        /\ TryStartNext(Unqueued(k), queued_set \ {k}, active, active_count, c, status)
    BY <1>11, Zenon DEF CancelActive, WasActive
  <2>2. groups[k] = t /\ k \notin canceling_set
    BY <2>1, <1>4, Zenon
  <2>3. c \in SUBSET Key /\ status \in [Task -> Status]
    BY <1>1, <1>2, Zenon DEF TypeOK
  <2>4. terminal' \in [Task -> GateState]
    <3>1. terminal \in [Task -> GateState] /\ BeginCancel(terminal[t]) \in GateState
      BY <1>1, GateClosed, Zenon DEF TypeOK
    <3> QED
      BY <3>1, <2>1, <2>2, Zenon
  <2>5. RestOK'
    <3>1. /\ paused_set' \subseteq Key /\ canceling_set' \subseteq Key
          /\ mapped' \subseteq Task /\ cancel_ok' \subseteq Task
      BY <2>1, <1>1, <1>2, Zenon DEF TypeOK
    <3> QED
      BY <2>1, <2>4, <3>1, <1>1, Zenon DEF TypeOK, RestOK
  <2>6. NoStaleProgress'
    BY <2>1, <1>1, Zenon DEF NoStaleProgress
  <2>7. canceling_set' \subseteq active \ paused_set'
    BY <2>1, <1>1, Zenon DEF Bookkeeping
  <2>8. ASSUME NEW u \in Task
        PROVE  u \in mapped' <=> groups'[KeyOf[u]] = u /\ KeyOf[u] \notin canceling_set'
    <3>1. u \in mapped <=> groups[KeyOf[u]] = u /\ KeyOf[u] \notin canceling_set
      BY <1>1, Zenon DEF Bookkeeping
    <3>2. groups' = groups /\ (u \in mapped' <=> u \in mapped /\ u # t)
      BY <2>1, <2>2, Zenon
    <3>3. KeyOf[u] \in canceling_set' <=> KeyOf[u] \in canceling_set \/ KeyOf[u] = k
      BY <2>1, Zenon
    <3> QED
      BY <3>1, <3>2, <3>3, <2>2, Zenon
  <2> HIDE DEF c
  <2> QED
    BY <2>1, <2>3, <2>5, <2>6, <2>7, <2>8, <1>9, Zenon
<1>12. CASE CancelIdle(t)
  <2> DEFINE st == [status EXCEPT ![groups[k]] = "Canceled"]
  <2>1. /\ t \in mapped /\ paused_set' = paused_set \ {k} /\ k \notin active
        /\ groups' = [groups EXCEPT ![k] = NoTask]
        /\ canceling_set' = canceling_set \ {k}
        /\ mapped' = mapped \ {groups[k]}
        /\ offsets' = [offsets EXCEPT ![k] = NoTask]
        /\ known_totals' = [known_totals EXCEPT ![k] = NoTask]
        /\ cancel_ok' = cancel_ok \cup {t}
        /\ aborted' = Abort(groups[k])
        /\ terminal' = [terminal EXCEPT ![groups[k]] = BeginCancel(@)]
        /\ UNCHANGED <<phase, outbox, worker_rx, submitted, acked>>
        /\ TryStartNext(Unqueued(k), queued_set \ {k}, active, active_count, cancelled, st)
    BY <1>12, Zenon DEF CancelIdle, WasActive, Forget
  <2>2. groups[k] = t /\ k \notin canceling_set
    BY <2>1, <1>4, Zenon
  <2>3. cancelled \in SUBSET Key /\ st \in [Task -> Status]
    BY <2>2, <1>1, Zenon DEF TypeOK, Status, Ended
  <2>4. terminal' \in [Task -> GateState]
    <3>1. terminal \in [Task -> GateState] /\ BeginCancel(terminal[t]) \in GateState
      BY <1>1, GateClosed, Zenon DEF TypeOK
    <3> QED
      BY <3>1, <2>1, <2>2, Zenon
  <2>5. RestOK'
    <3>1. /\ paused_set' \subseteq Key /\ canceling_set' \subseteq Key
          /\ mapped' \subseteq Task /\ cancel_ok' \subseteq Task
      BY <2>1, <1>1, <1>2, Zenon DEF TypeOK
    <3>2. /\ groups' \in [Key -> TaskOrNone] /\ offsets' \in [Key -> TaskOrNone]
          /\ known_totals' \in [Key -> TaskOrNone]
      BY <2>1, <1>1, Zenon DEF TypeOK, TaskOrNone
    <3>3. aborted' \subseteq Task
      BY <2>1, <2>2, <1>1, Zenon DEF TypeOK, Abort
    <3> QED
      BY <2>1, <2>4, <3>1, <3>2, <3>3, <1>1, Zenon DEF TypeOK, RestOK
  <2>6. NoStaleProgress'
    BY <2>1, <1>1, Zenon DEF NoStaleProgress, TypeOK
  <2>7. canceling_set' \subseteq active \ paused_set'
    BY <2>1, <1>1, Zenon DEF Bookkeeping
  <2>8. ASSUME NEW u \in Task
        PROVE  u \in mapped' <=> groups'[KeyOf[u]] = u /\ KeyOf[u] \notin canceling_set'
    <3>1. u \in mapped <=> groups[KeyOf[u]] = u /\ KeyOf[u] \notin canceling_set
      BY <1>1, Zenon DEF Bookkeeping
    <3>2. u \in mapped' <=> u \in mapped /\ u # t
      BY <2>1, <2>2, Zenon
    <3>3. groups'[KeyOf[u]] = IF KeyOf[u] = k THEN NoTask ELSE groups[KeyOf[u]]
      BY <2>1, <1>1, Zenon DEF TypeOK
    <3>4. canceling_set' = canceling_set /\ u # NoTask
      BY <2>1, <2>2, Zenon
    <3> QED
      BY <3>1, <3>2, <3>3, <3>4, <2>2, Zenon
  <2>9. groups'[k] = NoTask
    BY <2>1, <1>1, <1>2, Zenon DEF TypeOK
  <2> HIDE DEF st
  <2> QED
    BY <2>1, <2>3, <2>5, <2>6, <2>7, <2>8, <2>9, <1>9, Zenon
<1>13. ASSUME NEW qs, NEW q, NEW st \in [Task -> Status],
              q \in Seq(Key) /\ NoRepeat(q) /\ Elements(q) = qs,
              qs \cap (paused_set' \cup active) = {},
              qs \cup paused_set' = queued_set \cup paused_set,
              paused_set' \subseteq paused_set,
              UNCHANGED <<groups, mapped, canceling_set, offsets, known_totals, phase,
                          terminal, outbox, worker_rx, submitted, cancel_ok,
                          acked, aborted>>,
              TryStartNext(q, qs, active, active_count, cancelled, st)
       PROVE  Reschedules
  <2>1. /\ active \in SUBSET Key /\ active_count \in [Direction -> Nat]
        /\ \A d \in Direction : /\ active_count[d] = Cardinality(InDir(active, d))
                                /\ active_count[d] <= MaxConcurrency[d]
        /\ WorkersDone(active)
    BY <1>13, CommandFacts, Zenon
  <2>2. RestOK' /\ cancelled \in SUBSET Key
    BY <1>1, <1>13, Zenon DEF TypeOK, RestOK
  <2>3. NoStaleProgress'
    BY <1>1, <1>13, Zenon DEF NoStaleProgress
  <2>4. GroupsDone(qs, active)
    <3>1. groups' \in [Key -> TaskOrNone]
      BY <2>2, Zenon DEF RestOK
    <3>2. {j \in Key : groups'[j] # NoTask} = qs \cup paused_set' \cup active
      BY <1>1, <1>13, Zenon DEF Bookkeeping, Live
    <3>3. \A j \in Key : groups'[j] # NoTask => KeyOf[groups'[j]] = j /\ groups'[j] \in submitted'
      BY <1>1, <1>13, Zenon DEF Bookkeeping, Live
    <3>4. canceling_set' \subseteq active \ paused_set'
      BY <1>1, <1>13, Zenon DEF Bookkeeping
    <3>5. \A u \in Task : u \in mapped' <=>
            groups'[KeyOf[u]] = u /\ KeyOf[u] \notin canceling_set'
      BY <1>1, <1>13, Zenon DEF Bookkeeping
    <3> QED
      BY <3>1, <3>2, <3>3, <3>4, <3>5, Zenon DEF GroupsDone
  <2>5. Startable(q, qs, active, active_count)
    <3>1. \A j \in qs : j \notin paused_set' /\ j \notin active /\ groups'[j] # NoTask
      BY <1>13, <2>4, Zenon DEF GroupsDone
    <3> QED
      BY <3>1, <2>1, <1>13, Zenon DEF Startable
  <2> QED
    BY <2>1, <2>2, <2>3, <2>4, <2>5, <1>13, Zenon DEF Reschedules
<1>14. CASE Resume(t)
  <2> DEFINE q == Append(queued, k)
             qs == queued_set \cup {k}
             st == [status EXCEPT ![groups[k]] = "Pending"]
  <2>1. t \in mapped /\ k \in paused_set /\ k \notin active
    BY <1>14, Zenon DEF Resume, MayResume
  <2>2. k \notin queued_set
    BY <2>1, <1>1, Zenon DEF Bookkeeping
  <2>3. /\ paused_set' = paused_set \ {k}
        /\ UNCHANGED <<groups, mapped, canceling_set, offsets, known_totals, phase,
                       terminal, outbox, worker_rx, submitted, cancel_ok,
                       acked, aborted>>
        /\ TryStartNext(q, qs, active, active_count, cancelled, st)
    BY <1>14, <2>2, Zenon DEF Resume
  <2>4. q \in Seq(Key) /\ NoRepeat(q) /\ Elements(q) = qs
    BY <2>2, <1>2, QueueFacts, Zenon
  <2>5. st \in [Task -> Status]
    BY <2>1, <1>1, <1>4, Zenon DEF TypeOK, Status
  <2>6. /\ qs \cap (paused_set' \cup active) = {}
        /\ qs \cup paused_set' = queued_set \cup paused_set
        /\ paused_set' \subseteq paused_set
    BY <2>1, <2>3, <1>1 DEF Bookkeeping
  <2> HIDE DEF q, qs, st
  <2> QED
    BY <2>3, <2>4, <2>5, <2>6, <1>13, Zenon
<1>15. CASE RefuseControl(t)
  <2>1. /\ UNCHANGED <<groups, mapped, paused_set, canceling_set, offsets, known_totals,
                       phase, terminal, outbox, worker_rx, submitted, cancel_ok, acked, aborted>>
        /\ TryStartNext(queued, queued_set, active, active_count, cancelled, status)
    BY <1>15, Zenon DEF RefuseControl
  <2>2. queued \in Seq(Key) /\ NoRepeat(queued) /\ Elements(queued) = queued_set
    BY <1>2, QueueFacts, Zenon
  <2>3. status \in [Task -> Status]
    BY <1>1, Zenon DEF TypeOK
  <2>4. queued_set \cap (paused_set' \cup active) = {} /\ paused_set' = paused_set
    BY <2>1, <1>1, Zenon DEF Bookkeeping
  <2> QED
    BY <2>1, <2>2, <2>3, <2>4, <1>13, Zenon
<1> QED
  BY <1>5, <1>7, <1>8, <1>10, <1>11, <1>12, <1>14, <1>15, Zenon DEF Command

-----------------------------------------------------------------------------
(* Close                                                                    *)

\* Close, up to its drain, preserves the invariant.
LEMMA CloseStep ==
  ASSUME IInv, Close
  PROVE  IInv'
<1> DEFINE stopped == active \ canceling_set
<1>1. /\ phase' = "closing" /\ paused_set' = paused_set \cup stopped
      /\ UNCHANGED <<groups, mapped, queued, queued_set, canceling_set, active,
                     active_count, offsets, known_totals, worker, runner, outbox,
                     worker_rx, submitted, cancel_ok, acked, aborted>>
  BY Zenon DEF Close
<1>2. cancelled' \subseteq Key /\ paused_set' \subseteq Key /\ status' \in [Task -> Status]
  BY Zenon DEF Close, IInv, TypeOK, Status
<1>3. terminal' \in [Task -> GateState]
  <2>1. terminal \in [Task -> GateState]
    BY Zenon DEF IInv, TypeOK
  <2>2. \A t \in Task : BeginPause(terminal[t]) \in GateState
    BY <2>1, GateClosed, Zenon
  <2> QED
    BY <2>1, <2>2, Zenon DEF Close
<1>4. TypeOK'
  BY <1>1, <1>2, <1>3, Zenon DEF IInv, TypeOK
<1>5. Bookkeeping'
  <2>1. Bookkeeping
    BY Zenon DEF IInv
  <2>2. UNCHANGED <<groups, mapped, queued_set, canceling_set, active, submitted>>
    BY <1>1, Zenon
  <2>3. Live' = queued_set' \cup paused_set' \cup active'
    BY <2>1, <2>2, <1>1, Zenon DEF Bookkeeping, Live
  <2>4. queued_set' \cap (paused_set' \cup active') = {}
    BY <2>1, <2>2, <1>1, Zenon DEF Bookkeeping
  <2>5. canceling_set' \subseteq active' \ paused_set'
    BY <2>1, <2>2, <1>1, Zenon DEF Bookkeeping
  <2> QED
    BY <2>1, <2>2, <2>3, <2>4, <2>5, Zenon DEF Bookkeeping, Live
<1>6. QueueMirror' /\ WorkConserving' /\ NoStaleProgress'
  BY <1>1 DEF IInv, QueueMirror, WorkConserving, NoStaleProgress
<1>7. SlotAccounting'
  BY <1>1, Zenon DEF IInv, SlotAccounting
<1>8. OneAnswerPerWorker'
  BY <1>1, Zenon DEF IInv, OneAnswerPerWorker
<1> QED
  BY <1>4, <1>5, <1>6, <1>7, <1>8, Zenon DEF IInv

-----------------------------------------------------------------------------
(* Worker events                                                           *)

\* What taking the first event off the channel does, element by element.
LEMMA TailFacts ==
  ASSUME NEW A, NEW s \in Seq(A), s # <<>>
  PROVE  /\ Tail(s) \in Seq(A) /\ Head(s) \in A
         /\ Len(s) \in Nat \ {0} /\ DOMAIN s = 1 .. Len(s)
         /\ DOMAIN Tail(s) = 1 .. Len(s) - 1
         /\ \A i \in 1 .. Len(s) - 1 : Tail(s)[i] = s[i + 1]
         /\ Head(s) = s[1]
  OBVIOUS

\* A progress event preserves the invariant.
LEMMA ProgressStep ==
  ASSUME IInv, HandleProgress
  PROVE  IInv'
<1> DEFINE e == Head(worker_rx)
           n == Len(worker_rx)
<1>1. TypeOK /\ Bookkeeping /\ OneAnswerPerWorker /\ NoStaleProgress /\ worker_rx # <<>>
      /\ worker_rx' = Tail(worker_rx) /\ e.type = "Progress"
  BY Zenon DEF IInv, HandleProgress
<1>2. /\ Tail(worker_rx) \in Seq(Event) /\ e \in Event
      /\ n \in Nat \ {0} /\ DOMAIN worker_rx = 1 .. n
      /\ DOMAIN Tail(worker_rx) = 1 .. n - 1
      /\ \A i \in 1 .. n - 1 : Tail(worker_rx)[i] = worker_rx[i + 1]
      /\ e = worker_rx[1]
  BY <1>1, TailFacts, Zenon DEF TypeOK
<1>3. UNCHANGED <<groups, mapped, queued, queued_set, paused_set, canceling_set, active,
                  active_count, phase, terminal, cancelled, worker, runner, outbox,
                  submitted, cancel_ok, acked, aborted>>
  BY Zenon DEF HandleProgress
<1>4. e.key \in Key /\ e.by \in Task /\ e.by = groups[e.key]
  <2>1. e.key \in Key /\ e.by \in Task
    BY <1>2, Zenon DEF Event
  <2>2. 1 \in DOMAIN worker_rx
    BY <1>2
  <2>3. worker_rx[1].by = groups[worker_rx[1].key]
    BY <1>1, <2>2, Zenon DEF OneAnswerPerWorker
  <2> QED
    BY <1>2, <2>1, <2>3, Zenon
<1>5. /\ offsets' \in {offsets, [offsets EXCEPT ![e.key] = groups[e.key]]}
      /\ known_totals' \in {known_totals, [known_totals EXCEPT ![e.key] = groups[e.key]]}
      /\ status' \in {status, [status EXCEPT ![groups[e.key]] = "Transmission"]}
  BY <1>4, Zenon DEF HandleProgress
<1> HIDE DEF e, n
<1>6. TypeOK'
  <2>1. /\ offsets' \in [Key -> TaskOrNone] /\ known_totals' \in [Key -> TaskOrNone]
        /\ status' \in [Task -> Status]
    <3>1. /\ offsets \in [Key -> TaskOrNone] /\ known_totals \in [Key -> TaskOrNone]
          /\ status \in [Task -> Status] /\ groups[e.key] \in TaskOrNone
      BY <1>1, <1>4, Zenon DEF TypeOK
    <3>2. offsets' \in [Key -> TaskOrNone] /\ known_totals' \in [Key -> TaskOrNone]
      BY <3>1, <1>5, Zenon
    <3>3. status' \in [Task -> Status]
      BY <3>1, <1>5, Zenon DEF Status
    <3> QED
      BY <3>2, <3>3, Zenon
  <2>2. worker_rx' \in Seq(Event)
    BY <1>1, <1>2, Zenon
  <2> QED
    BY <2>1, <2>2, <1>1, <1>3, Zenon DEF TypeOK
<1>7. NoStaleProgress'
  <2>1. offsets \in [Key -> TaskOrNone] /\ known_totals \in [Key -> TaskOrNone]
    BY <1>1, Zenon DEF TypeOK
  <2> QED
    BY <2>1, <1>1, <1>3, <1>5 DEF NoStaleProgress
<1>8. Bookkeeping'
  BY <1>1, <1>3, Zenon DEF Bookkeeping, Live
<1>9. QueueMirror' /\ WorkConserving'
  BY <1>3 DEF IInv, QueueMirror, WorkConserving
<1>10. SlotAccounting'
  BY <1>3, Zenon DEF IInv, SlotAccounting
<1>11. OneAnswerPerWorker'
  <2>1. \A k \in Key : /\ worker[k] # "none" => k \in active /\ runner[k] = groups[k]
                       /\ worker[k] = "exit" <=> outbox[k] # "none"
    BY <1>1, Zenon DEF OneAnswerPerWorker
  <2>2. ASSUME NEW k \in active, worker[k] = "none"
        PROVE  \E i \in DOMAIN worker_rx' : worker_rx'[i].key = k /\ worker_rx'[i].type # "Progress"
    <3>1. PICK i \in DOMAIN worker_rx : worker_rx[i].key = k /\ worker_rx[i].type # "Progress"
      BY <2>2, <1>1, Zenon DEF OneAnswerPerWorker
    <3>2. i # 1
      BY <3>1, <1>1, <1>2, Zenon
    <3>3. i - 1 \in 1 .. n - 1 /\ worker_rx'[i - 1] = worker_rx[i]
      BY <3>2, <1>1, <1>2
    <3> QED
      BY <3>1, <3>3, <1>1, <1>2, Zenon
  <2>3. ASSUME NEW i \in 1 .. n - 1
        PROVE  /\ worker_rx'[i].key \in active /\ worker_rx'[i].by = groups[worker_rx'[i].key]
               /\ worker_rx'[i].type # "Progress" =>
                    /\ worker[worker_rx'[i].key] = "none"
                    /\ \A j \in 1 .. n - 1 : worker_rx'[j].key = worker_rx'[i].key => j <= i
    <3>1. i + 1 \in 1 .. n /\ worker_rx'[i] = worker_rx[i + 1]
      BY <1>1, <1>2
    <3>2. \A j \in 1 .. n - 1 : j + 1 \in 1 .. n /\ worker_rx'[j] = worker_rx[j + 1]
      BY <1>1, <1>2
    <3>3. /\ worker_rx[i + 1].key \in active
          /\ worker_rx[i + 1].by = groups[worker_rx[i + 1].key]
          /\ worker_rx[i + 1].type # "Progress" =>
               /\ worker[worker_rx[i + 1].key] = "none"
               /\ \A j \in 1 .. n : worker_rx[j].key = worker_rx[i + 1].key => j <= i + 1
      BY <3>1, <1>1, <1>2, Zenon DEF OneAnswerPerWorker
    <3>4. ASSUME worker_rx[i + 1].type # "Progress", NEW j \in 1 .. n - 1,
                 worker_rx'[j].key = worker_rx'[i].key
          PROVE  j <= i
      <4>1. j + 1 <= i + 1
        BY <3>1, <3>2, <3>3, <3>4, Zenon
      <4> QED BY <4>1, <1>2
    <3> QED
      BY <3>1, <3>3, <3>4, Zenon
  <2>4. DOMAIN worker_rx' = 1 .. n - 1
    BY <1>1, <1>2, Zenon
  <2> QED
    BY <2>1, <2>2, <2>3, <2>4, <1>3, ZenonT(60) DEF OneAnswerPerWorker
<1> QED
  BY <1>6, <1>7, <1>8, <1>9, <1>10, <1>11, Zenon DEF IInv

\* A terminal event releases the slot of its key; then the main loop schedules
\* again and the drain of Close does not.
LEMMA TerminalEnds ==
  ASSUME IInv, NEW k \in active, NEW st \in [Task -> Status],
         GroupsDone(queued_set, active \ {k}), WorkersDone(active \ {k}),
         queued_set \cap paused_set' = {},
         AfterTerminal(k, st), RestOK', NoStaleProgress', phase' = phase, Releasing(k)
  PROVE  Reschedules \/ IInv'
<1> DEFINE a == active \ {k}
           n == CountAfterRemove(k)
<1>1. n \in [Direction -> Nat] /\ a \in SUBSET Key
      /\ \A d \in Direction : /\ n[d] = Cardinality(InDir(a, d))
                              /\ n[d] <= MaxConcurrency[d]
  BY Zenon DEF IInv, TypeOK, Releasing
<1>2. /\ queued \in Seq(Key) /\ NoRepeat(queued) /\ Elements(queued) = queued_set
      /\ cancelled \in SUBSET Key
  BY Zenon DEF IInv, TypeOK, QueueMirror, NoRepeat, Elements
<1>3. GroupsDone(queued_set, a) /\ WorkersDone(a)
  BY Zenon
<1>4. \A j \in queued_set : j \notin paused_set' /\ j \notin a /\ groups'[j] # NoTask
  BY Zenon DEF IInv, Bookkeeping, GroupsDone
<1> HIDE DEF n, a
<1>5. CASE phase = "running"
  <2>1. TryStartNext(queued, queued_set, a, n, cancelled, st)
    BY <1>5, Zenon DEF AfterTerminal, a, n
  <2>2. Startable(queued, queued_set, a, n)
    BY <1>1, <1>2, <1>4, Zenon DEF Startable
  <2> QED
    BY <2>1, <2>2, <1>2, <1>3, Zenon DEF Reschedules
<1>6. CASE phase # "running"
  <2>1. /\ active' = a /\ active_count' = n /\ status' = st
        /\ UNCHANGED <<queued, queued_set, cancelled, worker, runner>>
    BY <1>6, Zenon DEF AfterTerminal, a, n
  <2>2. Bookkeeping'
    BY <2>1, <1>3, <1>4, Zenon DEF GroupsDone, Bookkeeping, Live
  <2>3. QueueMirror'
    BY <2>1 DEF IInv, QueueMirror
  <2>4. WorkConserving'
    BY <1>6, Zenon DEF WorkConserving
  <2>5. SlotAccounting'
    BY <2>1, <1>1, Zenon DEF SlotAccounting, InDir
  <2>6. OneAnswerPerWorker'
    BY <2>1, <1>3, ZenonT(60) DEF WorkersDone, OneAnswerPerWorker
  <2>7. TypeOK'
    BY <2>1, <1>1, Zenon DEF IInv, TypeOK, RestOK
  <2> QED
    BY <2>2, <2>3, <2>4, <2>5, <2>6, <2>7, Zenon DEF IInv
<1> QED
  BY <1>5, <1>6, Zenon

\* The terminal event of a key is the last one of it in the channel, so taking
\* it off leaves no event behind for the released slot.
LEMMA TerminalTaken ==
  ASSUME IInv, worker_rx # <<>>, Head(worker_rx).type # "Progress",
         worker_rx' = Tail(worker_rx), outbox' = outbox,
         \A j \in Key : j # Head(worker_rx).key => groups'[j] = groups[j]
  PROVE  LET k == Head(worker_rx).key
         IN  /\ k \in active /\ k \in Key /\ groups[k] \in Task
             /\ WorkersDone(active \ {k})
             /\ worker_rx' \in Seq(Event)
<1> DEFINE e == Head(worker_rx)
           k == e.key
           n == Len(worker_rx)
<1>1. TypeOK /\ OneAnswerPerWorker
  BY Zenon DEF IInv
<1>2. /\ Tail(worker_rx) \in Seq(Event) /\ e \in Event
      /\ n \in Nat \ {0} /\ DOMAIN worker_rx = 1 .. n
      /\ DOMAIN Tail(worker_rx) = 1 .. n - 1
      /\ \A i \in 1 .. n - 1 : Tail(worker_rx)[i] = worker_rx[i + 1]
      /\ e = worker_rx[1]
  BY <1>1, TailFacts, Zenon DEF TypeOK
<1> HIDE DEF n
<1>3. 1 \in DOMAIN worker_rx
  BY <1>2
<1>4. /\ k \in active /\ k \in Key /\ e.by \in Task /\ groups[k] = e.by
      /\ worker[k] = "none"
      /\ \A j \in DOMAIN worker_rx : worker_rx[j].key = k => j <= 1
  <2>1. e.key \in Key /\ e.by \in Task
    BY <1>2, Zenon DEF Event
  <2>2. /\ worker_rx[1].key \in active /\ worker_rx[1].by = groups[worker_rx[1].key]
        /\ worker_rx[1].type # "Progress" =>
             /\ worker[worker_rx[1].key] = "none"
             /\ \A j \in DOMAIN worker_rx : worker_rx[j].key = worker_rx[1].key => j <= 1
    BY <1>1, <1>3, Zenon DEF OneAnswerPerWorker
  <2>3. e = worker_rx[1] /\ e.type # "Progress"
    BY <1>2, Zenon
  <2> HIDE DEF e
  <2> QED
    BY <2>1, <2>2, <2>3, Zenon
<1> HIDE DEF e, k
<1>5. ASSUME NEW i \in 1 .. n - 1
      PROVE  /\ i + 1 \in DOMAIN worker_rx /\ worker_rx'[i] = worker_rx[i + 1]
             /\ worker_rx'[i].key # k
  <2>1. i + 1 \in DOMAIN worker_rx /\ worker_rx'[i] = worker_rx[i + 1] /\ ~(i + 1 <= 1)
    BY <1>2
  <2> QED
    BY <2>1, <1>4, Zenon
<1>6. \A j \in Key : j # k => groups'[j] = groups[j]
  BY Zenon DEF e, k
<1>7. ASSUME NEW j \in Key
      PROVE  /\ worker[j] # "none" => j \in active \ {k} /\ runner[j] = groups'[j]
             /\ worker[j] = "exit" <=> outbox'[j] # "none"
  BY <1>1, <1>4, <1>6, Zenon DEF OneAnswerPerWorker
<1>8. ASSUME NEW j \in active \ {k}, worker[j] = "none"
      PROVE  \E i \in DOMAIN worker_rx' : worker_rx'[i].key = j /\ worker_rx'[i].type # "Progress"
  <2>1. PICK i \in DOMAIN worker_rx : worker_rx[i].key = j /\ worker_rx[i].type # "Progress"
    BY <1>1, <1>8, Zenon DEF OneAnswerPerWorker
  <2>2. i # 1
    BY <2>1, <1>2, <1>8, Zenon DEF k
  <2>3. i - 1 \in 1 .. n - 1 /\ (i - 1) + 1 = i
    BY <2>2, <1>2
  <2>4. worker_rx'[i - 1] = worker_rx[i] /\ i - 1 \in DOMAIN worker_rx'
    BY <2>3, <1>2, <1>5, Zenon
  <2> QED
    BY <2>1, <2>4, Zenon
<1>9. ASSUME NEW i \in DOMAIN worker_rx'
      PROVE  /\ worker_rx'[i].key \in active \ {k}
             /\ worker_rx'[i].by = groups'[worker_rx'[i].key]
             /\ worker_rx'[i].type # "Progress" =>
                  /\ worker[worker_rx'[i].key] = "none"
                  /\ \A j \in DOMAIN worker_rx' : worker_rx'[j].key = worker_rx'[i].key => j <= i
  <2>1. i \in 1 .. n - 1 /\ DOMAIN worker_rx' = 1 .. n - 1
    BY <1>2, Zenon
  <2>2. /\ worker_rx'[i] = worker_rx[i + 1] /\ i + 1 \in DOMAIN worker_rx
        /\ worker_rx'[i].key # k
    BY <2>1, <1>5, Zenon
  <2>3. /\ worker_rx[i + 1].key \in active
        /\ worker_rx[i + 1].by = groups[worker_rx[i + 1].key]
        /\ worker_rx[i + 1].type # "Progress" =>
             /\ worker[worker_rx[i + 1].key] = "none"
             /\ \A j \in DOMAIN worker_rx : worker_rx[j].key = worker_rx[i + 1].key => j <= i + 1
    BY <2>2, <1>1, Zenon DEF OneAnswerPerWorker
  <2>4. worker_rx[i + 1].key \in Key
    BY <2>3, <1>1, Zenon DEF TypeOK
  <2>5. ASSUME worker_rx[i + 1].type # "Progress", NEW j \in DOMAIN worker_rx',
               worker_rx'[j].key = worker_rx'[i].key
        PROVE  j <= i
    <3>1. j \in 1 .. n - 1
      BY <2>1, Zenon
    <3>2. j + 1 \in DOMAIN worker_rx /\ worker_rx'[j] = worker_rx[j + 1]
      BY <3>1, <1>5, Zenon
    <3>3. j + 1 <= i + 1
      BY <3>2, <2>2, <2>3, <2>5, Zenon
    <3> QED
      BY <3>1, <3>3, <2>1, <1>2
  <2> QED
    BY <2>2, <2>3, <2>4, <2>5, <1>6, Zenon
<1>10. WorkersDone(active \ {k})
  <2>1. worker \in [Key -> Running \cup {"none", "exit"}] /\ runner \in [Key -> TaskOrNone]
    BY <1>1, Zenon DEF TypeOK
  <2> QED
    BY <2>1, <1>7, <1>8, <1>9, Zenon DEF WorkersDone
<1> QED
  BY <1>2, <1>4, <1>10, Zenon DEF e, k

\* A terminal event preserves the invariant, or leads up to try_start_next.
LEMMA TerminalStep ==
  ASSUME IInv, HandleTerminal, \A k \in active : Releasing(k)
  PROVE  Reschedules \/ IInv'
<1> DEFINE e == Head(worker_rx)
           k == e.key
           a == active \ {k}
           leader == groups[k]
<1>1. TypeOK /\ Bookkeeping /\ NoStaleProgress
  BY Zenon DEF IInv
<1>2. /\ worker_rx # <<>> /\ e.type # "Progress" /\ worker_rx' = Tail(worker_rx)
      /\ UNCHANGED <<phase, outbox, submitted, cancel_ok, acked>>
  BY Zenon DEF HandleTerminal
<1>3. PICK final \in Ended :
        IF e.type = "Canceled" /\ FromPause(k) THEN SettlePause(k) ELSE EndGroup(k, final)
  BY Zenon DEF HandleTerminal, Ended
<1>4. \/ e.type = "Canceled" /\ FromPause(k) /\ SettlePause(k)
      \/ EndGroup(k, final)
  BY <1>3, Zenon
<1>5. groups' = groups \/ groups' = [groups EXCEPT ![k] = NoTask]
  BY <1>4, Zenon DEF SettlePause, EndGroup
<1>6. \A j \in Key : j # k => groups'[j] = groups[j]
  BY <1>1, <1>5, Zenon DEF TypeOK
<1>7. /\ k \in active /\ k \in Key /\ leader \in Task
      /\ WorkersDone(a)
      /\ worker_rx' \in Seq(Event)
  BY <1>2, <1>6, TerminalTaken, Zenon
<1>8. aborted' \subseteq Task
  BY <1>1, <1>7, Zenon DEF HandleTerminal, Abort, TypeOK
<1>9. k \notin queued_set /\ KeyOf[leader] = k /\ leader # NoTask
  BY <1>1, <1>7, Zenon DEF Bookkeeping, Live
<1> HIDE DEF e, k
<1>10. CASE EndGroup(k, final)
  <2> DEFINE st == [status EXCEPT ![leader] = final]
  <2>1. /\ canceling_set' = canceling_set \ {k} /\ paused_set' = paused_set \ {k}
        /\ groups' = [groups EXCEPT ![k] = NoTask] /\ mapped' = mapped \ {leader}
        /\ offsets' = [offsets EXCEPT ![k] = NoTask]
        /\ known_totals' = [known_totals EXCEPT ![k] = NoTask]
        /\ terminal' = terminal
        /\ AfterTerminal(k, st)
    BY <1>9, <1>10, Zenon DEF EndGroup, Settled, Forget
  <2>2. st \in [Task -> Status]
    BY <1>1, <1>7, Zenon DEF TypeOK, Status
  <2>3. /\ groups' \in [Key -> TaskOrNone] /\ offsets' \in [Key -> TaskOrNone]
        /\ known_totals' \in [Key -> TaskOrNone]
    BY <2>1, <1>1, Zenon DEF TypeOK, TaskOrNone
  <2>4. RestOK'
    <3>1. /\ canceling_set' \subseteq Key /\ paused_set' \subseteq Key /\ mapped' \subseteq Task
      BY <2>1, <1>1, Zenon DEF TypeOK
    <3> QED
      BY <2>1, <2>3, <3>1, <1>1, <1>2, <1>7, <1>8, Zenon DEF TypeOK, RestOK
  <2>5. NoStaleProgress'
    BY <2>1, <1>1, Zenon DEF NoStaleProgress, TypeOK
  <2>6. groups'[k] = NoTask
    BY <2>1, <1>1, <1>7, Zenon DEF TypeOK
  <2>7. GroupsDone(queued_set, a)
    <3>1. \A j \in Key : groups'[j] # NoTask => KeyOf[groups'[j]] = j /\ groups'[j] \in submitted'
      BY <2>6, <1>1, <1>2, <1>6, Zenon DEF Bookkeeping, Live
    <3>2. {j \in Key : groups'[j] # NoTask} = queued_set \cup paused_set' \cup a
      <4>1. ASSUME NEW j \in Key
            PROVE  groups'[j] # NoTask <=> j \in queued_set \cup paused_set' \cup a
        <5>1. groups[j] # NoTask <=> j \in queued_set \cup paused_set \cup active
          BY <1>1, Zenon DEF Bookkeeping, Live
        <5> QED
          BY <5>1, <2>1, <2>6, <1>6, <1>9, Zenon
      <4>2. queued_set \cup paused_set' \cup a \subseteq Key
        BY <2>1, <1>1, Zenon DEF TypeOK
      <4> QED
        BY <4>1, <4>2, Zenon
    <3>3. canceling_set' \subseteq a \ paused_set'
      BY <2>1, <1>1, Zenon DEF Bookkeeping
    <3>4. ASSUME NEW u \in Task
          PROVE  u \in mapped' <=> groups'[KeyOf[u]] = u /\ KeyOf[u] \notin canceling_set'
      <4>1. u \in mapped <=> groups[KeyOf[u]] = u /\ KeyOf[u] \notin canceling_set
        BY <1>1, Zenon DEF Bookkeeping
      <4>2. KeyOf[u] \in Key /\ u # NoTask
        BY Zenon
      <4>3. u \in mapped' <=> u \in mapped /\ u # leader
        BY <2>1, Zenon
      <4>4. CASE KeyOf[u] = k
        BY <4>1, <4>2, <4>3, <4>4, <2>6, Zenon
      <4>5. CASE KeyOf[u] # k
        <5>1. u # leader
          BY <4>5, <1>9, Zenon
        <5>2. groups'[KeyOf[u]] = groups[KeyOf[u]]
          BY <4>2, <4>5, <1>6, Zenon
        <5>3. KeyOf[u] \in canceling_set' <=> KeyOf[u] \in canceling_set
          BY <2>1, <4>5, Zenon
        <5> QED BY <4>1, <4>3, <5>1, <5>2, <5>3, Zenon
      <4> QED BY <4>4, <4>5, Zenon
    <3> QED
      BY <2>3, <3>1, <3>2, <3>3, <3>4, Zenon DEF GroupsDone
  <2>8. queued_set \cap paused_set' = {}
    BY <2>1, <1>1, Zenon DEF Bookkeeping
  <2> HIDE DEF st, leader
  <2>9. phase' = phase
    BY <1>2, Zenon
  <2> QED
    BY <2>1, <2>2, <2>4, <2>5, <2>7, <2>8, <2>9, <1>7, TerminalEnds, Zenon
<1>11. CASE FromPause(k) /\ SettlePause(k)
  <2> DEFINE st == [status EXCEPT ![leader] = "Paused"]
  <2>1. /\ terminal' = [terminal EXCEPT ![leader] = ResetPause(@)]
        /\ UNCHANGED <<canceling_set, paused_set, groups, mapped, offsets, known_totals>>
        /\ AfterTerminal(k, st)
        /\ k \in paused_set
    BY <1>11, Zenon DEF SettlePause, FromPause
  <2>2. st \in [Task -> Status]
    BY <1>1, <1>7, Zenon DEF TypeOK, Status
  <2>3. terminal' \in [Task -> GateState]
    <3>1. terminal \in [Task -> GateState]
      BY <1>1, Zenon DEF TypeOK
    <3>2. ResetPause(terminal[leader]) \in GateState
      BY <3>1, <1>7, GateClosed, Zenon
    <3> QED
      BY <3>1, <3>2, <2>1, Zenon
  <2>4. RestOK'
    BY <2>1, <2>3, <1>1, <1>2, <1>7, <1>8, Zenon DEF TypeOK, RestOK
  <2>5. NoStaleProgress'
    BY <2>1, <1>1, Zenon DEF NoStaleProgress
  <2>6. GroupsDone(queued_set, a)
    <3>1. groups' \in [Key -> TaskOrNone]
      BY <2>4, Zenon DEF RestOK
    <3>2. \A j \in Key : groups'[j] # NoTask => KeyOf[groups'[j]] = j /\ groups'[j] \in submitted'
      BY <2>1, <1>1, <1>2, Zenon DEF Bookkeeping, Live
    <3>3. {j \in Key : groups'[j] # NoTask} = queued_set \cup paused_set' \cup a
      BY <2>1, <1>1 DEF Bookkeeping, Live
    <3>4. canceling_set' \subseteq a \ paused_set'
      BY <2>1, <1>1, Zenon DEF Bookkeeping
    <3>5. \A u \in Task : u \in mapped' <=>
            groups'[KeyOf[u]] = u /\ KeyOf[u] \notin canceling_set'
      BY <2>1, <1>1, Zenon DEF Bookkeeping
    <3> QED
      BY <3>1, <3>2, <3>3, <3>4, <3>5, Zenon DEF GroupsDone
  <2>7. queued_set \cap paused_set' = {}
    BY <2>1, <1>1, Zenon DEF Bookkeeping
  <2>8. phase' = phase
    BY <1>2, Zenon
  <2> HIDE DEF st, leader
  <2> QED
    BY <2>1, <2>2, <2>4, <2>5, <2>6, <2>7, <2>8, <1>7, TerminalEnds, Zenon
<1> QED
  BY <1>4, <1>10, <1>11, Zenon

-----------------------------------------------------------------------------
(* The records of a task, its gate and its worker                          *)

\* The worker of k has decided on its terminal event, which is yet to be sent
\* or to be handled.
Answer(k, type) ==
  \/ outbox[k] = type
  \/ \E i \in DOMAIN worker_rx : worker_rx[i].key = k /\ worker_rx[i].type = type

\* What holds of the gate of a live task without a worker, and with one.  A
\* running worker has neither completed nor aborted anything; its gate is
\* claimed exactly while its last request is out; and the gate, the token and
\* the sets of the scheduler agree about the stop that was asked for.
IdleGate(k) ==
  terminal[groups[k]] = OPEN /\ groups[k] \notin acked /\ groups[k] \notin aborted

RunningGate(k) ==
  LET s == terminal[groups[k]]
  IN  /\ groups[k] \notin acked /\ groups[k] \notin aborted
      /\ worker[k] = "finishing" <=> s \in Claimed
      /\ k \notin paused_set /\ k \notin canceling_set
           => s \in {OPEN, COMPLETING} /\ k \notin cancelled
      /\ k \in paused_set => /\ s \in {PAUSING, COMPLETING_PAUSE_PENDING}
                             /\ k \in cancelled => s = PAUSING

AnswerGate(k) ==
  /\ Answer(k, "Canceled") =>
       /\ k \in paused_set \/ k \in canceling_set
       /\ k \in paused_set => terminal[groups[k]] = PAUSING
       /\ groups[k] \notin acked
  /\ groups[k] \in acked /\ DirOf[k] = "Upload" => Answer(k, "Completed")
  /\ groups[k] \in aborted => Answer(k, "Failed")

ActiveGate(k) ==
  /\ worker[k] \in Running => RunningGate(k)
  /\ AnswerGate(k)
  /\ k \in canceling_set => groups[k] \in cancel_ok

KeyInv(k) ==
  /\ worker[k] = "none" => runner[k] = NoTask
  /\ groups[k] # NoTask => /\ phase \in {"running", "closing"}
                           /\ k \notin active => IdleGate(k)
                           /\ k \in active => ActiveGate(k)

\* What the last record of a task is, told from the collections.
Unseen(t) == status[t] = "None" /\ terminal[t] = OPEN /\ t \notin acked /\ t \notin aborted

Shown(t) ==
  LET k == KeyOf[t]
  IN  /\ k \in active => status[t] \in {"Pending", "Transmission"}
      /\ k \in queued_set /\ phase = "running" => status[t] = "Pending"
      /\ k \in queued_set /\ phase = "closing" => status[t] = "Paused"
      /\ k \in paused_set /\ k \notin active => status[t] = "Paused"

Earned(t) ==
  /\ status[t] = "Canceled" => t \in cancel_ok
  /\ t \in acked /\ DirOf[KeyOf[t]] = "Upload" =>
       t \notin aborted /\ status[t] \notin {"Canceled", "Failed"}

LifeInv(t) ==
  /\ t \notin submitted => Unseen(t)
  /\ groups[KeyOf[t]] = t => Shown(t)
  /\ t \in submitted /\ groups[KeyOf[t]] # t /\ phase \in {"running", "closing"}
       => status[t] \in Ended
  /\ t \in submitted /\ phase = "closed" => status[t] \in Ended \cup {"Paused"}
  /\ Earned(t)

OutcomeInv == (\A k \in Key : KeyInv(k)) /\ (\A t \in Task : LifeInv(t))

\* The records that may follow each other, as TaskStatus has them.
MayFollow(x, y) ==
  \/ x = y
  \/ x = "None" /\ y \in {"Pending", "Transmission", "Paused", "Duplicate"}
  \/ x = "Pending" /\ y \in {"Transmission", "Paused", "Complete", "Failed", "Canceled"}
  \/ x = "Transmission" /\ y \in {"Paused", "Complete", "Failed", "Canceled"}
  \/ x = "Paused" /\ y \in {"Pending", "Transmission", "Canceled"}

\* What every step has to show of a key, and of a task.
KeyStep(k) == KeyInv(k)'
TaskStep(t) == LifeInv(t)' /\ MayFollow(status[t], status'[t])
Preserved == (\A k \in Key : KeyStep(k)) /\ (\A t \in Task : TaskStep(t))

-----------------------------------------------------------------------------
\* try_start_next gives a key a fresh worker with a fresh token.
Started(k) ==
  /\ k \in active' /\ k \notin queued_set' /\ k \notin paused_set' /\ k \notin cancelled'
  /\ worker'[k] = "prepare" /\ runner'[k] = groups'[k] /\ groups'[k] # NoTask

\* It leaves a key as the handler had it.
Left(k, qs, a, c) ==
  /\ worker'[k] = worker[k] /\ runner'[k] = runner[k]
  /\ k \in active' <=> k \in a
  /\ k \in cancelled' <=> k \in c
  /\ k \in queued_set' <=> k \in qs /\ groups'[k] # NoTask

\* Only queued keys that may run are started.
LEMMA StartsEligible ==
  ASSUME NEW q, NEW qs, NEW a, NEW n, Elements(q) \subseteq qs, NEW j \in Starts(q, a, n)
  PROVE  j \in qs /\ j \notin paused_set' /\ j \notin a /\ groups'[j] # NoTask
<1>1. PICK d \in Direction : j \in StartsIn(q, a, n, d)
  BY Zenon DEF Starts
<1>2. PICK i \in Waiting(q, a, d) : j = q[i]
  BY <1>1, Zenon DEF StartsIn
<1>3. i \in DOMAIN q /\ Eligible(q[i], a)
  BY <1>2, Zenon DEF Waiting
<1> QED
  BY <1>2, <1>3, Zenon DEF Eligible, Elements

\* Every key is started, out of the queue, or left alone by try_start_next.
LEMMA ScheduledKey ==
  ASSUME NEW k \in Key, NEW q, NEW qs \in SUBSET Key, NEW a, NEW n, NEW c, NEW st,
         TryStartNext(q, qs, a, n, c, st), Elements(q) \subseteq qs
  PROVE  \/ k \in qs /\ k \notin a /\ Started(k)
         \/ Left(k, qs, a, c)
<1> DEFINE S == Starts(q, a, n)
<1>1. \A j \in S : j \in qs /\ j \notin paused_set' /\ j \notin a /\ groups'[j] # NoTask
  BY StartsEligible, ZenonT(60)
<1>2. /\ queued_set' = qs \cap ({j \in Key : groups'[j] # NoTask} \ S)
      /\ active' = a \cup S /\ cancelled' = c \ S
      /\ worker' = [j \in Key |-> IF j \in S THEN "prepare" ELSE worker[j]]
      /\ runner' = [j \in Key |-> IF j \in S THEN groups'[j] ELSE runner[j]]
  BY Zenon DEF TryStartNext
<1> HIDE DEF S
<1>3. CASE k \in S
  BY <1>1, <1>2, <1>3, Zenon DEF Started
<1>4. CASE k \notin S
  BY <1>1, <1>2, <1>4, Zenon DEF Left
<1> QED
  BY <1>3, <1>4, Zenon

\* A task keeps the record the handler gave it, or it was started and says so.
LEMMA ScheduledTask ==
  ASSUME IInv', NEW t \in Task, NEW q, NEW qs \in SUBSET Key, NEW a, NEW n, NEW c, NEW st,
         TryStartNext(q, qs, a, n, c, st), Elements(q) \subseteq qs
  PROVE  \/ status'[t] = st[t]
         \/ /\ status'[t] = "Transmission"
            /\ groups'[KeyOf[t]] = t /\ KeyOf[t] \in qs /\ Started(KeyOf[t])
<1> DEFINE S == Starts(q, a, n)
<1>1. \A j \in S : j \in qs /\ j \notin paused_set' /\ j \notin a /\ groups'[j] # NoTask
  BY StartsEligible, ZenonT(60)
<1>2. /\ queued_set' = qs \cap ({j \in Key : groups'[j] # NoTask} \ S)
      /\ active' = a \cup S /\ cancelled' = c \ S
      /\ worker' = [j \in Key |-> IF j \in S THEN "prepare" ELSE worker[j]]
      /\ runner' = [j \in Key |-> IF j \in S THEN groups'[j] ELSE runner[j]]
      /\ status'[t] = IF \E k \in S : groups'[k] = t /\ Announced(k)
                      THEN "Transmission" ELSE st[t]
  BY Zenon DEF TryStartNext
<1> HIDE DEF S
<1>3. CASE \E k \in S : groups'[k] = t /\ Announced(k)
  <2>1. PICK k \in S : groups'[k] = t
    BY <1>3, Zenon
  <2>2. k \in qs /\ k \in Key /\ groups'[k] # NoTask /\ k \notin paused_set'
    BY <1>1, <2>1, Zenon
  <2>3. KeyOf[t] = k
    BY <2>1, <2>2, Zenon DEF IInv, Bookkeeping, Live
  <2> QED
    BY <1>2, <1>3, <2>1, <2>2, <2>3, Zenon DEF Started
<1> QED
  BY <1>2, <1>3, Zenon

\* One call of try_start_next, on a queue that its mirror covers.
Schedules(q, qs, a, n, c, st) ==
  qs \in SUBSET Key /\ Elements(q) \subseteq qs /\ TryStartNext(q, qs, a, n, c, st)

\* The scheduler writes no record of a task whose key does not wait.
LEMMA UnqueuedTask ==
  ASSUME IInv', NEW t \in Task, NEW q, NEW qs, NEW a, NEW n, NEW c, NEW st,
         Schedules(q, qs, a, n, c, st)
  PROVE  KeyOf[t] \in qs \/ status'[t] = st[t]
<1>1. qs \in SUBSET Key /\ Elements(q) \subseteq qs /\ TryStartNext(q, qs, a, n, c, st)
  BY Zenon DEF Schedules
<1>2. \/ status'[t] = st[t]
      \/ /\ status'[t] = "Transmission"
         /\ groups'[KeyOf[t]] = t /\ KeyOf[t] \in qs /\ Started(KeyOf[t])
  BY <1>1, ScheduledTask, ZenonT(60)
<1> QED
  BY <1>2, Zenon

-----------------------------------------------------------------------------
\* What a handler that is about other tasks leaves alone.
Aside(t) ==
  /\ groups'[KeyOf[t]] = t <=> groups[KeyOf[t]] = t
  /\ terminal'[t] = terminal[t]
  /\ t \in submitted' <=> t \in submitted
  /\ t \in acked' <=> t \in acked
  /\ t \in aborted' <=> t \in aborted
  /\ t \in cancel_ok' <=> t \in cancel_ok

AsideKey(k) ==
  /\ groups'[k] = groups[k]
  /\ k \in paused_set' <=> k \in paused_set
  /\ k \in canceling_set' <=> k \in canceling_set
  /\ \A type \in TerminalEvent : Answer(k, type)' <=> Answer(k, type)

\* A key without a worker has no terminal event under way.
LEMMA NoAnswerIdle ==
  ASSUME IInv, NEW k \in Key, k \notin active
  PROVE  /\ \A type \in TerminalEvent : ~Answer(k, type)
         /\ worker[k] = "none" /\ k \notin canceling_set
<1>1. worker[k] = "none" /\ outbox[k] = "none" /\ k \notin canceling_set
  BY Zenon DEF IInv, TypeOK, OneAnswerPerWorker, Bookkeeping
<1>2. \A i \in DOMAIN worker_rx : worker_rx[i].key # k
  <2>1. \A i \in DOMAIN worker_rx : worker_rx[i].key \in active
    BY Zenon DEF IInv, OneAnswerPerWorker
  <2> QED
    BY <2>1, Zenon
<1> QED
  BY <1>1, <1>2, Zenon DEF Answer, TerminalEvent

\* A live key without a worker, whose gate is open, may be started or stay idle.
LEMMA IdleKey ==
  ASSUME NEW k \in Key, NEW qs, NEW a, NEW c,
         IdleGate(k)', phase' \in {"running", "closing"},
         k \notin canceling_set', \A type \in TerminalEvent : ~Answer(k, type)',
         runner[k] = NoTask,
         Started(k) \/ (Left(k, qs, a, c) /\ k \notin a)
  PROVE  KeyStep(k)
<1>1. CASE Started(k)
  <2>1. RunningGate(k)'
    BY <1>1, Zenon DEF RunningGate, IdleGate, Started, OPEN, COMPLETING, Claimed,
       COMPLETING_CANCEL_PENDING, COMPLETING_PAUSE_PENDING
  <2>2. AnswerGate(k)'
    BY Zenon DEF AnswerGate, IdleGate, TerminalEvent
  <2> QED
    BY <1>1, <2>1, <2>2, Zenon DEF KeyStep, KeyInv, ActiveGate, Started
<1>2. CASE Left(k, qs, a, c) /\ k \notin a
  BY <1>2, Zenon DEF KeyStep, KeyInv, Left
<1> QED
  BY <1>1, <1>2, Zenon

\* A key the handler is not about keeps its invariant, started or not.
LEMMA KeyAside ==
  ASSUME IInv, NEW k \in Key, KeyInv(k), AsideKey(k),
         groups[k] # NoTask => Aside(groups[k]) /\ phase' \in {"running", "closing"},
         \/ k \in queued_set /\ Started(k)
         \/ Left(k, queued_set, active, cancelled)
  PROVE  KeyStep(k)
<1>1. groups[k] # NoTask => groups[k] \in Task
  BY Zenon DEF IInv, TypeOK, TaskOrNone
<1>2. CASE k \in queued_set /\ Started(k)
  <2>1. k \notin active /\ groups[k] # NoTask
    BY <1>2, Zenon DEF IInv, Bookkeeping, Live
  <2>2. IdleGate(k) /\ phase' \in {"running", "closing"} /\ Aside(groups[k])
    BY <2>1, Zenon DEF KeyInv
  <2>3. k \notin canceling_set' /\ \A type \in TerminalEvent : ~Answer(k, type)'
    BY <2>1, NoAnswerIdle, Zenon DEF AsideKey
  <2>4. IdleGate(k)' /\ groups'[k] = groups[k]
    BY <2>2, Zenon DEF IdleGate, Aside, AsideKey
  <2>5. runner[k] = NoTask
    BY <2>1, NoAnswerIdle, Zenon DEF KeyInv
  <2> QED
    BY <1>2, <2>2, <2>3, <2>4, <2>5, IdleKey, Zenon
<1>3. CASE Left(k, queued_set, active, cancelled)
  <2>1. groups[k] = NoTask => KeyStep(k)
    BY <1>3, Zenon DEF KeyStep, KeyInv, Left, AsideKey
  <2>2. ASSUME groups[k] # NoTask, k \notin active PROVE KeyStep(k)
    BY <1>3, <2>2, Zenon DEF KeyStep, KeyInv, Left, AsideKey, Aside, IdleGate
  <2>3. ASSUME groups[k] # NoTask, k \in active PROVE KeyStep(k)
    <3>1. ActiveGate(k) /\ Aside(groups[k]) /\ phase' \in {"running", "closing"}
      BY <2>3, Zenon DEF KeyInv
    <3>2. worker[k] \in Running => RunningGate(k)'
      BY <1>3, <3>1, Zenon DEF ActiveGate, RunningGate, Left, AsideKey, Aside
    <3>3. AnswerGate(k)'
      BY <3>1, Zenon DEF ActiveGate, AnswerGate, AsideKey, Aside, TerminalEvent
    <3> QED
      BY <1>3, <2>3, <3>1, <3>2, <3>3, Zenon
         DEF KeyStep, KeyInv, ActiveGate, Left, AsideKey, Aside
  <2> QED
    BY <2>1, <2>2, <2>3, Zenon
<1> QED
  BY <1>2, <1>3, Zenon

\* A task the handler is not about keeps its invariant and its record, unless
\* it was started.
LEMMA TaskAside ==
  ASSUME IInv, NEW t \in Task, LifeInv(t), Aside(t), phase' = phase,
         phase \in {"running", "closing"},
         groups[KeyOf[t]] = t =>
           /\ KeyOf[t] \in paused_set' <=> KeyOf[t] \in paused_set
           /\ \/ phase = "running" /\ KeyOf[t] \in queued_set /\ Started(KeyOf[t])
              \/ Left(KeyOf[t], queued_set, active, cancelled),
         \/ status'[t] = status[t]
         \/ /\ status'[t] = "Transmission"
            /\ groups'[KeyOf[t]] = t /\ KeyOf[t] \in queued_set /\ Started(KeyOf[t])
  PROVE  TaskStep(t)
<1> DEFINE k == KeyOf[t]
<1>1. k \in Key /\ (k \in queued_set => k \notin active /\ k \notin paused_set)
  BY Zenon DEF IInv, Bookkeeping
<1>2. CASE groups[k] # t
  BY <1>2, Zenon DEF TaskStep, LifeInv, Aside, MayFollow, Unseen, Earned
<1>3. CASE groups[k] = t
  <2>1. t \in submitted /\ groups'[k] = t /\ t \in submitted' /\ groups'[k] # NoTask
    BY <1>1, <1>3, ZenonT(60) DEF IInv, Bookkeeping, Live, Aside
  <2>2. k \in paused_set' <=> k \in paused_set
    BY <1>3, Zenon
  <2>3. CASE phase = "running" /\ k \in queued_set /\ Started(k)
    <3>1. status[t] = "Pending"
      BY <1>3, <2>3, Zenon DEF LifeInv, Shown
    <3>2. status'[t] \in {"Pending", "Transmission"} /\ MayFollow(status[t], status'[t])
      BY <3>1, Zenon DEF MayFollow
    <3> QED
      BY <2>1, <2>3, <3>2, Zenon DEF TaskStep, LifeInv, Shown, Earned, Aside, Started
  <2>4. CASE Left(k, queued_set, active, cancelled)
    <3>1. status'[t] = status[t]
      BY <1>1, <2>4, Zenon DEF Started, Left
    <3> QED
      BY <1>3, <2>1, <2>2, <2>4, <3>1, Zenon
         DEF TaskStep, LifeInv, Shown, Earned, Aside, Left, MayFollow
  <2> QED
    BY <1>3, <2>3, <2>4, Zenon
<1> QED
  BY <1>2, <1>3, Zenon

\* Whatever a handler does to the keys K and the tasks T, if it leaves all others
\* alone, or starts them, it preserves their invariants.
LEMMA Others ==
  ASSUME IInv, OutcomeInv, phase' = phase, phase \in {"running", "closing"},
         NEW K, NEW T,
         \A j \in Key \ K :
            /\ AsideKey(j)
            /\ \/ phase = "running" /\ j \in queued_set /\ Started(j)
               \/ Left(j, queued_set, active, cancelled),
         \A u \in Task \ T :
            /\ Aside(u) /\ (groups[KeyOf[u]] = u => KeyOf[u] \notin K)
            /\ \/ status'[u] = status[u]
               \/ /\ status'[u] = "Transmission" /\ groups'[KeyOf[u]] = u
                  /\ KeyOf[u] \in queued_set /\ Started(KeyOf[u]),
         \A j \in Key \ K : groups[j] \notin T
  PROVE  /\ \A j \in Key \ K : KeyStep(j)
         /\ \A u \in Task \ T : TaskStep(u)
<1>1. ASSUME NEW j \in Key \ K PROVE KeyStep(j)
  <2>1. groups[j] # NoTask => groups[j] \in Task
    <3>1. groups \in [Key -> TaskOrNone] /\ j \in Key
      BY Zenon DEF IInv, TypeOK
    <3> QED
      BY <3>1, Zenon DEF TaskOrNone
  <2>2. groups[j] # NoTask => Aside(groups[j])
    BY <2>1, Zenon
  <2> QED
    BY <2>2, KeyAside, Zenon DEF OutcomeInv
<1>2. ASSUME NEW u \in Task \ T PROVE TaskStep(u)
  <2> DEFINE j == KeyOf[u]
  <2>1. j \in Key /\ LifeInv(u) /\ Aside(u) /\ (groups[j] = u => j \notin K)
    BY Zenon DEF OutcomeInv
  <2>2. groups[j] = u => /\ AsideKey(j)
                         /\ \/ phase = "running" /\ j \in queued_set /\ Started(j)
                            \/ Left(j, queued_set, active, cancelled)
    BY <2>1, Zenon
  <2>3. groups[j] = u => (j \in paused_set' <=> j \in paused_set)
    BY <2>2, Zenon DEF AsideKey
  <2>4. \/ status'[u] = status[u]
        \/ status'[u] = "Transmission" /\ groups'[j] = u /\ j \in queued_set /\ Started(j)
    BY Zenon
  <2> QED
    BY <2>1, <2>2, <2>3, <2>4, TaskAside, Zenon
<1> QED
  BY <1>1, <1>2, Zenon

\* The keys K and the tasks T are all that the handler is about: what it gives
\* to try_start_next is as before for everything else.
Concerns(K, T, qs, a, c, st) ==
  /\ \A j \in Key \ K : /\ AsideKey(j) /\ groups[j] \notin T
                        /\ j \in qs <=> j \in queued_set
                        /\ j \in a <=> j \in active
                        /\ j \in c <=> j \in cancelled
  /\ \A u \in Task \ T : /\ Aside(u) /\ st[u] = status[u]
                         /\ groups[KeyOf[u]] = u => KeyOf[u] \notin K

\* Handlers that end in try_start_next preserve the invariants of all others.
LEMMA Bystanders ==
  ASSUME IInv, IInv', OutcomeInv, phase = "running", phase' = "running", NEW K, NEW T,
         NEW q, NEW qs \in SUBSET Key, NEW a, NEW n, NEW c, NEW st,
         TryStartNext(q, qs, a, n, c, st), Elements(q) \subseteq qs,
         Concerns(K, T, qs, a, c, st)
  PROVE  /\ \A j \in Key \ K : KeyStep(j)
         /\ \A u \in Task \ T : TaskStep(u)
<1>2. ASSUME NEW j \in Key \ K
      PROVE  (j \in queued_set /\ Started(j)) \/ Left(j, queued_set, active, cancelled)
  <2>1. (j \in qs /\ j \notin a /\ Started(j)) \/ Left(j, qs, a, c)
    BY ScheduledKey, Zenon
  <2>2. Left(j, qs, a, c) => Left(j, queued_set, active, cancelled)
    BY Zenon DEF Left, Concerns
  <2> QED
    BY <2>1, <2>2, Zenon DEF Concerns
<1>3. ASSUME NEW u \in Task \ T
      PROVE  /\ Aside(u) /\ (groups[KeyOf[u]] = u => KeyOf[u] \notin K)
             /\ \/ status'[u] = status[u]
                \/ /\ status'[u] = "Transmission" /\ groups'[KeyOf[u]] = u
                   /\ KeyOf[u] \in queued_set /\ Started(KeyOf[u])
  <2> DEFINE j == KeyOf[u]
  <2>1. j \in Key /\ Aside(u) /\ st[u] = status[u] /\ (groups[j] = u => j \notin K)
    BY Zenon DEF Concerns
  <2>2. \/ status'[u] = st[u]
        \/ /\ status'[u] = "Transmission"
           /\ groups'[j] = u /\ j \in qs /\ Started(j)
    BY ScheduledTask, Zenon
  <2>3. groups'[j] = u => groups[j] = u
    BY <2>1, Zenon DEF Aside
  <2>4. groups[j] = u => (j \in qs <=> j \in queued_set)
    BY <2>1, Zenon DEF Concerns
  <2> QED
    BY <2>1, <2>2, <2>3, <2>4, Zenon
<1>4. \A j \in Key \ K : AsideKey(j) /\ groups[j] \notin T
  BY Zenon DEF Concerns
<1> QED
  BY <1>2, <1>3, <1>4, Others, Zenon

\* The same for a handler that does not schedule.
Aloof(K, T) ==
  /\ \A j \in Key \ K :
       AsideKey(j) /\ groups[j] \notin T /\ Left(j, queued_set, active, cancelled)
  /\ \A u \in Task \ T : /\ Aside(u) /\ status'[u] = status[u]
                         /\ groups[KeyOf[u]] = u => KeyOf[u] \notin K

\* Handlers that do not schedule preserve the invariants of all others.
LEMMA Unscheduled ==
  ASSUME IInv, OutcomeInv, phase' = phase, phase \in {"running", "closing"},
         NEW K, NEW T, Aloof(K, T)
  PROVE  /\ \A j \in Key \ K : KeyStep(j)
         /\ \A u \in Task \ T : TaskStep(u)
<1>1. \A j \in Key \ K :
        /\ AsideKey(j)
        /\ \/ phase = "running" /\ j \in queued_set /\ Started(j)
           \/ Left(j, queued_set, active, cancelled)
  BY Zenon DEF Aloof
<1>2. \A u \in Task \ T :
        /\ Aside(u) /\ (groups[KeyOf[u]] = u => KeyOf[u] \notin K)
        /\ \/ status'[u] = status[u]
           \/ /\ status'[u] = "Transmission" /\ groups'[KeyOf[u]] = u
              /\ KeyOf[u] \in queued_set /\ Started(KeyOf[u])
  BY Zenon DEF Aloof
<1>3. \A j \in Key \ K : groups[j] \notin T
  BY Zenon DEF Aloof
<1> QED
  BY <1>1, <1>2, <1>3, Others, Zenon

-----------------------------------------------------------------------------
\* A control command that is refused only schedules.
LEMMA RefuseOutcome ==
  ASSUME IInv, IInv', OutcomeInv, NEW t \in Task, RefuseControl(t)
  PROVE  Preserved
<1>1. /\ phase = "running"
      /\ UNCHANGED <<groups, mapped, paused_set, canceling_set, offsets,
                     known_totals, phase, terminal, outbox, worker_rx, submitted,
                     cancel_ok, acked, aborted>>
      /\ TryStartNext(queued, queued_set, active, active_count, cancelled, status)
  BY Zenon DEF RefuseControl
<1>2. queued_set \in SUBSET Key /\ Elements(queued) \subseteq queued_set
  BY Zenon DEF IInv, TypeOK, QueueMirror, Elements
<1>3. Concerns({}, {}, queued_set, active, cancelled, status)
  BY <1>1, Zenon DEF Concerns, AsideKey, Aside, Answer
<1>4. phase = "running" /\ phase' = "running"
  BY <1>1, Zenon
<1>5. (\A j \in Key \ {} : KeyStep(j)) /\ (\A u \in Task \ {} : TaskStep(u))
  BY <1>1, <1>2, <1>3, <1>4, Bystanders, Zenon
<1> QED
  BY <1>5, Zenon DEF Preserved

\* The id of a command names the leader of its group.
LEMMA MappedLeader ==
  ASSUME IInv, NEW t \in Task, t \in mapped
  PROVE  /\ KeyOf[t] \in Key /\ groups[KeyOf[t]] = t /\ t # NoTask /\ t \in submitted
         /\ KeyOf[t] \notin canceling_set
  BY DEF IInv, Bookkeeping, Live

\* A handler about one task and its key: the rest is left to it.
LEMMA OneOfEach ==
  ASSUME NEW k \in Key, NEW t \in Task, KeyStep(k), TaskStep(t),
         \A j \in Key \ {k} : KeyStep(j), \A u \in Task \ {t} : TaskStep(u)
  PROVE  Preserved
  BY Zenon DEF Preserved

\* A task that was queued is Pending, or has a worker and says Transmission.
LEMMA PendingTask ==
  ASSUME NEW t \in Task, t \in submitted', groups'[KeyOf[t]] = t, phase' = "running",
         KeyOf[t] \notin paused_set', t \notin acked',
         status[t] \in {"None", "Paused"},
         status'[t] = "Pending" \/ (status'[t] = "Transmission" /\ Started(KeyOf[t]))
  PROVE  TaskStep(t)
<1>1. MayFollow(status[t], status'[t])
  BY Zenon DEF MayFollow
<1>2. Shown(t)' /\ Earned(t)'
  BY Zenon DEF Shown, Earned, Started
<1> QED
  BY <1>1, <1>2, Zenon DEF TaskStep, LifeInv

\* Enqueue of a key that is free.
LEMMA EnqueueOutcome ==
  ASSUME IInv, IInv', OutcomeInv, NEW t \in Task, Enqueue(t)
  PROVE  Preserved
<1> DEFINE k  == KeyOf[t]
           q  == Append(queued, k)
           qs == queued_set \cup {k}
           st == [status EXCEPT ![t] = "Pending"]
<1>1. /\ k \in Key /\ phase = "running" /\ t \notin submitted /\ groups[k] = NoTask
      /\ submitted' = submitted \cup {t} /\ groups' = [groups EXCEPT ![k] = t]
      /\ UNCHANGED <<paused_set, canceling_set, phase, terminal, outbox, worker_rx,
                     cancel_ok, acked, aborted>>
  BY Zenon DEF Enqueue
<1>2. k \notin active /\ k \notin queued_set /\ k \notin paused_set
  BY <1>1, Zenon DEF IInv, Bookkeeping, Live
<1>3. TryStartNext(q, qs, active, active_count, cancelled, st)
  BY <1>2, Zenon DEF Enqueue
<1>4. qs \in SUBSET Key /\ Elements(q) \subseteq qs
  BY <1>1, <1>2, QueueFacts, Zenon DEF IInv, TypeOK
<1>5. groups'[k] = t /\ t # NoTask /\ st[t] = "Pending"
      /\ \A j \in Key \ {k} : groups'[j] = groups[j]
      /\ \A u \in Task \ {t} : st[u] = status[u]
  BY <1>1, Zenon DEF IInv, TypeOK
<1>6. Concerns({k}, {t}, qs, active, cancelled, st)
  <2>1. ASSUME NEW j \in Key \ {k} PROVE groups[j] # t /\ AsideKey(j)
    BY <1>1, <1>5, Zenon DEF AsideKey, Answer, IInv, Bookkeeping, Live
  <2>2. ASSUME NEW u \in Task \ {t}
        PROVE  Aside(u) /\ (groups[KeyOf[u]] = u => KeyOf[u] # k)
    BY <1>1, <1>5, Zenon DEF Aside
  <2> QED
    BY <1>5, <2>1, <2>2 DEF Concerns
<1> HIDE DEF q, qs, st
<1>7. (\A j \in Key \ {k} : KeyStep(j)) /\ (\A u \in Task \ {t} : TaskStep(u))
  <2>1. phase = "running" /\ phase' = "running"
    BY <1>1, Zenon
  <2> QED
    BY <1>3, <1>4, <1>6, <2>1, Bystanders, Zenon
<1>8. KeyStep(k)
  <2>1. Unseen(t) /\ KeyInv(k)
    BY <1>1, Zenon DEF OutcomeInv, LifeInv
  <2>2. k \notin canceling_set' /\ \A type \in TerminalEvent : ~Answer(k, type)'
    BY <1>1, <1>2, NoAnswerIdle, Zenon DEF Answer
  <2>3. worker[k] = "none" /\ runner[k] = NoTask
    BY <1>2, <2>1, NoAnswerIdle, Zenon DEF KeyInv
  <2>4. IdleGate(k)' /\ phase' \in {"running", "closing"}
    BY <1>1, <1>5, <2>1 DEF IdleGate, Unseen
  <2>5. Started(k) \/ (Left(k, qs, active, cancelled) /\ k \notin active)
    BY <1>1, <1>2, <1>3, <1>4, ScheduledKey, Zenon
  <2> QED
    BY <1>1, <2>2, <2>3, <2>4, <2>5, IdleKey, Zenon
<1>9. TaskStep(t)
  <2>1. Unseen(t)
    BY <1>1, Zenon DEF OutcomeInv, LifeInv
  <2>3. status'[t] = st[t] \/ (status'[t] = "Transmission" /\ Started(k))
    BY <1>3, <1>4, ScheduledTask, Zenon
  <2>4. status[t] \in {"None", "Paused"} /\ t \notin acked' /\ t \in submitted'
        /\ k \notin paused_set' /\ phase' = "running"
    BY <1>1, <1>2, <2>1, Zenon DEF Unseen
  <2> QED
    BY <1>5, <2>3, <2>4, PendingTask, Zenon
<1> QED
  BY <1>1, <1>7, <1>8, <1>9, OneOfEach, Zenon

\* Resume of a paused task whose worker has stopped.
LEMMA ResumeOutcome ==
  ASSUME IInv, IInv', OutcomeInv, NEW t \in Task, Resume(t)
  PROVE  Preserved
<1> DEFINE k  == KeyOf[t]
           q  == Append(queued, k)
           qs == queued_set \cup {k}
           st == [status EXCEPT ![t] = "Pending"]
<1>1. /\ phase = "running" /\ t \in mapped /\ k \in paused_set /\ k \notin active
      /\ paused_set' = paused_set \ {k}
      /\ UNCHANGED <<groups, canceling_set, phase, terminal, outbox, worker_rx,
                     submitted, cancel_ok, acked, aborted>>
  BY Zenon DEF Resume, MayResume
<1>2. /\ k \in Key /\ groups[k] = t /\ t # NoTask /\ t \in submitted /\ k \notin queued_set
      /\ k \notin canceling_set
  BY <1>1, MappedLeader, Zenon DEF IInv, Bookkeeping
<1>3. TryStartNext(q, qs, active, active_count, cancelled, st)
  BY <1>2, Zenon DEF Resume
<1>4. qs \in SUBSET Key /\ Elements(q) \subseteq qs
  BY <1>2, QueueFacts, Zenon DEF IInv, TypeOK
<1>5. st[t] = "Pending" /\ \A u \in Task \ {t} : st[u] = status[u]
  BY Zenon DEF IInv, TypeOK
<1>6. Concerns({k}, {t}, qs, active, cancelled, st)
  <2>1. ASSUME NEW j \in Key \ {k} PROVE groups[j] # t /\ AsideKey(j)
    BY <1>1, <1>2, Zenon DEF AsideKey, Answer, IInv, Bookkeeping, Live
  <2>2. ASSUME NEW u \in Task \ {t}
        PROVE  Aside(u) /\ (groups[KeyOf[u]] = u => KeyOf[u] # k)
    BY <1>1, <1>2, Zenon DEF Aside
  <2> QED
    BY <1>5, <2>1, <2>2, Zenon DEF Concerns
<1> HIDE DEF q, qs, st
<1>7. (\A j \in Key \ {k} : KeyStep(j)) /\ (\A u \in Task \ {t} : TaskStep(u))
  <2>1. phase = "running" /\ phase' = "running"
    BY <1>1, Zenon
  <2> QED
    BY <1>3, <1>4, <1>6, <2>1, Bystanders, Zenon
<1>8. IdleGate(k) /\ runner[k] = NoTask /\ status[t] = "Paused"
  <2>1. KeyInv(k) /\ LifeInv(t) /\ worker[k] = "none"
    BY <1>1, <1>2, NoAnswerIdle, Zenon DEF OutcomeInv
  <2> QED
    BY <1>1, <1>2, <2>1, Zenon DEF KeyInv, LifeInv, Shown
<1>9. KeyStep(k)
  <2>1. k \notin canceling_set' /\ \A type \in TerminalEvent : ~Answer(k, type)'
    BY <1>1, <1>2, NoAnswerIdle, ZenonT(60) DEF Answer
  <2>2. IdleGate(k)' /\ phase' \in {"running", "closing"}
    BY <1>1, <1>8, Zenon DEF IdleGate
  <2>3. Started(k) \/ (Left(k, qs, active, cancelled) /\ k \notin active)
    BY <1>1, <1>2, <1>3, <1>4, ScheduledKey, Zenon
  <2> QED
    BY <1>2, <1>8, <2>1, <2>2, <2>3, IdleKey, Zenon
<1>10. TaskStep(t)
  <2>2. status'[t] = st[t] \/ (status'[t] = "Transmission" /\ Started(k))
    BY <1>3, <1>4, ScheduledTask, Zenon
  <2>3. t \notin acked' /\ t \in submitted' /\ k \notin paused_set' /\ phase' = "running"
        /\ groups'[k] = t
    BY <1>1, <1>2, <1>8, Zenon DEF IdleGate
  <2> QED
    BY <1>5, <1>8, <2>2, <2>3, PendingTask, Zenon
<1> QED
  BY <1>2, <1>7, <1>9, <1>10, OneOfEach, Zenon

\* A task that is enqueued paused, and a duplicate, which is turned away.
LEMMA EnqueuePausedOutcome ==
  ASSUME IInv, IInv', OutcomeInv, NEW t \in Task, EnqueuePaused(t)
  PROVE  Preserved
<1> DEFINE k == KeyOf[t]
<1>1. /\ k \in Key /\ phase = "running" /\ t \notin submitted /\ groups[k] = NoTask
      /\ submitted' = submitted \cup {t} /\ groups' = [groups EXCEPT ![k] = t]
      /\ paused_set' = paused_set \cup {k} /\ status' = [status EXCEPT ![t] = "Paused"]
      /\ UNCHANGED <<queued_set, canceling_set, active, phase, terminal, cancelled,
                     worker, runner, outbox, worker_rx, cancel_ok, acked, aborted>>
  BY Zenon DEF EnqueuePaused, workVars
<1>2. k \notin active /\ k \notin queued_set
  BY <1>1, Zenon DEF IInv, Bookkeeping, Live
<1>3. groups'[k] = t /\ t # NoTask /\ status'[t] = "Paused"
      /\ \A j \in Key \ {k} : groups'[j] = groups[j]
      /\ \A u \in Task \ {t} : status'[u] = status[u]
  BY <1>1, Zenon DEF IInv, TypeOK
<1>4. Unseen(t) /\ KeyInv(k) /\ worker[k] = "none"
      /\ k \notin canceling_set /\ \A type \in TerminalEvent : ~Answer(k, type)
  BY <1>1, <1>2, NoAnswerIdle, Zenon DEF OutcomeInv, LifeInv
<1>5. (\A j \in Key \ {k} : KeyStep(j)) /\ (\A u \in Task \ {t} : TaskStep(u))
  <2>1. ASSUME NEW j \in Key \ {k}
        PROVE  AsideKey(j) /\ Left(j, queued_set, active, cancelled) /\ groups[j] # t
    BY <1>1, <1>3, ZenonT(60) DEF AsideKey, Answer, Left, IInv, Bookkeeping, Live
  <2>2. ASSUME NEW u \in Task \ {t}
        PROVE  Aside(u) /\ (groups[KeyOf[u]] = u => KeyOf[u] # k) /\ status'[u] = status[u]
    BY <1>1, <1>3 DEF Aside
  <2>3. phase' = phase /\ phase \in {"running", "closing"}
    BY <1>1, Zenon
  <2>4. Aloof({k}, {t})
    BY <2>1, <2>2, Zenon DEF Aloof
  <2> QED
    BY <2>3, <2>4, Unscheduled, Zenon
<1>6. KeyStep(k)
  <2>1. IdleGate(k)' /\ Left(k, queued_set, active, cancelled)
    <3>1. Left(k, queued_set, active, cancelled)
      BY <1>1, <1>2, <1>3, Zenon DEF Left
    <3>2. IdleGate(k)'
      BY <1>1, <1>3, <1>4 DEF IdleGate, Unseen
    <3> QED
      BY <3>1, <3>2, Zenon
  <2>2. k \notin canceling_set' /\ (\A type \in TerminalEvent : ~Answer(k, type)')
        /\ runner[k] = NoTask /\ phase' \in {"running", "closing"}
    BY <1>1, <1>4, Zenon DEF Answer, KeyInv
  <2> QED
    BY <1>1, <1>2, <2>1, <2>2, IdleKey, Zenon
<1>7. TaskStep(t)
  BY <1>1, <1>2, <1>3, <1>4, Zenon DEF TaskStep, LifeInv, Shown, Earned, Unseen, MayFollow
<1> QED
  BY <1>1, <1>5, <1>6, <1>7, OneOfEach, Zenon

\* A duplicate is turned away with its one record.
LEMMA DuplicateOutcome ==
  ASSUME IInv, IInv', OutcomeInv, NEW t \in Task, EnqueueDuplicate(t)
  PROVE  Preserved
<1>1. /\ phase = "running" /\ t \notin submitted
      /\ submitted' = submitted \cup {t} /\ status' = [status EXCEPT ![t] = "Duplicate"]
      /\ UNCHANGED <<groups, paused_set, queued_set, canceling_set, active, phase, terminal,
                     cancelled, worker, runner, outbox, worker_rx, cancel_ok, acked, aborted>>
  BY Zenon DEF EnqueueDuplicate, workVars, schedVars
<1>2. status'[t] = "Duplicate" /\ \A u \in Task \ {t} : status'[u] = status[u]
  BY <1>1, Zenon DEF IInv, TypeOK
<1>3. \A j \in Key : groups[j] # t
  <2>1. \A j \in Live : groups[j] \in submitted
    BY Zenon DEF IInv, Bookkeeping
  <2> QED
    BY <1>1, <2>1, Zenon DEF Live
<1>4. (\A j \in Key \ {} : KeyStep(j)) /\ (\A u \in Task \ {t} : TaskStep(u))
  <2>1. ASSUME NEW j \in Key \ {}
        PROVE  AsideKey(j) /\ Left(j, queued_set, active, cancelled) /\ groups[j] # t
    BY <1>1, <1>3, Zenon DEF AsideKey, Answer, Left, IInv, Bookkeeping, Live
  <2>2. ASSUME NEW u \in Task \ {t}
        PROVE  Aside(u) /\ (groups[KeyOf[u]] = u => KeyOf[u] \notin {}) /\ status'[u] = status[u]
    BY <1>1, <1>2, Zenon DEF Aside
  <2>3. phase' = phase /\ phase \in {"running", "closing"}
    BY <1>1, Zenon
  <2>4. Aloof({}, {t})
    BY <2>1, <2>2, Zenon DEF Aloof
  <2> QED
    BY <2>3, <2>4, Unscheduled, Zenon
<1>5. TaskStep(t)
  <2>1. Unseen(t) /\ KeyOf[t] \in Key
    BY <1>1, Zenon DEF OutcomeInv, LifeInv
  <2> QED
    BY <1>1, <1>2, <1>3, <2>1, Zenon DEF TaskStep, LifeInv, Earned, Unseen, MayFollow, Ended
<1> QED
  BY <1>4, <1>5, Zenon DEF Preserved

-----------------------------------------------------------------------------
\* What a pause or a cancel does at the gate of a running worker.
LEMMA StopAtGate ==
  ASSUME NEW s \in GateState
  PROVE  /\ BeginPause(s) \in Claimed <=> s \in Claimed
         /\ BeginCancel(s) \in Claimed <=> s \in Claimed
         /\ s \in {OPEN, COMPLETING, PAUSING, COMPLETING_PAUSE_PENDING}
              => BeginPause(s) \in {PAUSING, COMPLETING_PAUSE_PENDING}
         /\ s \in {OPEN, PAUSING} <=> BeginPause(s) = PAUSING
         /\ InterruptNow(s) <=> s \notin Claimed
  BY Zenon DEF BeginPause, BeginCancel, InterruptNow, Claimed, GateState, OPEN, COMPLETING,
     CANCELING, PAUSING, COMPLETING_CANCEL_PENDING, COMPLETING_PAUSE_PENDING

\* A command for a key with a worker does not change what the worker has done.
WorkerUntouched(k) ==
  /\ groups'[k] = groups[k] /\ groups[k] \in Task
  /\ worker'[k] = worker[k]
  /\ groups[k] \in acked' <=> groups[k] \in acked
  /\ groups[k] \in aborted' <=> groups[k] \in aborted
  /\ \A type \in TerminalEvent : Answer(k, type)' <=> Answer(k, type)

\* A worker told to pause: gate and token agree on who wins.
LEMMA PausedWorker ==
  ASSUME IInv, NEW k \in Key, k \notin canceling_set, ActiveGate(k), WorkerUntouched(k),
         k \in paused_set', k \notin canceling_set',
         terminal'[groups[k]] = BeginPause(terminal[groups[k]]),
         k \in cancelled' <=> k \in cancelled \/ InterruptNow(terminal[groups[k]])
  PROVE  ActiveGate(k)'
<1> DEFINE s == terminal[groups[k]]
<1>1. s \in GateState /\ terminal'[groups'[k]] = BeginPause(s)
  BY Zenon DEF IInv, TypeOK, WorkerUntouched
<1>2. AnswerGate(k)'
  <2>1. AnswerGate(k)
    BY Zenon DEF ActiveGate
  <2>2. s = PAUSING => BeginPause(s) = PAUSING
    BY <1>1, StopAtGate, Zenon
  <2> HIDE DEF s
  <2>3. Answer(k, "Canceled") => s = PAUSING
    BY <2>1, Zenon DEF AnswerGate, s
  <2> QED
    BY <1>1, <2>1, <2>2, <2>3, Zenon DEF AnswerGate, WorkerUntouched, TerminalEvent
<1>3. ASSUME worker'[k] \in Running PROVE RunningGate(k)'
  <2>1. RunningGate(k)
    BY <1>3, Zenon DEF ActiveGate, WorkerUntouched
  <2>2. s \in {OPEN, COMPLETING, PAUSING, COMPLETING_PAUSE_PENDING}
    BY <2>1, Zenon DEF RunningGate
  <2>3. BeginPause(s) \in {PAUSING, COMPLETING_PAUSE_PENDING}
        /\ (BeginPause(s) \in Claimed <=> s \in Claimed)
    BY <1>1, <2>2, StopAtGate, Zenon
  <2>4. k \in cancelled => s = PAUSING
    BY <2>1, Zenon DEF RunningGate
  <2>5. InterruptNow(s) \/ s = PAUSING => BeginPause(s) = PAUSING
    BY <2>2, Zenon DEF BeginPause, InterruptNow, Claimed, OPEN, COMPLETING, PAUSING,
       COMPLETING_PAUSE_PENDING, COMPLETING_CANCEL_PENDING
  <2>6. k \in cancelled' => BeginPause(s) = PAUSING
    BY <2>4, <2>5, Zenon
  <2> QED
    BY <1>1, <2>1, <2>3, <2>6, Zenon DEF RunningGate, WorkerUntouched
<1> QED
  BY <1>2, <1>3, Zenon DEF ActiveGate

\* A worker told to cancel, even after a pause.
LEMMA CanceledWorker ==
  ASSUME IInv, NEW k \in Key, ActiveGate(k), WorkerUntouched(k),
         k \notin paused_set', k \in canceling_set', groups[k] \in cancel_ok',
         terminal'[groups[k]] = BeginCancel(terminal[groups[k]])
  PROVE  ActiveGate(k)'
<1> DEFINE s == terminal[groups[k]]
<1>1. s \in GateState /\ terminal'[groups'[k]] = BeginCancel(s)
  BY Zenon DEF IInv, TypeOK, WorkerUntouched
<1>2. AnswerGate(k)'
  BY Zenon DEF ActiveGate, AnswerGate, WorkerUntouched, TerminalEvent
<1>3. ASSUME worker'[k] \in Running PROVE RunningGate(k)'
  <2>1. RunningGate(k) /\ (BeginCancel(s) \in Claimed <=> s \in Claimed)
    BY <1>1, <1>3, StopAtGate, Zenon DEF ActiveGate, WorkerUntouched
  <2> QED
    BY <1>1, <2>1, Zenon DEF RunningGate, WorkerUntouched
<1> QED
  BY <1>2, <1>3, Zenon DEF ActiveGate, WorkerUntouched

\* Pause, of a waiting task and of one with a worker.
LEMMA PauseOutcome ==
  ASSUME IInv, IInv', OutcomeInv, NEW t \in Task, Pause(t), Filtering(KeyOf[t])
  PROVE  Preserved
<1> DEFINE k  == KeyOf[t]
           q  == Unqueued(k)
           qs == queued_set \ {k}
           c  == IF k \in active /\ InterruptNow(terminal[t]) THEN cancelled \cup {k}
                 ELSE cancelled
           st == IF k \in active THEN status ELSE [status EXCEPT ![t] = "Paused"]
<1>1. /\ phase = "running" /\ t \in mapped
      /\ paused_set' = paused_set \cup {k}
      /\ UNCHANGED <<groups, canceling_set, phase, outbox, worker_rx,
                     submitted, cancel_ok, acked, aborted>>
  BY Zenon DEF Pause
<1>2. /\ k \in Key /\ groups[k] = t /\ t # NoTask /\ t \in submitted /\ k \notin canceling_set
      /\ KeyInv(k) /\ LifeInv(t)
  BY <1>1, MappedLeader, Zenon DEF OutcomeInv
<1>3. TryStartNext(q, qs, active, active_count, c, st)
  BY <1>2, Zenon DEF Pause, WasActive
<1>4. qs \in SUBSET Key /\ Elements(q) \subseteq qs
  BY <1>2, Zenon DEF IInv, TypeOK, Filtering
<1>5. /\ \A u \in Task \ {t} : st[u] = status[u] /\ terminal'[u] = terminal[u]
      /\ terminal'[t] = IF k \in active THEN BeginPause(terminal[t]) ELSE terminal[t]
  BY <1>2, Zenon DEF IInv, TypeOK, Pause, WasActive
<1>6. Concerns({k}, {t}, qs, active, c, st)
  <2>1. ASSUME NEW j \in Key \ {k} PROVE groups[j] # t /\ AsideKey(j)
    BY <1>1, <1>2, Zenon DEF AsideKey, Answer, IInv, Bookkeeping, Live
  <2>2. ASSUME NEW u \in Task \ {t}
        PROVE  Aside(u) /\ (groups[KeyOf[u]] = u => KeyOf[u] # k)
    BY <1>1, <1>2, <1>5, Zenon DEF Aside
  <2> QED
    BY <1>5, <2>1, <2>2, Zenon DEF Concerns
<1>7. (\A j \in Key \ {k} : KeyStep(j)) /\ (\A u \in Task \ {t} : TaskStep(u))
  <2>1. phase = "running" /\ phase' = "running"
    BY <1>1, Zenon
  <2> HIDE DEF q, qs, st, c
  <2> QED
    BY <1>3, <1>4, <1>6, <2>1, Bystanders, Zenon
<1>8. Left(k, qs, active, c) /\ status'[t] = st[t]
  <2>1. k \in paused_set' /\ k \notin qs
    BY <1>1, Zenon
  <2> HIDE DEF q, qs, st, c
  <2>2. Left(k, qs, active, c)
    BY <1>2, <1>3, <1>4, <2>1, ScheduledKey, Zenon
  <2>3. status'[t] = st[t]
    <3>1. Schedules(q, qs, active, active_count, c, st)
      BY <1>3, <1>4, Zenon DEF Schedules
    <3> QED
      BY <2>1, <3>1, UnqueuedTask, ZenonT(60)
  <2> QED
    BY <2>2, <2>3, Zenon
<1>9. CASE k \notin active
  <2>1. IdleGate(k) /\ runner[k] = NoTask /\ k \notin canceling_set'
        /\ \A type \in TerminalEvent : ~Answer(k, type)'
    BY <1>1, <1>2, <1>9, NoAnswerIdle, ZenonT(60) DEF KeyInv, Answer
  <2>2. KeyStep(k)
    <3>1. IdleGate(k)' /\ phase' \in {"running", "closing"}
      BY <1>1, <1>2, <1>5, <1>9, <2>1, Zenon DEF IdleGate
    <3> QED
      BY <1>2, <1>8, <1>9, <2>1, <3>1, IdleKey, Zenon
  <2>3. status[t] \in {"Pending", "Paused"} /\ status'[t] = "Paused"
    <3>1. k \in queued_set \/ k \in paused_set
      BY <1>2, <1>9, Zenon DEF IInv, Bookkeeping, Live
    <3>2. status'[t] = "Paused"
      BY <1>8, <1>9, Zenon DEF IInv, TypeOK
    <3> QED
      BY <1>1, <1>2, <1>9, <3>1, <3>2, Zenon DEF LifeInv, Shown
  <2>4. TaskStep(t)
    <3>1. k \notin active' /\ k \notin queued_set' /\ t \notin acked'
      BY <1>1, <1>2, <1>8, <1>9, <2>1, Zenon DEF Left, IdleGate
    <3>2. MayFollow(status[t], status'[t])
      BY <2>3, Zenon DEF MayFollow
    <3> QED
      BY <1>1, <1>2, <2>3, <3>1, <3>2, Zenon DEF TaskStep, LifeInv, Shown, Earned
  <2> QED
    BY <1>2, <1>7, <2>2, <2>4, OneOfEach, Zenon
<1>10. CASE k \in active
  <2>1. ActiveGate(k) /\ WorkerUntouched(k)
    BY <1>1, <1>2, <1>8, <1>10, Zenon DEF KeyInv, WorkerUntouched, Left, Answer
  <2>2. k \in cancelled' <=> k \in cancelled \/ InterruptNow(terminal[groups[k]])
    BY <1>2, <1>8, <1>10, Zenon DEF Left
  <2>3. ActiveGate(k)'
    BY <1>1, <1>2, <1>5, <1>10, <2>1, <2>2, PausedWorker, Zenon
  <2>4. KeyStep(k)
    BY <1>1, <1>2, <1>8, <1>10, <2>3, Zenon DEF KeyStep, KeyInv, Left
  <2>5. TaskStep(t)
    BY <1>1, <1>2, <1>8, <1>10, Zenon DEF TaskStep, LifeInv, Shown, Earned, Left, MayFollow
  <2> QED
    BY <1>2, <1>7, <2>4, <2>5, OneOfEach, Zenon
<1> QED
  BY <1>9, <1>10, Zenon

\* Cancel of a task with a worker: the worker will end it.
LEMMA CancelActiveOutcome ==
  ASSUME IInv, IInv', OutcomeInv, NEW t \in Task, CancelActive(t), Filtering(KeyOf[t])
  PROVE  Preserved
<1> DEFINE k  == KeyOf[t]
           q  == Unqueued(k)
           qs == queued_set \ {k}
           c  == IF InterruptNow(terminal[t]) THEN cancelled \cup {k} ELSE cancelled
<1>1. /\ phase = "running" /\ t \in mapped /\ k \in active
      /\ paused_set' = paused_set \ {k}
      /\ canceling_set' = canceling_set \cup {k}
      /\ cancel_ok' = cancel_ok \cup {t}
      /\ UNCHANGED <<groups, phase, outbox, worker_rx, submitted, acked, aborted>>
  BY Zenon DEF CancelActive, WasActive
<1>2. /\ k \in Key /\ groups[k] = t /\ t # NoTask /\ t \in submitted
      /\ KeyInv(k) /\ LifeInv(t)
  BY <1>1, MappedLeader, Zenon DEF OutcomeInv
<1>3. TryStartNext(q, qs, active, active_count, c, status)
  BY <1>2, Zenon DEF CancelActive
<1>4. qs \in SUBSET Key /\ Elements(q) \subseteq qs
  BY <1>2, Zenon DEF IInv, TypeOK, Filtering
<1>5. /\ \A u \in Task \ {t} : terminal'[u] = terminal[u]
      /\ terminal'[t] = BeginCancel(terminal[t])
  BY <1>2, Zenon DEF IInv, TypeOK, CancelActive
<1>6. Concerns({k}, {t}, qs, active, c, status)
  <2>1. ASSUME NEW j \in Key \ {k} PROVE groups[j] # t /\ AsideKey(j)
    BY <1>1, <1>2, Zenon DEF AsideKey, Answer, IInv, Bookkeeping, Live
  <2>2. ASSUME NEW u \in Task \ {t}
        PROVE  Aside(u) /\ (groups[KeyOf[u]] = u => KeyOf[u] # k)
    BY <1>1, <1>2, <1>5, Zenon DEF Aside
  <2> QED
    BY <2>1, <2>2, Zenon DEF Concerns
<1> HIDE DEF q, qs, c
<1>7. (\A j \in Key \ {k} : KeyStep(j)) /\ (\A u \in Task \ {t} : TaskStep(u))
  <2>1. phase = "running" /\ phase' = "running"
    BY <1>1, Zenon
  <2> QED
    BY <1>3, <1>4, <1>6, <2>1, Bystanders, Zenon
<1>8. Left(k, qs, active, c) /\ status'[t] = status[t]
  <2>1. k \notin qs
    BY Zenon DEF qs
  <2> QED
    <3>1. Left(k, qs, active, c)
      BY <1>2, <1>3, <1>4, <2>1, ScheduledKey, Zenon
    <3>2. status'[t] = status[t]
      <4>1. Schedules(q, qs, active, active_count, c, status)
        BY <1>3, <1>4, Zenon DEF Schedules
      <4> QED
        BY <2>1, <4>1, UnqueuedTask, ZenonT(60)
    <3> QED
      BY <3>1, <3>2, Zenon
<1>9. ActiveGate(k)'
  <2>1. ActiveGate(k) /\ WorkerUntouched(k)
    BY <1>1, <1>2, <1>8, Zenon DEF KeyInv, WorkerUntouched, Left, Answer
  <2> QED
    BY <1>1, <1>2, <1>5, <2>1, CanceledWorker, Zenon
<1>10. KeyStep(k)
  BY <1>1, <1>2, <1>8, <1>9, Zenon DEF KeyStep, KeyInv, Left
<1>11. TaskStep(t)
  BY <1>1, <1>2, <1>8, Zenon DEF TaskStep, LifeInv, Shown, Earned, Left, MayFollow, qs
<1> QED
  BY <1>2, <1>7, <1>10, <1>11, OneOfEach, Zenon

\* Cancel of a task without a worker ends it at once.
LEMMA CancelIdleOutcome ==
  ASSUME IInv, IInv', OutcomeInv, NEW t \in Task, CancelIdle(t), Filtering(KeyOf[t])
  PROVE  Preserved
<1> DEFINE k  == KeyOf[t]
           q  == Unqueued(k)
           qs == queued_set \ {k}
           st == [status EXCEPT ![t] = "Canceled"]
<1>1. /\ phase = "running" /\ t \in mapped /\ k \notin active
      /\ paused_set' = paused_set \ {k}
      /\ canceling_set' = canceling_set \ {k}
      /\ cancel_ok' = cancel_ok \cup {t}
      /\ UNCHANGED <<phase, outbox, worker_rx, submitted, acked>>
  BY Zenon DEF CancelIdle, WasActive
<1>2. /\ k \in Key /\ groups[k] = t /\ t # NoTask /\ t \in submitted
      /\ KeyInv(k) /\ LifeInv(t)
  BY <1>1, MappedLeader, Zenon DEF OutcomeInv
<1>3. TryStartNext(q, qs, active, active_count, cancelled, st)
  BY <1>2, Zenon DEF CancelIdle
<1>4. qs \in SUBSET Key /\ Elements(q) \subseteq qs
  BY <1>2, Zenon DEF IInv, TypeOK, Filtering
<1>5. /\ \A u \in Task \ {t} : /\ terminal'[u] = terminal[u] /\ st[u] = status[u]
                               /\ u \in aborted' <=> u \in aborted
      /\ \A j \in Key \ {k} : groups'[j] = groups[j]
      /\ groups'[k] = NoTask /\ st[t] = "Canceled"
  BY <1>2, Zenon DEF IInv, TypeOK, CancelIdle, Abort
<1>6. Concerns({k}, {t}, qs, active, cancelled, st)
  <2>1. ASSUME NEW j \in Key \ {k} PROVE groups[j] # t /\ AsideKey(j)
    BY <1>1, <1>2, <1>5, ZenonT(60) DEF AsideKey, Answer, IInv, Bookkeeping, Live
  <2>2. ASSUME NEW u \in Task \ {t}
        PROVE  Aside(u) /\ (groups[KeyOf[u]] = u => KeyOf[u] # k)
    BY <1>1, <1>2, <1>5, ZenonT(60) DEF Aside
  <2> QED
    BY <1>5, <2>1, <2>2, Zenon DEF Concerns
<1>7. status[t] \in {"Pending", "Paused"} /\ t \notin acked
  <2>1. k \in queued_set \/ k \in paused_set
    BY <1>1, <1>2, Zenon DEF IInv, Bookkeeping, Live
  <2> QED
    BY <1>1, <1>2, <2>1, Zenon DEF LifeInv, Shown, KeyInv, IdleGate
<1> HIDE DEF q, qs, st
<1>8. (\A j \in Key \ {k} : KeyStep(j)) /\ (\A u \in Task \ {t} : TaskStep(u))
  <2>1. phase = "running" /\ phase' = "running"
    BY <1>1, Zenon
  <2> QED
    BY <1>3, <1>4, <1>6, <2>1, Bystanders, Zenon
<1>9. Left(k, qs, active, cancelled) /\ status'[t] = st[t]
  <2>1. k \notin qs
    BY Zenon DEF qs
  <2> QED
    <3>1. Left(k, qs, active, cancelled)
      BY <1>2, <1>3, <1>4, <2>1, ScheduledKey, Zenon
    <3>2. status'[t] = st[t]
      <4>1. Schedules(q, qs, active, active_count, cancelled, st)
        BY <1>3, <1>4, Zenon DEF Schedules
      <4> QED
        BY <2>1, <4>1, UnqueuedTask, ZenonT(60)
    <3> QED
      BY <3>1, <3>2, Zenon
<1>10. KeyStep(k)
  BY <1>2, <1>5, <1>9, Zenon DEF KeyStep, KeyInv, Left
<1>11. TaskStep(t)
  BY <1>1, <1>2, <1>5, <1>7, <1>9, Zenon DEF TaskStep, LifeInv, Earned, MayFollow, Ended
<1> QED
  BY <1>2, <1>8, <1>10, <1>11, OneOfEach, Zenon

-----------------------------------------------------------------------------
\* Close: workers are told to pause, the others are reported Paused.
LEMMA CloseOutcome ==
  ASSUME IInv, IInv', OutcomeInv, Close
  PROVE  Preserved
<1> DEFINE stopped == active \ canceling_set
<1>1. /\ phase = "running" /\ phase' = "closing" /\ paused_set' = paused_set \cup stopped
      /\ cancelled' = cancelled \cup (active \cap canceling_set)
                        \cup {k \in stopped : InterruptNow(terminal[groups[k]])}
      /\ UNCHANGED <<groups, queued_set, canceling_set, active, worker, runner, outbox,
                     worker_rx, submitted, cancel_ok, acked, aborted>>
  BY Zenon DEF Close
<1>2. \A k \in Key : groups[k] # NoTask => groups[k] \in Task /\ KeyOf[groups[k]] = k
  BY Zenon DEF IInv, TypeOK, TaskOrNone, Bookkeeping, Live
<1>3. active \subseteq Key /\ \A k \in active : groups[k] # NoTask
  BY Zenon DEF IInv, TypeOK, Bookkeeping, Live
<1>4. ASSUME NEW t \in Task
      PROVE  terminal'[t] = IF KeyOf[t] \in stopped /\ groups[KeyOf[t]] = t
                            THEN BeginPause(terminal[t]) ELSE terminal[t]
  <2>1. terminal'[t] = IF \E k \in stopped : groups[k] = t
                       THEN BeginPause(terminal[t]) ELSE terminal[t]
    BY Zenon DEF Close
  <2>2. (\E k \in stopped : groups[k] = t) <=> KeyOf[t] \in stopped /\ groups[KeyOf[t]] = t
    BY <1>2, <1>3, Zenon
  <2> QED
    BY <2>1, <2>2, Zenon
<1>5. ASSUME NEW t \in Task
      PROVE  status'[t] = IF KeyOf[t] \notin active /\ groups[KeyOf[t]] = t
                          THEN "Paused" ELSE status[t]
  <2>1. status'[t] = IF \E k \in Inactive : groups[k] = t THEN "Paused" ELSE status[t]
    BY Zenon DEF Close
  <2>2. (\E k \in Inactive : groups[k] = t) <=> KeyOf[t] \notin active /\ groups[KeyOf[t]] = t
    BY <1>2, Zenon DEF Inactive, Live
  <2> QED
    BY <2>1, <2>2, Zenon
<1>6. \A k \in Key, type \in TerminalEvent : Answer(k, type)' <=> Answer(k, type)
  BY <1>1, Zenon DEF Answer
<1>7. ASSUME NEW k \in Key PROVE KeyStep(k)
  <2>1. KeyInv(k)
    BY Zenon DEF OutcomeInv
  <2>2. CASE groups[k] = NoTask
    BY <1>1, <2>1, <2>2, Zenon DEF KeyStep, KeyInv
  <2>3. CASE groups[k] # NoTask /\ k \notin active
    <3>1. terminal'[groups[k]] = terminal[groups[k]]
      BY <1>2, <1>4, <2>3, Zenon
    <3> QED
      BY <1>1, <2>1, <2>3, <3>1, Zenon DEF KeyStep, KeyInv, IdleGate
  <2>4. CASE k \in active
    <3>1. groups[k] \in Task /\ KeyOf[groups[k]] = k /\ groups[k] # NoTask
      BY <1>2, <1>3, <2>4, Zenon
    <3>2. ActiveGate(k) /\ WorkerUntouched(k)
      BY <1>1, <1>6, <2>1, <2>4, <3>1, Zenon DEF KeyInv, WorkerUntouched
    <3>3. CASE k \in canceling_set
      <4>1. terminal'[groups[k]] = terminal[groups[k]] /\ k \notin paused_set'
        <5>1. k \notin paused_set
          BY <3>3, Zenon DEF IInv, Bookkeeping
        <5> QED
          BY <1>1, <1>4, <3>1, <3>3, <5>1, Zenon
      <4>2. AnswerGate(k)' /\ (worker'[k] \in Running => RunningGate(k)')
        BY <1>1, <1>6, <3>2, <3>3, <4>1, Zenon DEF ActiveGate, AnswerGate, RunningGate, TerminalEvent
      <4> QED
        BY <1>1, <2>1, <2>4, <3>2, <4>2, Zenon DEF KeyStep, KeyInv, ActiveGate
    <3>4. CASE k \notin canceling_set
      <4>1. k \in cancelled' <=> k \in cancelled \/ InterruptNow(terminal[groups[k]])
        BY <1>1, <2>4, <3>4, Zenon
      <4>2. terminal'[groups[k]] = BeginPause(terminal[groups[k]])
        BY <1>4, <2>4, <3>1, <3>4, Zenon
      <4>3. ActiveGate(k)'
        BY <1>1, <2>4, <3>2, <3>4, <4>1, <4>2, PausedWorker, Zenon
      <4> QED
        BY <1>1, <2>1, <2>4, <4>3, Zenon DEF KeyStep, KeyInv
    <3> QED
      BY <3>3, <3>4, Zenon
  <2> QED
    BY <2>2, <2>3, <2>4, Zenon
<1>8. ASSUME NEW t \in Task PROVE TaskStep(t)
  <2> DEFINE k == KeyOf[t]
  <2>1. LifeInv(t) /\ k \in Key
    BY Zenon DEF OutcomeInv
  <2>2. CASE groups[k] # t
    <3>1. status'[t] = status[t] /\ terminal'[t] = terminal[t]
      BY <1>4, <1>5, <2>2, Zenon
    <3> QED
      BY <1>1, <2>1, <2>2, <3>1, Zenon DEF TaskStep, LifeInv, Unseen, Earned, MayFollow
  <2>3. CASE groups[k] = t
    <3>1. t \in submitted /\ (k \in queued_set \/ k \in paused_set \/ k \in active)
          /\ (k \in queued_set => k \notin active)
      <4>1. Bookkeeping /\ t # NoTask
        BY Zenon DEF IInv
      <4>2. t \in submitted /\ k \in queued_set \cup paused_set \cup active
        BY <2>1, <2>3, <4>1, Zenon DEF Bookkeeping, Live
      <4>3. k \in queued_set => k \notin active
        BY <4>1, Zenon DEF Bookkeeping
      <4> QED
        BY <4>2, <4>3, Zenon
    <3>2. Shown(t)
      BY <2>1, <2>3, Zenon DEF LifeInv
    <3>3. CASE k \in active
      <4>1. status'[t] = status[t]
        BY <1>5, <3>3, Zenon
      <4> QED
        BY <1>1, <2>1, <2>3, <3>1, <3>2, <3>3, <4>1, Zenon
           DEF TaskStep, LifeInv, Shown, Earned, MayFollow
    <3>4. CASE k \notin active
      <4>1. status'[t] = "Paused" /\ status[t] \in {"Pending", "Paused"}
        BY <1>1, <1>5, <2>3, <3>1, <3>2, <3>4, Zenon DEF Shown
      <4>2. MayFollow(status[t], status'[t]) /\ Earned(t)'
        BY <1>1, <2>1, <4>1, Zenon DEF MayFollow, LifeInv, Earned
      <4> QED
        BY <1>1, <2>3, <3>1, <3>4, <4>1, <4>2, Zenon DEF TaskStep, LifeInv, Shown
    <3> QED
      BY <3>3, <3>4, Zenon
  <2> QED
    BY <2>2, <2>3, Zenon
<1> QED
  BY <1>7, <1>8, Zenon DEF Preserved

\* Leaving the loop: after Close everything has its last record.
LEMMA DiscardOutcome ==
  ASSUME IInv, IInv', OutcomeInv, CloseFinish \/ CommandChannelClosed
  PROVE  Preserved
<1>1. /\ groups' = [k \in Key |-> NoTask] /\ worker' = [k \in Key |-> "none"]
      /\ runner' = [k \in Key |-> NoTask]
      /\ UNCHANGED <<terminal, submitted, status, cancel_ok, acked, aborted>>
      /\ \/ phase = "closing" /\ active = {} /\ phase' = "closed"
         \/ phase' = "dropped"
  BY Zenon DEF CloseFinish, CommandChannelClosed, Discard, obsVars
<1>2. ASSUME NEW k \in Key PROVE KeyStep(k)
  BY <1>1, Zenon DEF KeyStep, KeyInv
<1>3. ASSUME NEW t \in Task PROVE TaskStep(t)
  <2>1. LifeInv(t) /\ KeyOf[t] \in Key /\ groups'[KeyOf[t]] # t
    BY <1>1, Zenon DEF OutcomeInv
  <2>2. phase' = "closed" /\ t \in submitted => status[t] \in Ended \cup {"Paused"}
    <3>1. groups[KeyOf[t]] = t => KeyOf[t] \in queued_set \cup paused_set \cup active
      <4>1. Bookkeeping /\ t # NoTask
        BY Zenon DEF IInv
      <4> QED
        BY <2>1, <4>1, Zenon DEF Bookkeeping, Live
    <3> QED
      BY <1>1, <2>1, <3>1, Zenon DEF LifeInv, Shown
  <2> QED
    BY <1>1, <2>1, <2>2, Zenon DEF TaskStep, LifeInv, Unseen, Earned, MayFollow
<1> QED
  BY <1>2, <1>3, Zenon DEF Preserved

-----------------------------------------------------------------------------
\* Taking an event off the channel takes no other answer off it.
LEMMA AnswerTail ==
  ASSUME IInv, worker_rx # <<>>, worker_rx' = Tail(worker_rx), outbox' = outbox,
         NEW j, NEW type, j # Head(worker_rx).key \/ type # Head(worker_rx).type
  PROVE  Answer(j, type)' <=> Answer(j, type)
<1> DEFINE n == Len(worker_rx)
<1>1. /\ n \in Nat \ {0} /\ DOMAIN worker_rx = 1 .. n /\ DOMAIN worker_rx' = 1 .. n - 1
      /\ \A i \in 1 .. n - 1 : worker_rx'[i] = worker_rx[i + 1]
      /\ Head(worker_rx) = worker_rx[1]
  BY TailFacts, Zenon DEF IInv, TypeOK
<1> HIDE DEF n
<1>2. ASSUME NEW i \in DOMAIN worker_rx', worker_rx'[i].key = j, worker_rx'[i].type = type
      PROVE  Answer(j, type)
  <2>1. i + 1 \in DOMAIN worker_rx /\ worker_rx[i + 1] = worker_rx'[i]
    BY <1>1, i \in 1 .. n - 1
  <2> QED
    BY <1>2, <2>1, Zenon DEF Answer
<1>3. ASSUME NEW i \in DOMAIN worker_rx, worker_rx[i].key = j, worker_rx[i].type = type
      PROVE  Answer(j, type)'
  <2>1. i # 1 /\ i \in 1 .. n
    BY <1>1, <1>3, Zenon
  <2>2. i - 1 \in 1 .. n - 1 /\ (i - 1) + 1 = i
    BY <1>1, <2>1
  <2>3. i - 1 \in DOMAIN worker_rx' /\ worker_rx'[i - 1] = worker_rx[i]
    BY <1>1, <2>2, Zenon
  <2> QED
    BY <1>3, <2>3, Zenon DEF Answer
<1> QED
  BY <1>2, <1>3, Zenon DEF Answer

\* The first event is an answer, if it is terminal the only one of its key.
LEMMA HeadAnswer ==
  ASSUME IInv, worker_rx # <<>>
  PROVE  LET e == Head(worker_rx)
         IN  /\ e.key \in Key /\ e.key \in active /\ groups[e.key] \in Task
             /\ KeyOf[groups[e.key]] = e.key /\ e.key \notin queued_set
             /\ e.type \in TerminalEvent \cup {"Progress"}
             /\ e.type # "Progress" =>
                  /\ worker[e.key] = "none" /\ Answer(e.key, e.type)
                  /\ \A type \in TerminalEvent : Answer(e.key, type) => type = e.type
<1> DEFINE e == Head(worker_rx)
<1>1. worker_rx \in Seq(Event) /\ e = worker_rx[1] /\ 1 \in DOMAIN worker_rx
      /\ DOMAIN worker_rx \subseteq Nat /\ e \in Event
  BY TailFacts DEF IInv, TypeOK
<1>2. e.key \in Key /\ e.type \in TerminalEvent \cup {"Progress"}
  BY <1>1, Zenon DEF Event
<1>3. /\ e.key \in active
      /\ e.type # "Progress" =>
           /\ worker[e.key] = "none"
           /\ \A j \in DOMAIN worker_rx : worker_rx[j].key = e.key => j <= 1
  BY <1>1 DEF IInv, OneAnswerPerWorker
<1>4. groups[e.key] \in Task /\ KeyOf[groups[e.key]] = e.key /\ e.key \notin queued_set
  BY <1>2, <1>3, Zenon DEF IInv, TypeOK, TaskOrNone, Bookkeeping, Live
<1>5. ASSUME e.type # "Progress"
      PROVE  /\ Answer(e.key, e.type)
             /\ \A type \in TerminalEvent : Answer(e.key, type) => type = e.type
  <2>1. outbox[e.key] = "none"
    BY <1>2, <1>3, <1>5, Zenon DEF IInv, OneAnswerPerWorker
  <2>2. \A j \in DOMAIN worker_rx : worker_rx[j].key = e.key => j = 1
    <3>1. \A j \in DOMAIN worker_rx : j >= 1
      BY <1>1
    <3> QED
      BY <1>1, <1>3, <1>5, <3>1
  <2>3. Answer(e.key, e.type)
    BY <1>1, Zenon DEF Answer
  <2>4. ASSUME NEW type \in TerminalEvent, Answer(e.key, type) PROVE type = e.type
    <3>1. type # "none"
      BY Zenon DEF TerminalEvent
    <3> QED
      BY <1>1, <2>1, <2>2, <2>4, <3>1, Zenon DEF Answer
  <2> QED
    BY <2>3, <2>4, Zenon
<1> QED
  BY <1>2, <1>3, <1>4, <1>5, Zenon

\* A worker that is running has not answered.
LEMMA NoAnswerYet ==
  ASSUME IInv, NEW k \in Key, worker[k] \in Running
  PROVE  /\ \A type \in TerminalEvent : ~Answer(k, type)
         /\ outbox[k] = "none"
         /\ \A i \in DOMAIN worker_rx : worker_rx[i].key = k => worker_rx[i].type = "Progress"
<1>1. worker[k] # "none" /\ worker[k] # "exit"
  BY Zenon DEF Running
<1>2. outbox[k] = "none"
      /\ \A i \in DOMAIN worker_rx : worker_rx[i].key = k => worker_rx[i].type = "Progress"
  BY <1>1, Zenon DEF IInv, OneAnswerPerWorker
<1> QED
  BY <1>2, Zenon DEF Answer, TerminalEvent

\* A key whose worker is gone in the next state has no answer under way in it.
LEMMA NoAnswerIdleNext ==
  ASSUME IInv', NEW k \in Key, k \notin active'
  PROVE  (\A type \in TerminalEvent : ~Answer(k, type)') /\ k \notin canceling_set'
<1>1. worker'[k] = "none" /\ outbox'[k] = "none" /\ k \notin canceling_set'
  BY Zenon DEF IInv, TypeOK, OneAnswerPerWorker, Bookkeeping
<1>2. \A i \in DOMAIN worker_rx' : worker_rx'[i].key # k
  <2>1. \A i \in DOMAIN worker_rx' : worker_rx'[i].key \in active'
    BY Zenon DEF IInv, OneAnswerPerWorker
  <2> QED
    BY <2>1, Zenon
<1> QED
  BY <1>1, <1>2, Zenon DEF Answer, TerminalEvent

\* A Progress event is only told to the caller of a task that has a worker.
LEMMA ProgressOutcome ==
  ASSUME IInv, IInv', OutcomeInv, HandleProgress
  PROVE  Preserved
<1> DEFINE e == Head(worker_rx)
           k == e.key
           t == groups[k]
<1>1. /\ phase \in {"running", "closing"} /\ worker_rx # <<>> /\ e.type = "Progress"
      /\ worker_rx' = Tail(worker_rx)
      /\ status' = status \/ status' = [status EXCEPT ![t] = "Transmission"]
      /\ UNCHANGED <<groups, queued_set, paused_set, canceling_set, active, phase, terminal,
                     cancelled, worker, runner, outbox, submitted, cancel_ok, acked, aborted>>
  BY Zenon DEF HandleProgress, Receiving
<1>2. k \in Key /\ k \in active /\ t \in Task /\ KeyOf[t] = k
  BY <1>1, HeadAnswer, Zenon
<1>3. \A j \in Key, type \in TerminalEvent : Answer(j, type)' <=> Answer(j, type)
  <2>1. \A type \in TerminalEvent : type # e.type
    BY <1>1, Zenon DEF TerminalEvent
  <2> QED
    BY <1>1, <2>1, AnswerTail, Zenon
<1> HIDE DEF e, k
<1>4. ASSUME NEW j \in Key PROVE KeyStep(j)
  <2>1. AsideKey(j) /\ Left(j, queued_set, active, cancelled) /\ KeyInv(j)
    BY <1>1, <1>3, Zenon DEF AsideKey, Left, OutcomeInv, IInv, Bookkeeping, Live
  <2>2. groups[j] # NoTask => Aside(groups[j]) /\ phase' \in {"running", "closing"}
    BY <1>1, Zenon DEF Aside
  <2> QED
    BY <2>1, <2>2, KeyAside, Zenon
<1>5. ASSUME NEW u \in Task PROVE TaskStep(u)
  <2>1. LifeInv(u) /\ KeyOf[u] \in Key
    BY Zenon DEF OutcomeInv
  <2>2. CASE status'[u] = status[u]
    BY <1>1, <2>1, <2>2, Zenon DEF TaskStep, LifeInv, Unseen, Shown, Earned, MayFollow
  <2>3. CASE status'[u] # status[u]
    <3>1. u = t /\ status'[u] = "Transmission"
      <4>1. status \in [Task -> Status]
        BY Zenon DEF IInv, TypeOK
      <4> QED
        BY <1>1, <1>2, <2>3, <4>1, Zenon
    <3>2. status[u] \in {"Pending", "Transmission"} /\ u \in submitted /\ k \notin queued_set
      BY <1>2, <2>1, <3>1, Zenon DEF LifeInv, Shown, IInv, Bookkeeping, Live
    <3> QED
      BY <1>1, <1>2, <2>1, <3>1, <3>2, Zenon DEF TaskStep, LifeInv, Shown, Earned, MayFollow
  <2> QED
    BY <2>2, <2>3, Zenon
<1> QED
  BY <1>4, <1>5, Zenon DEF Preserved

\* A terminal event: a pause that settles leaves the task resumable, everything
\* else ends it with the record its worker earned.
LEMMA TerminalOutcome ==
  ASSUME IInv, IInv', OutcomeInv, HandleTerminal
  PROVE  Preserved
<1> SUFFICES ASSUME NEW e \in Event, e = Head(worker_rx),
                    NEW t \in Task, t = groups[e.key]
             PROVE  Preserved
  <2>1. worker_rx # <<>>
    BY Zenon DEF HandleTerminal
  <2>2. worker_rx \in Seq(Event)
    BY Zenon DEF IInv, TypeOK
  <2>3. Head(worker_rx) \in Event
    BY <2>1, <2>2, TailFacts, Zenon
  <2>4. groups[Head(worker_rx).key] \in Task
    BY <2>1, HeadAnswer, Zenon
  <2> QED
    BY <2>3, <2>4, Zenon
<1> DEFINE k == e.key
           a == active \ {k}
           final == CASE e.type = "Completed" -> "Complete"
                      [] e.type = "Failed"    -> "Failed"
                      [] OTHER                -> "Canceled"
           stops == e.type = "Canceled" /\ FromPause(k)
           st == [status EXCEPT ![t] = IF stops THEN "Paused" ELSE final]
<1>1. /\ phase \in {"running", "closing"} /\ worker_rx # <<>> /\ e.type # "Progress"
      /\ worker_rx' = Tail(worker_rx)
      /\ aborted' = IF NeedsAbort(e.type, k) THEN Abort(t) ELSE aborted
      /\ IF stops THEN SettlePause(k) ELSE EndGroup(k, final)
      /\ UNCHANGED <<phase, outbox, submitted, cancel_ok, acked>>
  BY Zenon DEF HandleTerminal, Receiving
<1>2. /\ k \in Key /\ k \in active /\ t \in Task /\ KeyOf[t] = k /\ k \notin queued_set
      /\ t # NoTask /\ t \in submitted /\ e.type \in TerminalEvent
      /\ worker[k] = "none" /\ Answer(k, e.type)
      /\ \A type \in TerminalEvent : Answer(k, type) => type = e.type
  BY <1>1, HeadAnswer, Zenon DEF IInv, Bookkeeping, Live
<1>3. \A j \in Key \ {k} : \A type \in TerminalEvent : Answer(j, type)' <=> Answer(j, type)
  BY <1>1, AnswerTail, Zenon
<1>4. KeyInv(k) /\ LifeInv(t) /\ ActiveGate(k) /\ AnswerGate(k) /\ runner[k] = NoTask
      /\ status[t] \in {"Pending", "Transmission"} /\ Earned(t)
  BY <1>2, Zenon DEF OutcomeInv, KeyInv, LifeInv, ActiveGate, Shown
<1>5. final \in {"Complete", "Failed", "Canceled"}
      /\ (final = "Canceled" <=> e.type = "Canceled")
      /\ (final = "Complete" <=> e.type = "Completed")
  BY <1>2, Zenon DEF TerminalEvent
<1> HIDE DEF final
<1>6. AfterTerminal(k, st)
  BY <1>1, <1>2, Zenon DEF SettlePause, EndGroup
<1>7. st[t] = (IF stops THEN "Paused" ELSE final) /\ \A u \in Task \ {t} : st[u] = status[u]
  BY <1>2, Zenon DEF IInv, TypeOK
<1>8. stops => /\ UNCHANGED <<canceling_set, paused_set, groups, aborted>>
               /\ terminal' = [terminal EXCEPT ![t] = ResetPause(@)]
               /\ k \in paused_set /\ e.type = "Canceled"
  BY <1>1, Zenon DEF SettlePause, FromPause, NeedsAbort
<1>9. ~stops => /\ canceling_set' = canceling_set \ {k} /\ paused_set' = paused_set \ {k}
                /\ groups' = [groups EXCEPT ![k] = NoTask] /\ terminal' = terminal
  BY <1>1, Zenon DEF EndGroup, Settled
<1>10. e.type = "Canceled" /\ ~stops => k \in canceling_set
  BY <1>2, <1>4, Zenon DEF AnswerGate, FromPause
<1> HIDE DEF stops
<1>11. \A u \in Task \ {t} : /\ terminal'[u] = terminal[u]
                             /\ u \in aborted' <=> u \in aborted
  <2>1. \A u \in Task \ {t} : u \in aborted' <=> u \in aborted
    BY <1>1, Zenon DEF Abort
  <2>2. \A u \in Task \ {t} : terminal'[u] = terminal[u]
    BY <1>8, <1>9, Zenon DEF IInv, TypeOK
  <2> QED
    BY <2>1, <2>2, Zenon
<1>12. groups'[k] = (IF stops THEN t ELSE NoTask)
       /\ \A j \in Key \ {k} : groups'[j] = groups[j]
  <2>1. groups \in [Key -> TaskOrNone] /\ t = groups[k]
    BY Zenon DEF IInv, TypeOK
  <2>2. CASE stops
    BY <1>8, <2>1, <2>2, Zenon
  <2>3. CASE ~stops
    BY <1>2, <1>9, <2>1, <2>3, Zenon
  <2> QED
    BY <2>2, <2>3, Zenon
<1>0. t = groups[k] /\ phase' = phase /\ phase' \in {"running", "closing"} /\ acked' = acked
      /\ submitted' = submitted /\ cancel_ok' = cancel_ok
  BY <1>1, Zenon
<1> HIDE DEF a, st
<1>13. ASSUME NEW u \in Task \ {t}
       PROVE  Aside(u) /\ (groups[KeyOf[u]] = u => KeyOf[u] # k)
  <2>1. KeyOf[u] \in Key /\ u # NoTask /\ groups[k] # u
    BY Zenon
  <2>2. groups'[KeyOf[u]] = u <=> groups[KeyOf[u]] = u
    BY <1>12, <2>1, Zenon
  <2> QED
    BY <1>0, <1>11, <2>1, <2>2, Zenon DEF Aside
<1>14. ASSUME NEW j \in Key \ {k} PROVE AsideKey(j) /\ groups[j] # t
  <2>1. groups[j] # t
    BY <1>2, Zenon DEF IInv, Bookkeeping, Live
  <2>2. /\ j \in paused_set' <=> j \in paused_set
        /\ j \in canceling_set' <=> j \in canceling_set
    BY <1>8, <1>9, Zenon
  <2> QED
    BY <1>3, <1>12, <2>1, <2>2, Zenon DEF AsideKey
<1>15. /\ \A j \in Key \ {k} : KeyStep(j)
       /\ \A u \in Task \ {t} : TaskStep(u)
       /\ Left(k, queued_set, a, cancelled)
       /\ status'[t] = st[t]
  <2>1. CASE phase = "running"
    <3>1. TryStartNext(queued, queued_set, a, CountAfterRemove(k), cancelled, st)
          /\ phase' = "running"
      BY <1>1, <1>6, <2>1, Zenon DEF AfterTerminal, a
    <3>2. queued_set \in SUBSET Key /\ Elements(queued) \subseteq queued_set
      BY Zenon DEF IInv, TypeOK, QueueMirror, Elements
    <3>3. Concerns({k}, {t}, queued_set, a, cancelled, st)
      BY <1>7, <1>13, <1>14, Zenon DEF Concerns, a
    <3>4. (\A j \in Key \ {k} : KeyStep(j)) /\ (\A u \in Task \ {t} : TaskStep(u))
      BY <2>1, <3>1, <3>2, <3>3, Bystanders, Zenon
    <3>5. Left(k, queued_set, a, cancelled)
      BY <1>2, <3>1, <3>2, ScheduledKey, Zenon
    <3>6. status'[t] = st[t]
      <4>1. KeyOf[t] \notin queued_set
        BY <1>2, Zenon
      <4>2. PICK n : Schedules(queued, queued_set, a, n, cancelled, st)
        BY <3>1, <3>2, Zenon DEF Schedules
      <4> HIDE DEF k
      <4> QED
        BY <4>1, <4>2, UnqueuedTask
    <3> QED
      BY <3>4, <3>5, <3>6, Zenon
  <2>2. CASE phase = "closing"
    <3>1. active' = a /\ status' = st
          /\ UNCHANGED <<queued_set, cancelled, worker, runner>>
      BY <1>6, <2>2, Zenon DEF AfterTerminal, a
    <3>2. Aloof({k}, {t})
      BY <1>7, <1>12, <1>13, <1>14, <3>1, Zenon DEF Aloof, Left, a, IInv, Bookkeeping, Live
    <3>3. (\A j \in Key \ {k} : KeyStep(j)) /\ (\A u \in Task \ {t} : TaskStep(u))
      BY <1>1, <2>2, <3>2, Unscheduled, Zenon
    <3>4. Left(k, queued_set, a, cancelled)
      BY <1>2, <3>1, Zenon DEF Left
    <3> QED
      BY <3>1, <3>3, <3>4, Zenon
  <2> QED
    BY <1>1, <2>1, <2>2, Zenon
<1>16. k \notin active' /\ k \notin queued_set' /\ k \notin a
  BY <1>2, <1>15, Zenon DEF Left, a
<1>17. CASE stops
  <2>1. terminal[t] = PAUSING /\ t \notin acked /\ t \notin aborted
    BY <1>2, <1>4, <1>8, <1>17, Zenon DEF AnswerGate, TerminalEvent
  <2>2. terminal'[t] = OPEN
    BY <1>2, <1>8, <1>17, <2>1, Zenon DEF ResetPause, IInv, TypeOK
  <2>3. IdleGate(k)' /\ phase' \in {"running", "closing"}
    BY <1>0, <1>8, <1>12, <1>17, <2>1, <2>2, Zenon DEF IdleGate
  <2>4. KeyStep(k)
    <3>1. k \notin canceling_set' /\ \A type \in TerminalEvent : ~Answer(k, type)'
      BY <1>2, <1>16, NoAnswerIdleNext, Zenon
    <3> QED
      BY <1>2, <1>4, <1>15, <1>16, <2>3, <3>1, IdleKey, Zenon
  <2>5. status'[t] = "Paused" /\ MayFollow(status[t], status'[t])
    BY <1>4, <1>7, <1>15, <1>17, Zenon DEF MayFollow
  <2>6. TaskStep(t)
    BY <1>0, <1>2, <1>8, <1>12, <1>16, <1>17, <2>1, <2>5, Zenon
       DEF TaskStep, LifeInv, Shown, Earned
  <2> QED
    BY <1>2, <1>15, <2>4, <2>6, OneOfEach, Zenon
<1>18. CASE ~stops
  <2>1. KeyStep(k)
    BY <1>4, <1>12, <1>15, <1>18, Zenon DEF KeyStep, KeyInv, Left
  <2>2. status'[t] = final /\ MayFollow(status[t], status'[t])
    BY <1>4, <1>5, <1>7, <1>15, <1>18, Zenon DEF MayFollow
  <2>3. final = "Canceled" => t \in cancel_ok
    BY <1>4, <1>5, <1>10, <1>18, Zenon DEF ActiveGate
  <2>4. t \in acked /\ DirOf[k] = "Upload" => t \notin aborted' /\ final = "Complete"
    <3>1. t \in acked /\ DirOf[k] = "Upload" => e.type = "Completed" /\ t \notin aborted
      BY <1>2, <1>4, Zenon DEF AnswerGate, TerminalEvent, Earned
    <3> QED
      BY <1>1, <1>5, <3>1, Zenon DEF NeedsAbort
  <2>5. TaskStep(t)
    BY <1>0, <1>2, <1>5, <1>12, <1>18, <2>2, <2>3, <2>4, Zenon
       DEF TaskStep, LifeInv, Earned, Ended
  <2> QED
    BY <1>2, <1>15, <2>1, <2>5, OneOfEach, Zenon
<1> QED
  BY <1>17, <1>18, Zenon

-----------------------------------------------------------------------------
\* Sending an event adds its own answer to the channel and no other.
LEMMA AnswerAppend ==
  ASSUME IInv, NEW ev \in Event, worker_rx' = Append(worker_rx, ev), NEW j, NEW type,
         outbox'[j] = outbox[j] \/ (outbox[j] # type /\ outbox'[j] # type)
  PROVE  Answer(j, type)' <=> Answer(j, type) \/ (ev.key = j /\ ev.type = type)
<1> DEFINE n == Len(worker_rx)
<1>0. worker_rx \in Seq(Event)
  BY Zenon DEF IInv, TypeOK
<1>1. /\ n \in Nat /\ DOMAIN worker_rx = 1 .. n /\ DOMAIN worker_rx' = 1 .. n + 1
      /\ \A i \in 1 .. n : worker_rx'[i] = worker_rx[i]
      /\ worker_rx'[n + 1] = ev
  <2>1. /\ Len(worker_rx) \in Nat /\ DOMAIN worker_rx = 1 .. Len(worker_rx)
        /\ DOMAIN Append(worker_rx, ev) = 1 .. Len(worker_rx) + 1
        /\ \A i \in 1 .. Len(worker_rx) : Append(worker_rx, ev)[i] = worker_rx[i]
        /\ Append(worker_rx, ev)[Len(worker_rx) + 1] = ev
    BY <1>0, SentFacts, Zenon
  <2> QED
    BY <2>1, Zenon
<1> HIDE DEF n
<1>2. ASSUME NEW i \in DOMAIN worker_rx', worker_rx'[i].key = j, worker_rx'[i].type = type
      PROVE  Answer(j, type) \/ (ev.key = j /\ ev.type = type)
  <2>1. (i \in DOMAIN worker_rx /\ worker_rx'[i] = worker_rx[i]) \/ worker_rx'[i] = ev
    BY <1>1, i \in 1 .. n + 1
  <2> QED
    BY <1>2, <2>1, Zenon DEF Answer
<1>3. ASSUME NEW i \in DOMAIN worker_rx, worker_rx[i].key = j, worker_rx[i].type = type
      PROVE  Answer(j, type)'
  <2>1. i \in DOMAIN worker_rx' /\ worker_rx'[i] = worker_rx[i]
    BY <1>1, i \in 1 .. n
  <2> QED
    BY <1>3, <2>1, Zenon DEF Answer
<1>4. n + 1 \in DOMAIN worker_rx'
  BY <1>1
<1>5. ev.key = j /\ ev.type = type => Answer(j, type)'
  BY <1>1, <1>4, Zenon DEF Answer
<1> QED
  BY <1>2, <1>3, <1>5, Zenon DEF Answer

\* A worker that stops has the answer it leaves in its outbox, and no other.
LEMMA AnswerLeft ==
  ASSUME IInv, NEW k \in Key, worker[k] \in Running, NEW o \in TerminalEvent,
         outbox' = [outbox EXCEPT ![k] = o], worker_rx' = worker_rx
  PROVE  /\ \A type \in TerminalEvent : Answer(k, type)' <=> type = o
         /\ \A j \in Key \ {k} : \A type \in TerminalEvent : Answer(j, type)' <=> Answer(j, type)
<1>1. \A i \in DOMAIN worker_rx : worker_rx[i].key = k => worker_rx[i].type \notin TerminalEvent
  BY NoAnswerYet, Zenon DEF TerminalEvent
<1>2. outbox'[k] = o /\ \A j \in Key \ {k} : outbox'[j] = outbox[j]
  BY Zenon DEF IInv, TypeOK
<1> QED
  BY <1>1, <1>2, Zenon DEF Answer

\* What a step of the worker of k leaves alone.
WorkerFrame(k) ==
  /\ UNCHANGED <<schedVars, submitted, cancel_ok, status, cancelled>>
  /\ \A j \in Key \ {k} :
       /\ worker'[j] = worker[j] /\ runner'[j] = runner[j]
       /\ \A type \in TerminalEvent : Answer(j, type)' <=> Answer(j, type)
  /\ \A u \in Task \ {groups[k]} :
       /\ terminal'[u] = terminal[u]
       /\ u \in acked' <=> u \in acked
       /\ u \in aborted' <=> u \in aborted

\* A worker concerns its key and its task only.
LEMMA WorkerPreserves ==
  ASSUME IInv, OutcomeInv, NEW k \in Key, NEW t \in Task, t = groups[k], k \in active,
         WorkerFrame(k),
         worker'[k] = "none" => runner'[k] = NoTask,
         worker'[k] \in Running => RunningGate(k)', AnswerGate(k)', Earned(t)'
  PROVE  Preserved
<1>1. /\ UNCHANGED <<groups, paused_set, canceling_set, active, queued_set, phase,
                     submitted, cancel_ok, status, cancelled>>
  BY Zenon DEF WorkerFrame, schedVars
<1>2. phase \in {"running", "closing"} /\ t # NoTask /\ KeyOf[t] = k
      /\ (k \in canceling_set => t \in cancel_ok) /\ LifeInv(t)
  BY Zenon DEF OutcomeInv, KeyInv, ActiveGate, IInv, Bookkeeping, Live
<1>3. KeyStep(k)
  BY <1>1, <1>2, Zenon DEF KeyStep, KeyInv, ActiveGate
<1>4. TaskStep(t)
  BY <1>1, <1>2, Zenon DEF TaskStep, LifeInv, Shown, Unseen, MayFollow, IInv, Bookkeeping, Live
<1>5. Aloof({k}, {t})
  <2>1. ASSUME NEW j \in Key \ {k}
        PROVE  AsideKey(j) /\ groups[j] # t /\ Left(j, queued_set, active, cancelled)
    <3>1. groups[j] # t
      BY <1>2, Zenon DEF IInv, Bookkeeping, Live
    <3>2. j \in queued_set => groups[j] # NoTask
      BY Zenon DEF IInv, Bookkeeping, Live
    <3> QED
      BY <1>1, <3>1, <3>2, Zenon DEF WorkerFrame, AsideKey, Left
  <2>2. ASSUME NEW u \in Task \ {t}
        PROVE  /\ Aside(u) /\ status'[u] = status[u]
               /\ groups[KeyOf[u]] = u => KeyOf[u] # k
    BY <1>1, Zenon DEF WorkerFrame, Aside
  <2> QED
    BY <2>1, <2>2, Zenon DEF Aloof
<1>6. (\A j \in Key \ {k} : KeyStep(j)) /\ (\A u \in Task \ {t} : TaskStep(u))
  BY <1>1, <1>2, <1>5, Unscheduled, Zenon
<1> QED
  BY <1>3, <1>4, <1>6, OneOfEach, Zenon

\* What is known of a worker that is still running.
LEMMA RunningWorker ==
  ASSUME IInv, OutcomeInv, NEW k \in Key, worker[k] \in Running
  PROVE  /\ k \in active /\ groups[k] \in Task /\ KeyOf[groups[k]] = k
         /\ runner[k] = groups[k] /\ worker[k] # "none" /\ RunningGate(k)
         /\ \A type \in TerminalEvent : ~Answer(k, type)
         /\ status[groups[k]] \in {"Pending", "Transmission"} /\ Earned(groups[k])
<1>1. worker[k] # "none"
  BY Zenon DEF Running
<1>2. k \in active /\ runner[k] = groups[k] /\ groups[k] \in Task
  BY <1>1, RunnerIsLive, Zenon
<1>3. RunningGate(k) /\ KeyOf[groups[k]] = k
  BY <1>2, Zenon DEF OutcomeInv, KeyInv, ActiveGate, IInv, Bookkeeping, Live
<1>4. status[groups[k]] \in {"Pending", "Transmission"} /\ Earned(groups[k])
  BY <1>2, <1>3, Zenon DEF OutcomeInv, LifeInv, Shown
<1>5. \A type \in TerminalEvent : ~Answer(k, type)
  BY NoAnswerYet, Zenon
<1> QED
  BY <1>1, <1>2, <1>3, <1>4, <1>5, Zenon

\* Progress is not an answer.
LEMMA ProgressSent ==
  ASSUME IInv, NEW k \in Key, runner[k] \in Task, NEW total \in BOOLEAN,
         Send(k, "Progress", total), outbox' = outbox
  PROVE  \A j \in Key : \A type \in TerminalEvent : Answer(j, type)' <=> Answer(j, type)
<1> DEFINE ev == [type |-> "Progress", key |-> k, by |-> runner[k], total |-> total]
<1>1. ev \in Event /\ ev.type = "Progress" /\ worker_rx' = Append(worker_rx, ev)
  BY Zenon DEF Event, Send
<1> HIDE DEF ev
<1>2. ASSUME NEW j \in Key, NEW type \in TerminalEvent
      PROVE  Answer(j, type)' <=> Answer(j, type)
  <2>1. PICK x \in Event : x.type = "Progress" /\ worker_rx' = Append(worker_rx, x)
    BY <1>1, Zenon
  <2>2. type # "Progress"
    BY Zenon DEF TerminalEvent
  <2> QED
    BY <2>1, <2>2, AnswerAppend, Zenon
<1> QED
  BY <1>2, Zenon

\* The steps of a worker that go on: first progress, and progress.
LEMMA ProgressPreserves ==
  ASSUME IInv, OutcomeInv, NEW k \in Key, Prepared(k) \/ ChunkDone(k)
  PROVE  Preserved
<1>1. worker[k] \in Running
  BY Zenon DEF Prepared, ChunkDone, Running
<1>2. PICK t \in Task : t = groups[k]
  BY <1>1, RunningWorker, Zenon
<1>3. /\ k \in active /\ runner[k] = t /\ RunningGate(k) /\ Earned(t) /\ KeyOf[t] = k
      /\ \A type \in TerminalEvent : ~Answer(k, type)
  BY <1>1, <1>2, RunningWorker, Zenon
<1>4. /\ UNCHANGED <<schedVars, terminal, cancelled, runner, outbox, obsVars>>
      /\ worker'[k] \in {"transfer", "finishing"}
      /\ worker'[k] = "finishing" <=> worker[k] = "finishing"
      /\ \A j \in Key \ {k} : worker'[j] = worker[j]
  BY Zenon DEF Prepared, ChunkDone, IInv, TypeOK
<1>5. PICK total \in BOOLEAN : Send(k, "Progress", total)
  BY Zenon DEF Prepared, ChunkDone
<1>6. \A j \in Key : \A type \in TerminalEvent : Answer(j, type)' <=> Answer(j, type)
  BY <1>3, <1>4, <1>5, ProgressSent, Zenon
<1>7. UNCHANGED <<groups, paused_set, canceling_set, acked, aborted, terminal, cancelled,
                  status, submitted, cancel_ok, runner>>
  BY <1>4, Zenon DEF schedVars, obsVars
<1>8. WorkerFrame(k)
  BY <1>4, <1>6, <1>7, Zenon DEF WorkerFrame
<1>9. RunningGate(k)'
  BY <1>3, <1>4, <1>7, Zenon DEF RunningGate
<1>10. AnswerGate(k)'
  BY <1>2, <1>3, <1>6, <1>7, Zenon DEF AnswerGate, RunningGate, TerminalEvent
<1>11. Earned(t)'
  BY <1>3, <1>7, Zenon DEF Earned
<1> QED
  BY <1>2, <1>3, <1>4, <1>8, <1>9, <1>10, <1>11, WorkerPreserves, Zenon

\* begin_terminal_completion: the claim is made on an open gate.
LEMMA ClaimPreserves ==
  ASSUME IInv, OutcomeInv, NEW k \in Key, ClaimCompletion(k)
  PROVE  Preserved
<1>1. worker[k] \in Running
  BY Zenon DEF ClaimCompletion, Running
<1>2. PICK t \in Task : t = groups[k]
  BY <1>1, RunningWorker, Zenon
<1>3. /\ k \in active /\ runner[k] = t /\ RunningGate(k) /\ Earned(t) /\ KeyOf[t] = k
      /\ \A type \in TerminalEvent : ~Answer(k, type)
  BY <1>1, <1>2, RunningWorker, Zenon
<1>4. /\ UNCHANGED <<schedVars, cancelled, runner, outbox, worker_rx, obsVars>>
      /\ terminal[t] = OPEN /\ terminal'[t] = COMPLETING
      /\ worker'[k] = "finishing"
      /\ \A j \in Key \ {k} : worker'[j] = worker[j]
      /\ \A u \in Task \ {t} : terminal'[u] = terminal[u]
  BY <1>3, Zenon DEF ClaimCompletion, CanClaim, BeginCompletion, IInv, TypeOK
<1>5. UNCHANGED <<groups, paused_set, canceling_set, acked, aborted, cancelled,
                  status, submitted, cancel_ok, runner, outbox, worker_rx>>
  BY <1>4, Zenon DEF schedVars, obsVars
<1>6. \A j \in Key : \A type \in TerminalEvent : Answer(j, type)' <=> Answer(j, type)
  BY <1>5, Zenon DEF Answer
<1>7. WorkerFrame(k)
  BY <1>2, <1>4, <1>5, <1>6, Zenon DEF WorkerFrame
<1>8. RunningGate(k)'
  BY <1>2, <1>3, <1>4, <1>5, Zenon DEF RunningGate, Claimed, OPEN, COMPLETING, PAUSING,
     COMPLETING_PAUSE_PENDING
<1>9. AnswerGate(k)'
  BY <1>2, <1>3, <1>5, <1>6, Zenon DEF AnswerGate, RunningGate, TerminalEvent
<1>10. Earned(t)'
  BY <1>3, <1>5, Zenon DEF Earned
<1> QED
  BY <1>2, <1>3, <1>4, <1>7, <1>8, <1>9, <1>10, WorkerPreserves, Zenon

\* What the stop of a worker changes: its outbox, and what is told of its task.
Exits(k, t, o) ==
  /\ Finish(k, o)
  /\ UNCHANGED <<schedVars, cancelled, runner, worker_rx, submitted, status, cancel_ok>>
  /\ \A u \in Task \ {t} : /\ terminal'[u] = terminal[u]
                           /\ u \in acked' <=> u \in acked
                           /\ u \in aborted' <=> u \in aborted

\* The answer a worker stops with is one its gate and its task allow.
LEMMA ExitPreserves ==
  ASSUME IInv, OutcomeInv, NEW k \in Key, NEW t \in Task, t = groups[k],
         worker[k] \in Running, NEW o \in TerminalEvent, Exits(k, t, o),
         o = "Canceled" => /\ k \in paused_set \/ k \in canceling_set
                           /\ k \in paused_set => terminal'[t] = PAUSING
                           /\ t \notin acked',
         t \in acked' /\ DirOf[k] = "Upload" => o = "Completed" /\ t \notin aborted',
         t \in aborted' => o = "Failed"
  PROVE  Preserved
<1>1. /\ k \in active /\ runner[k] = t /\ RunningGate(k) /\ Earned(t) /\ KeyOf[t] = k
      /\ status[t] \in {"Pending", "Transmission"}
  BY RunningWorker, Zenon
<1>2. /\ UNCHANGED <<groups, paused_set, canceling_set, cancelled, runner, worker_rx,
                     submitted, status, cancel_ok>>
      /\ outbox' = [outbox EXCEPT ![k] = o]
      /\ worker'[k] = "exit" /\ \A j \in Key \ {k} : worker'[j] = worker[j]
  BY Zenon DEF Exits, Finish, schedVars, IInv, TypeOK
<1>3. /\ \A type \in TerminalEvent : Answer(k, type)' <=> type = o
      /\ \A j \in Key \ {k} : \A type \in TerminalEvent : Answer(j, type)' <=> Answer(j, type)
  BY <1>2, AnswerLeft, Zenon
<1>4. WorkerFrame(k)
  BY <1>2, <1>3, Zenon DEF WorkerFrame, Exits
<1>5. worker'[k] \notin Running /\ worker'[k] # "none"
  BY <1>2, Zenon DEF Running
<1>6. AnswerGate(k)'
  BY <1>1, <1>2, <1>3, Zenon DEF AnswerGate, TerminalEvent
<1>7. Earned(t)'
  BY <1>1, <1>2, Zenon DEF Earned
<1> QED
  BY <1>1, <1>4, <1>5, <1>6, <1>7, WorkerPreserves, Zenon

\* A worker that observes a stop was asked to stop, by a pause or by a cancel.
LEMMA StopPreserves ==
  ASSUME IInv, OutcomeInv, NEW k \in Key, ObserveStop(k)
  PROVE  Preserved
<1>1. worker[k] \in Running
  BY Zenon DEF ObserveStop, Running
<1>2. PICK t \in Task : t = groups[k]
  BY <1>1, RunningWorker, Zenon
<1>3. runner[k] = t /\ RunningGate(k) /\ KeyOf[t] = k
  BY <1>1, <1>2, RunningWorker, Zenon
<1>4. UNCHANGED <<schedVars, terminal, cancelled, runner, worker_rx, obsVars>>
  BY Zenon DEF ObserveStop
<1>5. PICK o \in TerminalEvent : Finish(k, o)
  BY Zenon DEF ObserveStop, FinishStopped, TerminalEvent
<1>6. Exits(k, t, o)
  BY <1>4, <1>5, Zenon DEF Exits, obsVars
<1>7. CASE k \in cancelled
  <2>1. /\ k \in paused_set \/ k \in canceling_set
        /\ k \in paused_set => terminal[t] = PAUSING
    BY <1>2, <1>3, <1>7, Zenon DEF RunningGate
  <2> QED
    BY <1>1, <1>2, <1>3, <1>4, <1>6, <2>1, ExitPreserves, Zenon DEF RunningGate, obsVars
<1>8. CASE worker[k] = "transfer" /\ ~CanClaim(terminal[t])
  <2>1. terminal[t] # OPEN /\ terminal[t] \notin Claimed
    BY <1>2, <1>3, <1>8, Zenon DEF RunningGate, CanClaim
  <2>2. /\ k \in paused_set \/ k \in canceling_set
        /\ k \in paused_set => terminal[t] = PAUSING
    BY <1>2, <1>3, <2>1, Zenon DEF RunningGate, Claimed
  <2> QED
    BY <1>1, <1>2, <1>3, <1>4, <1>6, <2>2, ExitPreserves, Zenon DEF RunningGate, obsVars
<1> QED
  BY <1>3, <1>7, <1>8, Zenon DEF ObserveStop

\* The provider reported the object complete to a worker that aborted nothing.
LEMMA DonePreserves ==
  ASSUME IInv, OutcomeInv, NEW k \in Key, ReportedDone(k)
  PROVE  Preserved
<1>1. worker[k] \in Running
  BY Zenon DEF ReportedDone, Running
<1>2. PICK t \in Task : t = groups[k]
  BY <1>1, RunningWorker, Zenon
<1>3. runner[k] = t /\ RunningGate(k) /\ KeyOf[t] = k
  BY <1>1, <1>2, RunningWorker, Zenon
<1>4. /\ UNCHANGED <<schedVars, cancelled, runner, worker_rx, submitted, status,
                     cancel_ok, aborted>>
      /\ acked' = acked \cup {t}
      /\ \A u \in Task \ {t} : terminal'[u] = terminal[u]
  BY <1>3, Zenon DEF ReportedDone, IInv, TypeOK
<1>5. PICK o \in {"Completed", "Failed"} :
        Finish(k, o) /\ (o = "Failed" => DirOf[k] = "Download")
  BY Zenon DEF ReportedDone
<1>6. Exits(k, t, o) /\ o \in TerminalEvent /\ o # "Canceled"
  BY <1>4, <1>5, Zenon DEF Exits, TerminalEvent
<1>7. t \notin aborted' /\ (DirOf[k] = "Upload" => o = "Completed")
  BY <1>2, <1>3, <1>4, <1>5, Zenon DEF RunningGate
<1> QED
  BY <1>1, <1>2, <1>6, <1>7, ExitPreserves, Zenon

\* A failure, which may have aborted the session, is no completion.
LEMMA FailPreserves ==
  ASSUME IInv, OutcomeInv, NEW k \in Key, Fail(k)
  PROVE  Preserved
<1>1. worker[k] \in Running
  BY Zenon DEF Fail
<1>2. PICK t \in Task : t = groups[k]
  BY <1>1, RunningWorker, Zenon
<1>3. runner[k] = t /\ RunningGate(k)
  BY <1>1, <1>2, RunningWorker, Zenon
<1>4. /\ UNCHANGED <<schedVars, terminal, cancelled, runner, worker_rx, submitted,
                     status, cancel_ok, acked>>
      /\ Finish(k, "Failed")
      /\ \A u \in Task \ {t} : u \in aborted' <=> u \in aborted
  BY <1>3, Zenon DEF Fail, Abort
<1>5. Exits(k, t, "Failed") /\ "Failed" \in TerminalEvent
  BY <1>4, Zenon DEF Exits, TerminalEvent
<1>6. t \notin acked'
  BY <1>2, <1>3, <1>4, Zenon DEF RunningGate
<1> QED
  BY <1>1, <1>2, <1>5, <1>6, ExitPreserves, Zenon

\* finish_incomplete_completion gives the claim back, or honours the stop that
\* waited behind it.
LEMMA GiveBackPreserves ==
  ASSUME IInv, OutcomeInv, NEW k \in Key, GiveClaimBack(k)
  PROVE  Preserved
<1>1. worker[k] \in Running /\ worker[k] = "finishing"
  BY Zenon DEF GiveClaimBack, Running
<1>2. PICK t \in Task : t = groups[k]
  BY <1>1, RunningWorker, Zenon
<1>3. /\ k \in active /\ runner[k] = t /\ RunningGate(k) /\ Earned(t) /\ KeyOf[t] = k
      /\ \A type \in TerminalEvent : ~Answer(k, type)
  BY <1>1, <1>2, RunningWorker, Zenon
<1>4. /\ UNCHANGED <<schedVars, cancelled, runner, worker_rx, obsVars>>
      /\ terminal'[t] = FinishIncompleteCompletion(terminal[t])
      /\ \A u \in Task \ {t} : terminal'[u] = terminal[u]
  BY <1>3, Zenon DEF GiveClaimBack, IInv, TypeOK
<1>5. terminal[t] \in Claimed /\ t \notin acked /\ t \notin aborted
      /\ (k \notin paused_set /\ k \notin canceling_set
            => terminal[t] \in {OPEN, COMPLETING} /\ k \notin cancelled)
      /\ (k \in paused_set => terminal[t] \in {PAUSING, COMPLETING_PAUSE_PENDING})
  BY <1>1, <1>2, <1>3, Zenon DEF RunningGate
<1>6. UNCHANGED <<groups, paused_set, canceling_set, acked, aborted, cancelled,
                  status, submitted, cancel_ok, runner, worker_rx>>
  BY <1>4, Zenon DEF schedVars, obsVars
<1>7. CASE DeferredStop(terminal[t])
  <2>1. PICK o \in TerminalEvent : Finish(k, o)
    BY <1>3, <1>7, Zenon DEF GiveClaimBack, FinishStopped, TerminalEvent
  <2>2. Exits(k, t, o)
    BY <1>4, <2>1, Zenon DEF Exits, obsVars
  <2>3. k \in paused_set \/ k \in canceling_set
    BY <1>5, <1>7, Zenon DEF DeferredStop, Claimed, OPEN, COMPLETING, COMPLETING_PAUSE_PENDING,
       COMPLETING_CANCEL_PENDING
  <2>4. k \in paused_set => terminal'[t] = PAUSING
    BY <1>4, <1>5, Zenon DEF FinishIncompleteCompletion, Claimed, OPEN, COMPLETING, PAUSING,
       COMPLETING_PAUSE_PENDING, COMPLETING_CANCEL_PENDING
  <2> QED
    BY <1>1, <1>2, <1>5, <1>6, <2>2, <2>3, <2>4, ExitPreserves, Zenon
<1>8. CASE ~DeferredStop(terminal[t])
  <2>1. /\ terminal[t] = COMPLETING /\ terminal'[t] = OPEN
        /\ outbox' = outbox /\ worker'[k] = "transfer"
        /\ \A j \in Key \ {k} : worker'[j] = worker[j]
    <3>1. terminal[t] = COMPLETING
      BY <1>5, <1>8, Zenon DEF DeferredStop
    <3>2. worker' = [worker EXCEPT ![k] = "transfer"] /\ outbox' = outbox
      BY <1>3, <1>8, Zenon DEF GiveClaimBack
    <3> QED
      BY <1>4, <3>1, <3>2, Zenon DEF FinishIncompleteCompletion, COMPLETING, COMPLETING_PAUSE_PENDING,
         COMPLETING_CANCEL_PENDING, IInv, TypeOK
  <2>2. \A j \in Key : \A type \in TerminalEvent : Answer(j, type)' <=> Answer(j, type)
    BY <1>6, <2>1, Zenon DEF Answer
  <2>3. WorkerFrame(k)
    BY <1>2, <1>4, <1>6, <2>1, <2>2, Zenon DEF WorkerFrame
  <2>4. RunningGate(k)'
    BY <1>2, <1>5, <1>6, <2>1, Zenon DEF RunningGate, Claimed, OPEN, COMPLETING, PAUSING,
       COMPLETING_PAUSE_PENDING, COMPLETING_CANCEL_PENDING
  <2>5. AnswerGate(k)'
    BY <1>2, <1>3, <1>5, <1>6, <2>2, Zenon DEF AnswerGate, TerminalEvent
  <2>6. Earned(t)'
    BY <1>3, <1>6, Zenon DEF Earned
  <2> QED
    BY <1>2, <1>3, <2>1, <2>3, <2>4, <2>5, <2>6, WorkerPreserves, Zenon
<1> QED
  BY <1>7, <1>8, Zenon

\* The terminal event moves from the outbox to the channel.
LEMMA SendPreserves ==
  ASSUME IInv, OutcomeInv, NEW k \in Key, SendTerminal(k)
  PROVE  Preserved
<1>1. worker[k] = "exit" /\ worker[k] # "none" /\ worker[k] \notin Running
  BY Zenon DEF SendTerminal, Running
<1>2. PICK t \in Task : t = groups[k]
  BY <1>1, RunnerIsLive, Zenon
<1>3. /\ k \in active /\ runner[k] = t /\ KeyOf[t] = k /\ AnswerGate(k) /\ Earned(t)
  <2>1. k \in active /\ runner[k] = t /\ t # NoTask
    BY <1>1, <1>2, RunnerIsLive, Zenon
  <2>2. KeyOf[t] = k /\ AnswerGate(k)
    BY <1>2, <2>1, Zenon DEF OutcomeInv, KeyInv, ActiveGate, IInv, Bookkeeping, Live
  <2>3. Earned(t)
    BY Zenon DEF OutcomeInv, LifeInv
  <2> QED
    BY <2>1, <2>2, <2>3, Zenon
<1>4. PICK o \in TerminalEvent : o = outbox[k]
  <2>1. outbox[k] \in TerminalEvent \cup {"none"}
    BY Zenon DEF IInv, TypeOK
  <2>2. worker[k] = "exit" <=> outbox[k] # "none"
    BY Zenon DEF IInv, OneAnswerPerWorker
  <2> QED
    BY <1>1, <2>1, <2>2, Zenon
<1>5. /\ UNCHANGED <<schedVars, terminal, cancelled, obsVars>>
      /\ worker'[k] = "none" /\ runner'[k] = NoTask /\ outbox'[k] = "none"
      /\ \A j \in Key \ {k} : /\ worker'[j] = worker[j] /\ runner'[j] = runner[j]
                              /\ outbox'[j] = outbox[j]
  BY Zenon DEF SendTerminal, IInv, TypeOK
<1>6. UNCHANGED <<groups, paused_set, canceling_set, acked, aborted, cancelled,
                  status, submitted, cancel_ok, terminal>>
  BY <1>5, Zenon DEF schedVars, obsVars
<1>7. PICK ev \in Event : ev.key = k /\ ev.type = o /\ worker_rx' = Append(worker_rx, ev)
  <2>1. [type |-> o, key |-> k, by |-> t, total |-> FALSE] \in Event
    BY Zenon DEF Event
  <2>2. worker_rx' = Append(worker_rx, [type |-> o, key |-> k, by |-> t, total |-> FALSE])
    BY <1>3, <1>4, Zenon DEF SendTerminal, Send
  <2> QED
    BY <2>1, <2>2, Zenon
<1>8. ASSUME NEW j \in Key \ {k}, NEW type \in TerminalEvent
      PROVE  Answer(j, type)' <=> Answer(j, type)
  BY <1>5, <1>7, AnswerAppend, ZenonT(60)
<1>9. ASSUME NEW type \in TerminalEvent PROVE Answer(k, type)' <=> Answer(k, type)
  <2>1. CASE type = o
    <3>1. Answer(k, type)
      BY <1>4, <2>1, Zenon DEF Answer
    <3>2. Answer(k, type)'
      <4>1. DOMAIN worker_rx' = 1 .. Len(worker_rx) + 1 /\ Len(worker_rx) \in Nat
            /\ worker_rx'[Len(worker_rx) + 1] = ev
        <5>1. worker_rx \in Seq(Event)
          BY Zenon DEF IInv, TypeOK
        <5> QED
          BY <1>7, <5>1, SentFacts, Zenon
      <4>2. Len(worker_rx) + 1 \in DOMAIN worker_rx'
        BY <4>1
      <4> QED
        BY <1>7, <2>1, <4>1, <4>2, Zenon DEF Answer
    <3> QED
      BY <3>1, <3>2, Zenon
  <2>2. CASE type # o
    <3>1. outbox[k] # type /\ outbox'[k] # type
      BY <1>4, <1>5, <2>2, Zenon DEF TerminalEvent
    <3> QED
      BY <1>7, <2>2, <3>1, AnswerAppend, Zenon
  <2> QED
    BY <2>1, <2>2, Zenon
<1>10. WorkerFrame(k)
  BY <1>5, <1>6, <1>8, Zenon DEF WorkerFrame
<1>11. AnswerGate(k)'
  BY <1>3, <1>6, <1>9, Zenon DEF AnswerGate, TerminalEvent
<1>12. Earned(t)' /\ worker'[k] \notin Running
  BY <1>3, <1>5, <1>6, Zenon DEF Earned, Running
<1> QED
  BY <1>2, <1>3, <1>5, <1>10, <1>11, <1>12, WorkerPreserves, Zenon

-----------------------------------------------------------------------------
\* Nothing has happened yet.
LEMMA InitOutcome == Init => OutcomeInv
  BY DEF Init, OutcomeInv, KeyInv, LifeInv, Unseen, Earned

\* A step that changes nothing preserves everything.
LEMMA StutterOutcome ==
  ASSUME OutcomeInv, UNCHANGED vars
  PROVE  Preserved
<1>1. UNCHANGED <<groups, queued_set, paused_set, canceling_set, active, phase, terminal,
                  cancelled, worker, runner, outbox, worker_rx, submitted, status,
                  cancel_ok, acked, aborted>>
  BY Zenon DEF vars, schedVars, workVars, obsVars
<1>2. ASSUME NEW k \in Key PROVE KeyStep(k)
  <2>1. \A type : Answer(k, type)' <=> Answer(k, type)
    BY <1>1, Zenon DEF Answer
  <2>2. KeyInv(k)
    BY Zenon DEF OutcomeInv
  <2> QED
    BY <1>1, <2>1, <2>2, Zenon DEF KeyStep, KeyInv, ActiveGate, RunningGate, AnswerGate, IdleGate
<1>3. ASSUME NEW t \in Task PROVE TaskStep(t)
  <2>1. LifeInv(t)
    BY Zenon DEF OutcomeInv
  <2> QED
    BY <1>1, <2>1, Zenon DEF TaskStep, LifeInv, Unseen, Shown, Earned, MayFollow
<1> QED
  BY <1>2, <1>3, Zenon DEF Preserved

\* Every step of a worker keeps the records honest.
LEMMA WorkerOutcome ==
  ASSUME IInv, OutcomeInv, NEW k \in Key, Worker(k)
  PROVE  Preserved
  BY ProgressPreserves, ClaimPreserves, StopPreserves, DonePreserves, GiveBackPreserves,
     FailPreserves, SendPreserves, Zenon DEF Worker

\* Every command keeps the records honest.
LEMMA CommandOutcome ==
  ASSUME IInv, IInv', OutcomeInv, NEW t \in Task, Command(t), Filtering(KeyOf[t])
  PROVE  Preserved
  BY EnqueueOutcome, DuplicateOutcome, EnqueuePausedOutcome, PauseOutcome, ResumeOutcome,
     CancelActiveOutcome, CancelIdleOutcome, RefuseOutcome, Zenon DEF Command

\* Every step preserves the invariant, and moves each record as it may.
LEMMA NextOutcome ==
  ASSUME IInv, IInv', OutcomeInv, [Next]_vars, \A k \in Key : Filtering(k)
  PROVE  Preserved
<1>1. CASE UNCHANGED vars
  BY <1>1, StutterOutcome, Zenon
<1>2. ASSUME NEW t \in Task, Command(t) PROVE Preserved
  BY <1>2, CommandOutcome, Zenon
<1>3. CASE Close
  BY <1>3, CloseOutcome, Zenon
<1>4. CASE CloseFinish \/ CommandChannelClosed
  BY <1>4, DiscardOutcome, Zenon
<1>5. CASE HandleProgress
  BY <1>5, ProgressOutcome, Zenon
<1>6. CASE HandleTerminal
  BY <1>6, TerminalOutcome, Zenon
<1>7. ASSUME NEW k \in Key, Worker(k) PROVE Preserved
  BY <1>7, WorkerOutcome, Zenon
<1> QED
  BY <1>1, <1>2, <1>3, <1>4, <1>5, <1>6, <1>7, Zenon DEF Next

\* What is preserved is the invariant of the next state.
LEMMA PreservedNext == Preserved => OutcomeInv'
  BY Zenon DEF Preserved, KeyStep, TaskStep, OutcomeInv
=============================================================================
