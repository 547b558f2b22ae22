------------------------- MODULE SchedulerInductive -------------------------
(*****************************************************************************)
(* The inductive invariant of the scheduler and the facts its proof is split *)
(* along: every handler changes the collections and then, at its end, lets   *)
(* try_start_next fill the free slots.                                       *)
(*****************************************************************************)
EXTENDS Scheduler, Integers

InDir(S, d) == {k \in S : DirOf[k] = d}

NoRepeat(q) == \A i, j \in DOMAIN q : q[i] = q[j] => i = j
Elements(q) == {q[i] : i \in DOMAIN q}

\* What a handler has established when it calls try_start_next: the queue q and
\* its mirror agree, hold only live keys that are neither paused nor running,
\* and the counters n are those of the running keys a.
Startable(q, qs, a, n) ==
  /\ q \in Seq(Key) /\ NoRepeat(q) /\ Elements(q) = qs
  /\ a \in SUBSET Key
  /\ \A k \in qs : k \notin paused_set' /\ k \notin a /\ groups'[k] # NoTask
  /\ n \in [Direction -> Nat]
  /\ \A d \in Direction : n[d] = Cardinality(InDir(a, d)) /\ n[d] <= MaxConcurrency[d]

\* The inductive invariant.  The collections can only be shown to stay consistent
\* together with the promise of the workers: that a terminal event is the last
\* one of a key that still holds its slot.
IInv ==
  /\ TypeOK
  /\ Bookkeeping
  /\ QueueMirror
  /\ SlotAccounting
  /\ WorkConserving
  /\ OneAnswerPerWorker
  /\ NoStaleProgress

\* Bookkeeping and OneAnswerPerWorker as they stand inside a handler, just before
\* it calls try_start_next with mirror qs and running keys a.
GroupsDone(qs, a) ==
  /\ groups' \in [Key -> TaskOrNone]
  /\ \A k \in Key : groups'[k] # NoTask => KeyOf[groups'[k]] = k /\ groups'[k] \in submitted'
  /\ {k \in Key : groups'[k] # NoTask} = qs \cup paused_set' \cup a
  /\ canceling_set' \subseteq a \ paused_set'
  /\ \A t \in Task : t \in mapped' <=> groups'[KeyOf[t]] = t /\ KeyOf[t] \notin canceling_set'

WorkersDone(a) ==
  /\ worker \in [Key -> Running \cup {"none", "exit"}]
  /\ runner \in [Key -> TaskOrNone]
  /\ \A k \in Key : /\ worker[k] # "none" => k \in a /\ runner[k] = groups'[k]
                    /\ worker[k] = "exit" <=> outbox'[k] # "none"
  /\ \A k \in a : worker[k] = "none" =>
        \E i \in DOMAIN worker_rx' : worker_rx'[i].key = k /\ worker_rx'[i].type # "Progress"
  /\ \A i \in DOMAIN worker_rx' :
        /\ worker_rx'[i].key \in a /\ worker_rx'[i].by = groups'[worker_rx'[i].key]
        /\ worker_rx'[i].type # "Progress" =>
             /\ worker[worker_rx'[i].key] = "none"
             /\ \A j \in DOMAIN worker_rx' : worker_rx'[j].key = worker_rx'[i].key => j <= i

\* The part of the type invariant that try_start_next does not touch.
RestOK ==
  /\ groups \in [Key -> TaskOrNone] /\ mapped \subseteq Task
  /\ paused_set \subseteq Key /\ canceling_set \subseteq Key
  /\ offsets \in [Key -> TaskOrNone] /\ known_totals \in [Key -> TaskOrNone]
  /\ phase \in {"running", "closing", "closed", "dropped"}
  /\ terminal \in [Task -> GateState]
  /\ outbox \in [Key -> TerminalEvent \cup {"none"}]
  /\ worker_rx \in Seq(Event)
  /\ submitted \subseteq Task /\ cancel_ok \subseteq Task
  /\ acked \subseteq Task /\ aborted \subseteq Task

\* A handler has done its own part and ends in try_start_next.
Reschedules ==
  \E q, qs, a, n : \E c \in SUBSET Key, st \in [Task -> Status] :
    /\ Startable(q, qs, a, n) /\ GroupsDone(qs, a) /\ WorkersDone(a)
    /\ TryStartNext(q, qs, a, n, c, st)
    /\ RestOK' /\ NoStaleProgress'

\* Taking a key off the queue and off its mirror leaves them in agreement.
Filtering(k) ==
  Unqueued(k) \in Seq(Key) /\ NoRepeat(Unqueued(k)) /\ Elements(Unqueued(k)) = queued_set \ {k}

\* remove_active keeps the counters equal to what they count.
Releasing(k) ==
  /\ CountAfterRemove(k) \in [Direction -> Nat]
  /\ \A d \in Direction :
       /\ CountAfterRemove(k)[d] = Cardinality(InDir(active \ {k}, d))
       /\ CountAfterRemove(k)[d] <= MaxConcurrency[d]
=============================================================================
