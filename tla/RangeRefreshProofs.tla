------------------------- MODULE RangeRefreshProofs -------------------------
(***************************************************************************)
(* The signing of presigned requests, for any number of threads and tasks, *)
(* any clock and any number of refreshes: a request is of one plan.        *)
(***************************************************************************)
EXTENDS RangeRefresh, TLAPS

Refreshing(t) == pc[t] \in {"refresher", "refused"}
TotalOrNone == Totals \cup {NoTotal}

TypeOK ==
  /\ now \in 0..MaxTime /\ plan \in Plans
  /\ pending \in [Threads -> Plans \cup {NoPlan}]
  /\ url \in [Threads -> Plans \cup {NoPlan}] /\ headers \in [Threads -> Plans \cup {NoPlan}]
  /\ pc \in [Threads -> {"idle", "fresh", "wait", "refresher", "refused", "paired", "built"}]
  /\ job \in [Threads -> Jobs \cup {NoJob}]
  /\ prep \in [Tasks -> {"new", "head", "asking", "sent", "ready"}]
  /\ frozen \in [Tasks -> TotalOrNone] /\ total \in [Tasks -> TotalOrNone]

\* The total of a task is frozen, or it is the total of the plan.
TaskInv(k) ==
  /\ frozen[k] # NoTotal => total[k] = frozen[k]
  /\ total[k] # NoTotal => prep[k] = "ready" /\ (frozen[k] = total[k] \/ plan.total = total[k])

\* What a thread relies on between its steps.
ThreadInv(t) ==
  /\ pc[t] # "idle" =>
       /\ job[t] \in Jobs /\ job[t].since <= now
       /\ job[t].kind = "range" => prep[job[t].task] = "ready"
       /\ job[t].kind = "head" /\ pc[t] # "built" => prep[job[t].task] = "asking"
  /\ Refreshing(t) =>
       /\ refresh_gate = t /\ should_refresh_plan(plan)
       /\ Agree(frozen[job[t].task], plan.total)
  /\ pc[t] = "paired" /\ pending[t] # NoPlan => pending[t].expires > job[t].since
  /\ pc[t] = "paired" /\ job[t].kind = "head" => url[t] = pending[t]
  /\ pc[t] = "paired" /\ job[t].kind = "range" =>
       headers[t] = pending[t] /\ pending[t] # NoPlan /\ Agree(pending[t].total, total[job[t].task])
  /\ pc[t] = "built" => url[t] = headers[t] /\ url[t] # NoPlan /\ url[t].expires > job[t].since
  /\ pc[t] = "built" /\ job[t].kind = "range" => Agree(url[t].total, total[job[t].task])

\* At most one thread builds the HEAD request of a task.
OneHead ==
  \A t, u \in Threads :
    /\ Building(t) /\ Building(u) /\ job[t].kind = "head" /\ job[u].kind = "head"
    /\ job[t].task = job[u].task
    => t = u

IInv ==
  /\ TypeOK /\ OneHead
  /\ active = IF refresh_gate = Nobody THEN {} ELSE {refresh_gate}
  /\ \A k \in Tasks : TaskInv(k)
  /\ \A t \in Threads : ThreadInv(t)

-----------------------------------------------------------------------------

\* A thread that a step does not touch keeps what it relies on, if the step
\* leaves ready tasks, its own task and, during its refresh, the plan alone.
LEMMA Untouched ==
  ASSUME Constants, IInv, NEW u \in Threads,
         pc'[u] = pc[u], job'[u] = job[u], pending'[u] = pending[u],
         url'[u] = url[u], headers'[u] = headers[u],
         now' \in 0..MaxTime, now <= now',
         \A k \in Tasks : prep[k] = "ready" =>
           prep'[k] = "ready" /\ total'[k] = total[k] /\ frozen'[k] = frozen[k],
         Building(u) /\ job[u].kind = "head" =>
           prep'[job[u].task] = prep[job[u].task] /\ frozen'[job[u].task] = frozen[job[u].task],
         Refreshing(u) => plan' = plan /\ refresh_gate' = refresh_gate
  PROVE  ThreadInv(u)'
<1>1. ThreadInv(u)
  BY Zenon DEF IInv
<1>2. CASE pc[u] = "idle"
  BY <1>2, Zenon DEF ThreadInv, Refreshing
<1>3. CASE pc[u] # "idle"
  <2>1. job[u] \in Jobs /\ job[u].task \in Tasks /\ job[u].kind \in {"head", "range"}
        /\ job[u].since \in Nat /\ now \in Nat /\ now' \in Nat
    BY <1>1, <1>3 DEF ThreadInv, Jobs, Constants, IInv, TypeOK
  <2>2. /\ job[u].kind = "range" => prep[job[u].task] = "ready"
        /\ job[u].kind = "head" /\ pc[u] # "built" => prep[job[u].task] = "asking" /\ Building(u)
    BY <1>1, <1>3, Zenon DEF ThreadInv, Building
  <2>3. /\ job[u].kind = "range" =>
              /\ prep'[job[u].task] = "ready" /\ total'[job[u].task] = total[job[u].task]
              /\ frozen'[job[u].task] = frozen[job[u].task]
        /\ job[u].kind = "head" /\ pc[u] # "built" =>
              prep'[job[u].task] = "asking" /\ frozen'[job[u].task] = frozen[job[u].task]
    BY <2>1, <2>2, Zenon
  <2>4. Refreshing(u) =>
          /\ refresh_gate' = u /\ should_refresh_plan(plan)'
          /\ Agree(frozen'[job[u].task], plan'.total)
    <3> SUFFICES ASSUME Refreshing(u)
                 PROVE  /\ refresh_gate' = u /\ should_refresh_plan(plan)'
                        /\ Agree(frozen'[job[u].task], plan'.total)
      BY Zenon
    <3>1. plan' = plan /\ refresh_gate' = u /\ frozen'[job[u].task] = frozen[job[u].task]
      BY <1>1, <2>1, <2>3, Zenon DEF ThreadInv, Refreshing
    <3>2. plan.expires \in Nat /\ RefreshBefore \in Nat
      BY Zenon DEF IInv, TypeOK, Plans, Constants
    <3> QED
      BY <1>1, <2>1, <3>1, <3>2 DEF ThreadInv, should_refresh_plan, Agree
  <2> QED
    BY <1>1, <1>3, <2>1, <2>3, <2>4 DEF ThreadInv, Refreshing, Agree
<1> QED
  BY <1>2, <1>3, Zenon

LocalTypes ==
  /\ pending \in [Threads -> Plans \cup {NoPlan}]
  /\ url \in [Threads -> Plans \cup {NoPlan}] /\ headers \in [Threads -> Plans \cup {NoPlan}]
  /\ pc \in [Threads -> {"idle", "fresh", "wait", "refresher", "refused", "paired", "built"}]
  /\ job \in [Threads -> Jobs \cup {NoJob}]

\* The step is one of thread t.
OnlyOf(t) ==
  \A u \in Threads \ {t} :
    /\ pc'[u] = pc[u] /\ job'[u] = job[u] /\ pending'[u] = pending[u]
    /\ url'[u] = url[u] /\ headers'[u] = headers[u]

\* No new HEAD request is begun if the threads that build did so before.
LEMMA HeadsKept ==
  ASSUME OneHead, \A u \in Threads : Building(u)' => Building(u) /\ job'[u] = job[u]
  PROVE  OneHead'
BY Zenon DEF OneHead

\* A thread that has dropped its request relies on nothing.
LEMMA Failed ==
  ASSUME Constants, IInv, NEW t \in Threads, Fails(t)
  PROVE  LocalTypes' /\ OnlyOf(t) /\ ThreadInv(t)' /\ OneHead' /\ ~Refreshing(t)'
<1>1. /\ pc' = [pc EXCEPT ![t] = "idle"] /\ job' = [job EXCEPT ![t] = NoJob]
      /\ pending' = [pending EXCEPT ![t] = NoPlan]
      /\ url' = [url EXCEPT ![t] = NoPlan] /\ headers' = [headers EXCEPT ![t] = NoPlan]
  BY Zenon DEF Fails
<1>2. LocalTypes
  BY Zenon DEF IInv, TypeOK, LocalTypes
<1>3. LocalTypes' /\ OnlyOf(t) /\ pc'[t] = "idle"
  BY <1>1, <1>2, Zenon DEF LocalTypes, OnlyOf
<1>4. OneHead'
  <2>1. \A u \in Threads : Building(u)' => Building(u) /\ job'[u] = job[u]
    BY <1>3, Zenon DEF Building, OnlyOf
  <2> QED
    BY <2>1, HeadsKept, Zenon DEF IInv
<1> QED
  BY <1>3, <1>4, Zenon DEF ThreadInv, Refreshing

\* What ensure_fresh_snapshot returns is what the request is built from.
LEMMA Returned ==
  ASSUME Constants, IInv, NEW t \in Threads, NEW p \in Plans \cup {NoPlan},
         pc[t] \in {"fresh", "wait", "refresher", "refused"},
         p # NoPlan => /\ p.expires > job[t].since
                       /\ job[t].kind = "range" => Agree(p.total, total[job[t].task]),
         Returns(t, p), UNCHANGED <<now, taskVars>>
  PROVE  LocalTypes' /\ OnlyOf(t) /\ ThreadInv(t)' /\ OneHead' /\ ~Refreshing(t)'
<1>1. LocalTypes /\ ThreadInv(t) /\ job[t] \in Jobs /\ now \in Nat
  BY DEF IInv, TypeOK, LocalTypes, ThreadInv, Constants
<1>2. CASE Fails(t)
  BY <1>2, Failed, Zenon
<1>3. ASSUME ~Fails(t)
      PROVE  LocalTypes' /\ OnlyOf(t) /\ ThreadInv(t)' /\ OneHead' /\ ~Refreshing(t)'
  <2>1. /\ pc' = [pc EXCEPT ![t] = "paired"] /\ pending' = [pending EXCEPT ![t] = p]
        /\ job' = job
        /\ \/ job[t].kind = "head" /\ url' = [url EXCEPT ![t] = p] /\ headers' = headers
           \/ job[t].kind = "range" /\ p # NoPlan /\ headers' = [headers EXCEPT ![t] = p] /\ url' = url
    BY <1>3, Zenon DEF Returns
  <2>2. LocalTypes' /\ OnlyOf(t)
    BY <1>1, <2>1 DEF LocalTypes, OnlyOf
  <2>3. pc'[t] = "paired" /\ pending'[t] = p /\ job'[t] = job[t]
        /\ (job[t].kind = "head" => url'[t] = p) /\ (job[t].kind = "range" => headers'[t] = p /\ p # NoPlan)
    BY <1>1, <2>1, Zenon DEF LocalTypes
  <2>4. ThreadInv(t)'
    BY <1>1, <2>3, Zenon DEF ThreadInv, Refreshing, taskVars, Agree
  <2>5. \A u \in Threads : Building(u)' => Building(u) /\ job'[u] = job[u]
    BY <2>1, <2>2, Zenon DEF Building, OnlyOf
  <2>6. OneHead'
    BY <2>5, HeadsKept, Zenon DEF IInv
  <2> QED
    BY <2>2, <2>3, <2>4, <2>6, Zenon DEF Refreshing
<1> QED
  BY <1>2, <1>3, Zenon

\* A plan that is not due, or not expired, was good when the building began, and
\* one that agrees with the frozen total agrees with the total of the task.
LEMMA PlanIsGood ==
  ASSUME Constants, IInv, NEW t \in Threads, pc[t] # "idle",
         ensure_task_total_matches_snapshot(t)
  PROVE  /\ ~should_refresh_plan(plan) \/ ~is_plan_expired(plan) => plan.expires > job[t].since
         /\ Agree(plan.total, total[job[t].task])
<1>1. /\ job[t].task \in Tasks /\ job[t].since \in Nat /\ now \in Nat /\ job[t].since <= now
      /\ plan.expires \in Nat /\ RefreshBefore \in Nat
  <2>1. job[t] \in Jobs /\ job[t].since <= now
    BY Zenon DEF IInv, ThreadInv
  <2>2. now \in 0..MaxTime /\ plan \in Plans
    BY Zenon DEF IInv, TypeOK
  <2>3. /\ MaxTime \in Nat /\ RefreshBefore \in Nat /\ Expiries \subseteq Nat
    BY Zenon DEF Constants
  <2>4. job[t].task \in Tasks /\ job[t].since \in 0..MaxTime
    BY <2>1, Zenon DEF Jobs
  <2>5. plan.expires \in Expiries
    BY <2>2, Zenon DEF Plans
  <2>6. job[t].since \in Nat /\ now \in Nat
    BY <2>2, <2>3, <2>4
  <2>7. plan.expires \in Nat
    BY <2>3, <2>5, Zenon
  <2> QED
    BY <2>1, <2>3, <2>4, <2>6, <2>7, Zenon
<1>2. TaskInv(job[t].task)
  BY <1>1, Zenon DEF IInv
<1>3. ~should_refresh_plan(plan) \/ ~is_plan_expired(plan) => plan.expires > job[t].since
  BY <1>1 DEF should_refresh_plan, is_plan_expired
<1>4. Agree(plan.total, total[job[t].task])
  BY <1>2, Zenon DEF TaskInv, Agree, ensure_task_total_matches_snapshot
<1> QED
  BY <1>3, <1>4, Zenon

\* A step of thread t that leaves the tasks and the plan alone, and the gate
\* unless t holds it or takes it, keeps the invariant if t does.
LEMMA OneThread ==
  ASSUME Constants, IInv, NEW t \in Threads,
         LocalTypes', OnlyOf(t), ThreadInv(t)', OneHead', UNCHANGED <<now, plan, taskVars>>,
         active' = IF refresh_gate' = Nobody THEN {} ELSE {refresh_gate'},
         refresh_gate \in {Nobody, t} \/ refresh_gate' = refresh_gate
  PROVE  IInv'
<1>1. TypeOK'
  BY Zenon DEF IInv, TypeOK, LocalTypes, taskVars
<1>2. \A k \in Tasks : TaskInv(k)'
  BY Zenon DEF IInv, TaskInv, taskVars
<1>3. ASSUME NEW u \in Threads, u # t PROVE ThreadInv(u)'
  <2>1. /\ pc'[u] = pc[u] /\ job'[u] = job[u] /\ pending'[u] = pending[u]
        /\ url'[u] = url[u] /\ headers'[u] = headers[u]
    BY <1>3, Zenon DEF OnlyOf
  <2>2. Refreshing(u) => plan' = plan /\ refresh_gate' = refresh_gate
    <3>1. u # Nobody
      BY DEF Constants
    <3>2. Refreshing(u) => refresh_gate = u
      BY Zenon DEF IInv, ThreadInv
    <3> QED
      BY <1>3, <3>1, <3>2, Zenon
  <2>3. now' \in 0..MaxTime /\ now <= now' /\ now' = now
    BY DEF IInv, TypeOK, Constants
  <2>4. prep' = prep /\ frozen' = frozen /\ total' = total
    BY Zenon DEF taskVars
  <2> QED
    BY <2>1, <2>2, <2>3, <2>4, Untouched, Zenon
<1> QED
  BY <1>1, <1>2, <1>3, Zenon DEF IInv

\* A thread looks at the plan: it takes it, waits for the gate, or fails.
LEMMA LookKeeps ==
  ASSUME Constants, IInv, NEW t \in Threads, Look(t)
  PROVE  IInv'
<1>1. LocalTypes' /\ OnlyOf(t) /\ ThreadInv(t)' /\ OneHead'
  <2>1. CASE Returns(t, NoPlan)
    BY <2>1, Returned, Zenon DEF Look
  <2>2. CASE ensure_task_total_matches_snapshot(t) /\ UsedAsItIs /\ Returns(t, plan)
    <3>1. plan.expires > job[t].since /\ Agree(plan.total, total[job[t].task])
      BY <2>2, PlanIsGood, Zenon DEF Look, UsedAsItIs
    <3>2. plan \in Plans
      BY Zenon DEF IInv, TypeOK
    <3> QED
      BY <2>2, <3>1, <3>2, Returned, Zenon DEF Look
  <2>3. CASE pc' = [pc EXCEPT ![t] = "wait"] /\ UNCHANGED <<pending, url, headers, job>>
    <3>1. LocalTypes' /\ OnlyOf(t) /\ pc'[t] = "wait" /\ pc[t] = "fresh"
      BY <2>3, Zenon DEF IInv, TypeOK, LocalTypes, OnlyOf, Look
    <3>2. ThreadInv(t)'
      BY <2>3, <3>1, Zenon DEF IInv, ThreadInv, Refreshing, Look, taskVars
    <3>3. \A u \in Threads : Building(u)' => Building(u) /\ job'[u] = job[u]
      BY <2>3, <3>1, Zenon DEF Building, OnlyOf
    <3> QED
      BY <3>1, <3>2, <3>3, HeadsKept, Zenon DEF IInv
  <2> QED
    BY <2>1, <2>2, <2>3, Zenon DEF Look
<1> QED
  BY <1>1, OneThread, Zenon DEF Look, IInv

\* A thread behind the gate takes the plan another has published, or refreshes it.
LEMMA AcquireKeeps ==
  ASSUME Constants, IInv, NEW t \in Threads, Acquire(t)
  PROVE  IInv'
<1>1. pc[t] = "wait" /\ refresh_gate = Nobody /\ active = {} /\ plan \in Plans
  BY Zenon DEF Acquire, IInv, TypeOK
<1>2. CASE Returns(t, NoPlan) /\ UNCHANGED <<refresh_gate, active>>
  <2>1. LocalTypes' /\ OnlyOf(t) /\ ThreadInv(t)' /\ OneHead'
    BY <1>1, <1>2, Returned, Zenon DEF Acquire
  <2> QED
    BY <1>1, <1>2, <2>1, OneThread, Zenon DEF Acquire
<1>3. CASE /\ ensure_task_total_matches_snapshot(t) /\ ~should_refresh_plan(plan)
           /\ Returns(t, plan) /\ UNCHANGED <<refresh_gate, active>>
  <2>1. plan.expires > job[t].since /\ Agree(plan.total, total[job[t].task])
    BY <1>1, <1>3, PlanIsGood, Zenon
  <2>2. LocalTypes' /\ OnlyOf(t) /\ ThreadInv(t)' /\ OneHead'
    BY <1>1, <1>3, <2>1, Returned, Zenon DEF Acquire
  <2> QED
    BY <1>1, <1>3, <2>2, OneThread, Zenon DEF Acquire
<1>4. CASE /\ ensure_task_total_matches_snapshot(t) /\ should_refresh_plan(plan)
           /\ refresh_gate' = t /\ active' = active \cup {t}
           /\ pc' = [pc EXCEPT ![t] = "refresher"]
           /\ UNCHANGED <<pending, url, headers, job>>
  <2>1. LocalTypes' /\ OnlyOf(t) /\ pc'[t] = "refresher"
    BY <1>4, Zenon DEF IInv, TypeOK, LocalTypes, OnlyOf
  <2>2. active' = {t} /\ refresh_gate' # Nobody
    BY <1>1, <1>4, Zenon DEF Constants
  <2>3. ThreadInv(t)'
    BY <1>1, <1>4, <2>1, Zenon DEF IInv, ThreadInv, Refreshing, Acquire, taskVars,
       ensure_task_total_matches_snapshot, should_refresh_plan, Agree
  <2>4. \A u \in Threads : Building(u)' => Building(u) /\ job'[u] = job[u]
    BY <1>1, <1>4, <2>1, Zenon DEF Building, OnlyOf
  <2>5. OneHead'
    BY <2>4, HeadsKept, Zenon DEF IInv
  <2> QED
    BY <1>1, <1>4, <2>1, <2>2, <2>3, <2>5, OneThread, Zenon DEF Acquire
<1> QED
  BY <1>2, <1>3, <1>4, Zenon DEF Acquire

\* The refresher calls back, fails or panics; the gate is given back.
LEMMA RefresherKeeps ==
  ASSUME Constants, IInv, NEW t \in Threads,
         \/ Reenter(t) \/ RefreshFails(t)
  PROVE  IInv'
<1>1. refresh_gate = t /\ t # Nobody /\ active = {t}
  BY DEF Reenter, RefreshFails, IInv, ThreadInv, Refreshing, Constants
<1>2. CASE Reenter(t)
  <2>1. LocalTypes' /\ OnlyOf(t) /\ pc'[t] = "refused" /\ job' = job
    BY <1>2, Zenon DEF IInv, TypeOK, LocalTypes, OnlyOf, Reenter
  <2>2. ThreadInv(t)'
    BY <1>2, <2>1, ZenonT(60) DEF IInv, ThreadInv, Refreshing, Reenter, taskVars, should_refresh_plan
  <2>3. \A u \in Threads : Building(u)' => Building(u) /\ job'[u] = job[u]
    BY <1>2, <2>1, Zenon DEF Building, OnlyOf, Reenter
  <2>4. OneHead'
    BY <2>3, HeadsKept, Zenon DEF IInv
  <2> QED
    BY <1>1, <1>2, <2>1, <2>2, <2>4, OneThread, Zenon DEF Reenter
<1>3. CASE RefreshFails(t)
  <2>1. LocalTypes' /\ OnlyOf(t) /\ ThreadInv(t)' /\ OneHead'
    BY <1>3, Returned, Zenon DEF RefreshFails
  <2>2. refresh_gate' = Nobody /\ active' = {}
    BY <1>1, <1>3, Zenon DEF RefreshFails, Leave
  <2> QED
    BY <1>1, <1>3, <2>1, <2>2, OneThread, Zenon DEF RefreshFails
<1> QED
  BY <1>2, <1>3, Zenon

\* What is published keeps the total of the plan it replaces, agrees with the
\* total of the task, and expires later than the building began.
LEMMA Published ==
  ASSUME Constants, IInv, NEW t \in Threads, Refreshing(t), NEW p \in Plans, Acceptable(t, p),
         NEW q, q = [p EXCEPT !.total = IF @ = NoTotal THEN plan.total ELSE @]
  PROVE  /\ q \in Plans /\ (plan.total # NoTotal => q.total = plan.total)
         /\ q.expires > job[t].since
         /\ Agree(q.total, total[job[t].task])
<1>1. /\ job[t] \in Jobs /\ job[t].since <= now /\ Agree(frozen[job[t].task], plan.total)
  BY Zenon DEF IInv, ThreadInv, Refreshing
<1>2. now \in 0..MaxTime /\ plan \in Plans
  BY Zenon DEF IInv, TypeOK
<1>3. q \in Plans /\ q.expires = p.expires /\ q.total = IF p.total = NoTotal THEN plan.total ELSE p.total
  BY <1>2, Zenon DEF Plans
<1>4. TaskInv(job[t].task)
  BY <1>1, Zenon DEF IInv, Jobs
<1>5. q.expires > job[t].since
  <2>1. now \in Nat /\ job[t].since \in Nat /\ p.expires \in Nat
    BY <1>1, <1>2 DEF Jobs, Plans, Constants
  <2> QED
    BY <1>1, <1>3, <2>1 DEF Acceptable, is_plan_expired
<1>6. plan.total # NoTotal => q.total = plan.total
  BY <1>1, <1>3, Zenon DEF Acceptable, Agree
<1>7. Agree(q.total, total[job[t].task])
  BY <1>1, <1>3, <1>4, <1>6, Zenon DEF Acceptable, Agree, TaskInv
<1> QED
  BY <1>3, <1>5, <1>6, <1>7, Zenon

\* The refresher returns a plan, which replaces the one it was given or is dropped.
LEMMA RefreshReturnsKeeps ==
  ASSUME Constants, IInv, NEW t \in Threads, RefreshReturns(t)
  PROVE  IInv'
<1>1. refresh_gate = t /\ t # Nobody /\ active = {t} /\ Refreshing(t)
  BY DEF RefreshReturns, IInv, ThreadInv, Refreshing, Constants
<1>2. refresh_gate' = Nobody /\ active' = {}
  BY <1>1, Zenon DEF RefreshReturns, Leave
<1>3. CASE plan' = plan /\ Returns(t, NoPlan)
  <2>1. LocalTypes' /\ OnlyOf(t) /\ ThreadInv(t)' /\ OneHead'
    BY <1>3, Returned, Zenon DEF RefreshReturns
  <2> QED
    BY <1>1, <1>2, <1>3, <2>1, OneThread, Zenon DEF RefreshReturns
<1>4. ASSUME NEW p \in Plans, Acceptable(t, p), NEW q, plan' = q, Returns(t, q),
             q = [p EXCEPT !.total = IF @ = NoTotal THEN plan.total ELSE @]
      PROVE  IInv'
  <2>1. /\ q \in Plans /\ (plan.total # NoTotal => q.total = plan.total)
        /\ q.expires > job[t].since /\ Agree(q.total, total[job[t].task])
    BY <1>1, <1>4, Published, Zenon
  <2>2. LocalTypes' /\ OnlyOf(t) /\ ThreadInv(t)' /\ OneHead'
    BY <1>4, <2>1, Returned, Zenon DEF RefreshReturns
  <2>3. prep' = prep /\ frozen' = frozen /\ total' = total /\ now' = now
    BY Zenon DEF RefreshReturns, taskVars
  <2>4. TypeOK'
    BY <1>4, <2>1, <2>2, <2>3, Zenon DEF IInv, TypeOK, LocalTypes
  <2>5. \A k \in Tasks : TaskInv(k)'
    BY <1>4, <2>1, <2>3, Zenon DEF IInv, TaskInv
  <2>6. ASSUME NEW u \in Threads, u # t PROVE ThreadInv(u)'
    <3>1. /\ pc'[u] = pc[u] /\ job'[u] = job[u] /\ pending'[u] = pending[u]
          /\ url'[u] = url[u] /\ headers'[u] = headers[u]
      BY <2>2, <2>6, Zenon DEF OnlyOf
    <3>2. ~Refreshing(u)
      BY <1>1, <2>6, Zenon DEF IInv, ThreadInv
    <3>3. now' \in 0..MaxTime /\ now <= now'
      BY <2>3 DEF IInv, TypeOK, Constants
    <3> QED
      BY <2>3, <3>1, <3>2, <3>3, Untouched, Zenon
  <2> QED
    BY <1>2, <2>2, <2>4, <2>5, <2>6, Zenon DEF IInv
<1> QED
  BY <1>3, <1>4, Zenon DEF RefreshReturns

\* The second call of the pair completes the request from what the first remembered.
LEMMA SecondCallKeeps ==
  ASSUME Constants, IInv, NEW t \in Threads, SecondCall(t)
  PROVE  IInv'
<1> DEFINE k == job[t].task
<1>1. /\ pc[t] = "paired" /\ job[t] \in Jobs /\ k \in Tasks /\ job[t].kind \in {"head", "range"}
      /\ ThreadInv(t) /\ LocalTypes /\ job[t].since <= now
  BY Zenon DEF SecondCall, IInv, ThreadInv, Jobs, TypeOK, LocalTypes
<1>2. /\ UNCHANGED <<now, plan, refresh_gate, active, frozen, total>>
      /\ now' \in 0..MaxTime /\ now <= now'
  <2>1. UNCHANGED <<now, plan, refresh_gate, active, frozen, total>> /\ now \in 0..MaxTime
    BY Zenon DEF SecondCall, IInv, TypeOK
  <2> QED
    BY <2>1 DEF Constants
<1>3. /\ prep' = prep \/ (job[t].kind = "head" /\ \E s \in {"sent", "new"} : prep' = [prep EXCEPT ![k] = s])
      /\ \A j \in Tasks : prep'[j] = prep[j] \/ (j = k /\ job[t].kind = "head" /\ prep[k] = "asking")
  <2>1. prep' = prep \/ (job[t].kind = "head" /\ \E s \in {"sent", "new"} : prep' = [prep EXCEPT ![k] = s])
    BY Zenon DEF SecondCall
  <2>2. prep \in [Tasks -> {"new", "head", "asking", "sent", "ready"}]
    BY Zenon DEF IInv, TypeOK
  <2>3. job[t].kind = "head" => prep[k] = "asking"
    BY <1>1, Zenon DEF ThreadInv
  <2> QED
    BY <2>1, <2>2, <2>3, Zenon
<1>4. LocalTypes' /\ OnlyOf(t) /\ ThreadInv(t)' /\ OneHead' /\ ~Building(t)'
  <2>1. CASE Fails(t)
    BY <2>1, Failed, <1>1, ZenonT(60) DEF Building, Fails, LocalTypes
  <2>2. ASSUME ~Fails(t)
        PROVE  LocalTypes' /\ OnlyOf(t) /\ ThreadInv(t)' /\ OneHead' /\ ~Building(t)'
    <3>1. /\ pc' = [pc EXCEPT ![t] = "built"] /\ pending' = [pending EXCEPT ![t] = NoPlan]
          /\ job' = job /\ pending[t] # NoPlan
          /\ \/ job[t].kind = "head" /\ headers' = [headers EXCEPT ![t] = pending[t]] /\ url' = url
             \/ job[t].kind = "range" /\ url' = [url EXCEPT ![t] = pending[t]] /\ headers' = headers
      BY <1>1, <2>2, Zenon DEF SecondCall, Paired, ThreadInv
    <3>2. pending[t] \in Plans \cup {NoPlan}
      BY <1>1, Zenon DEF LocalTypes
    <3>3. LocalTypes' /\ OnlyOf(t)
      BY <1>1, <3>1, <3>2, Zenon DEF LocalTypes, OnlyOf
    <3>4. pc'[t] = "built" /\ url'[t] = pending[t] /\ headers'[t] = pending[t] /\ job'[t] = job[t]
      BY <1>1, <3>1, Zenon DEF LocalTypes, ThreadInv
    <3>5. job[t].kind = "range" => prep'[k] = "ready"
      BY <1>1, <1>3, Zenon DEF ThreadInv
    <3>6. ThreadInv(t)'
      BY <1>1, <1>2, <3>1, <3>4, <3>5, Zenon DEF ThreadInv, Refreshing, Agree
    <3>7. \A u \in Threads : Building(u)' => Building(u) /\ job'[u] = job[u]
      BY <3>1, <3>3, <3>4, Zenon DEF Building, OnlyOf
    <3> QED
      BY <3>3, <3>4, <3>6, <3>7, HeadsKept, Zenon DEF IInv, Building
  <2> QED
    BY <2>1, <2>2, Zenon
<1>5. TypeOK'
  <2>1. prep' \in [Tasks -> {"new", "head", "asking", "sent", "ready"}]
    BY <1>3, Zenon DEF IInv, TypeOK
  <2> QED
    BY <1>2, <1>4, <2>1, Zenon DEF IInv, TypeOK, LocalTypes
<1>6. \A j \in Tasks : TaskInv(j)'
  BY <1>2, <1>3, Zenon DEF IInv, TaskInv
<1>7. ASSUME NEW u \in Threads, u # t PROVE ThreadInv(u)'
  <2>1. /\ pc'[u] = pc[u] /\ job'[u] = job[u] /\ pending'[u] = pending[u]
        /\ url'[u] = url[u] /\ headers'[u] = headers[u]
    BY <1>4, <1>7, Zenon DEF OnlyOf
  <2>2. \A j \in Tasks : prep[j] = "ready" =>
          prep'[j] = "ready" /\ total'[j] = total[j] /\ frozen'[j] = frozen[j]
    BY <1>2, <1>3, Zenon
  <2>3. Building(u) /\ job[u].kind = "head" =>
          prep'[job[u].task] = prep[job[u].task] /\ frozen'[job[u].task] = frozen[job[u].task]
    <3> SUFFICES ASSUME Building(u), job[u].kind = "head"
                 PROVE  prep'[job[u].task] = prep[job[u].task]
      BY <1>2, Zenon
    <3>1. job[u].task \in Tasks
      BY Zenon DEF IInv, ThreadInv, Building, Jobs
    <3>2. ~(job[u].task = k /\ job[t].kind = "head")
      BY <1>1, <1>7, Zenon DEF IInv, OneHead, Building
    <3> QED
      BY <1>3, <3>1, <3>2, Zenon
  <2> QED
    BY <1>2, <2>1, <2>2, <2>3, Untouched, Zenon
<1> QED
  BY <1>2, <1>4, <1>5, <1>6, <1>7, Zenon DEF IInv

\* A thread starts on a request; a HEAD request only if no other thread builds it.
LEMMA StartKeeps ==
  ASSUME Constants, IInv, NEW t \in Threads, NEW k \in Tasks, NEW kind \in {"head", "range"},
         Start(t, k, kind)
  PROVE  IInv'
<1> DEFINE new == [task |-> k, kind |-> kind, since |-> now]
<1>1. LocalTypes /\ now \in 0..MaxTime /\ now \in Nat
  BY DEF IInv, TypeOK, LocalTypes, Constants
<1>2. new \in Jobs
  BY <1>1, Zenon DEF Jobs
<1>3. /\ pc' = [pc EXCEPT ![t] = "fresh"] /\ job' = [job EXCEPT ![t] = new]
      /\ url' = [url EXCEPT ![t] = NoPlan] /\ headers' = [headers EXCEPT ![t] = NoPlan]
      /\ pending' = pending /\ UNCHANGED <<now, plan, refresh_gate, active, frozen, total>>
  BY Zenon DEF Start
<1>4. LocalTypes' /\ OnlyOf(t) /\ pc'[t] = "fresh" /\ job'[t] = new
  BY <1>1, <1>2, <1>3, Zenon DEF LocalTypes, OnlyOf
<1>5. /\ prep' \in [Tasks -> {"new", "head", "asking", "sent", "ready"}]
      /\ \A j \in Tasks : prep'[j] = prep[j] \/ (j = k /\ kind = "head" /\ prep[j] = "head")
      /\ kind = "head" => prep[k] = "head" /\ prep'[k] = "asking"
      /\ kind = "range" => prep'[k] = "ready"
  BY Zenon DEF Start, IInv, TypeOK
<1>6. TypeOK'
  BY <1>3, <1>4, <1>5, Zenon DEF IInv, TypeOK, LocalTypes
<1>7. \A j \in Tasks : TaskInv(j)'
  BY <1>3, <1>5, Zenon DEF IInv, TaskInv
<1>8. ThreadInv(t)'
  <2>1. new.task = k /\ new.kind = kind /\ new.since = now
    BY Zenon
  <2> HIDE DEF new
  <2> QED
    BY <1>1, <1>2, <1>3, <1>4, <1>5, <2>1 DEF ThreadInv, Refreshing
<1>9. ASSUME NEW u \in Threads, u # t
      PROVE  ThreadInv(u)' /\ (Building(u) /\ job[u].kind = "head" => job[u].task # k \/ kind = "range")
  <2>1. /\ pc'[u] = pc[u] /\ job'[u] = job[u] /\ pending'[u] = pending[u]
        /\ url'[u] = url[u] /\ headers'[u] = headers[u]
    BY <1>4, <1>9, Zenon DEF OnlyOf
  <2>2. Building(u) /\ job[u].kind = "head" => job[u].task \in Tasks /\ prep[job[u].task] = "asking"
    BY Zenon DEF IInv, ThreadInv, Building, Jobs
  <2>3. Building(u) /\ job[u].kind = "head" => prep'[job[u].task] = prep[job[u].task]
    BY <1>5, <2>2, Zenon
  <2>4. ThreadInv(u)'
    BY <1>1, <1>3, <1>5, <2>1, <2>3, Untouched
  <2> QED
    BY <1>5, <2>2, <2>4, Zenon
<1>10. OneHead'
  <2> SUFFICES ASSUME NEW v \in Threads, NEW u \in Threads, Building(v)', Building(u)',
                      job'[v].kind = "head", job'[u].kind = "head", job'[v].task = job'[u].task
               PROVE  v = u
    BY Zenon DEF OneHead
  <2>1. new.task = k /\ new.kind = kind
    BY Zenon
  <2> HIDE DEF new
  <2>2. \A w \in Threads \ {t} : /\ job'[w] = job[w] /\ (Building(w)' => Building(w))
                               /\ ThreadInv(w)'
                               /\ (Building(w) /\ job[w].kind = "head" => job[w].task # k \/ kind = "range")
    BY <1>4, <1>9, Zenon DEF OnlyOf, Building
  <2>3. CASE v # t /\ u # t
    BY <2>2, <2>3, Zenon DEF IInv, OneHead
  <2>4. CASE v = t \/ u = t
    BY <1>4, <2>1, <2>2, <2>4, Zenon
  <2> QED
    BY <2>3, <2>4, Zenon
<1> QED
  BY <1>3, <1>6, <1>7, <1>8, <1>9, <1>10, Zenon DEF IInv

\* The steps of the prepare, which no thread that builds is disturbed by.
LEMMA PrepareKeeps ==
  ASSUME Constants, IInv, NEW k \in Tasks, Prepare(k) \/ HeadAnswered(k)
  PROVE  IInv'
<1>1. UNCHANGED <<now, plan, refresh_gate, active, pending, url, headers, pc, job>>
  BY Zenon DEF Prepare, HeadAnswered, threadVars
<1>2. plan \in Plans /\ plan.total \in TotalOrNone /\ now \in 0..MaxTime /\ now <= now'
  BY <1>1 DEF IInv, TypeOK, Plans, TotalOrNone, Constants
<1>3. prep[k] \in {"new", "sent"} /\ frozen[k] = NoTotal /\ total[k] = NoTotal
  BY Zenon DEF Prepare, HeadAnswered, IInv, TaskInv
<1>4. \E s \in {"new", "head", "ready"}, f \in TotalOrNone, m \in TotalOrNone :
        /\ prep' = [prep EXCEPT ![k] = s] /\ frozen' = [frozen EXCEPT ![k] = f]
        /\ total' = [total EXCEPT ![k] = m]
        /\ f # NoTotal => m = f
        /\ m # NoTotal => s = "ready" /\ (f = m \/ plan.total = m)
  <2>1. frozen = [frozen EXCEPT ![k] = NoTotal] /\ total = [total EXCEPT ![k] = NoTotal]
    BY <1>3, Zenon DEF IInv, TypeOK
  <2>2. NoTotal \in TotalOrNone /\ \A m \in Totals : m \in TotalOrNone
    BY Zenon DEF TotalOrNone
  <2>3. CASE Prepare(k)
    BY <1>2, <2>1, <2>2, <2>3, Zenon DEF Prepare
  <2>4. CASE HeadAnswered(k)
    BY <2>1, <2>2, <2>4, Zenon DEF HeadAnswered
  <2> QED
    BY <2>3, <2>4, Zenon
<1>5. PICK s \in {"new", "head", "ready"}, f \in TotalOrNone, m \in TotalOrNone :
        /\ prep' = [prep EXCEPT ![k] = s] /\ frozen' = [frozen EXCEPT ![k] = f]
        /\ total' = [total EXCEPT ![k] = m]
        /\ f # NoTotal => m = f
        /\ m # NoTotal => s = "ready" /\ (f = m \/ plan.total = m)
  BY <1>4, Zenon
<1>6. TypeOK'
  BY <1>1, <1>5, Zenon DEF IInv, TypeOK
<1>7. /\ prep'[k] = s /\ frozen'[k] = f /\ total'[k] = m
      /\ \A j \in Tasks \ {k} : prep'[j] = prep[j] /\ frozen'[j] = frozen[j] /\ total'[j] = total[j]
  BY <1>5, Zenon DEF IInv, TypeOK
<1>8. \A j \in Tasks : TaskInv(j)'
  BY <1>1, <1>5, <1>7 DEF IInv, TaskInv
<1>9. ASSUME NEW u \in Threads PROVE ThreadInv(u)'
  <2>1. Building(u) /\ job[u].kind = "head" => job[u].task \in Tasks \ {k}
    BY <1>3, Zenon DEF IInv, ThreadInv, Building, Jobs
  <2>2. \A j \in Tasks : prep[j] = "ready" =>
          prep'[j] = "ready" /\ total'[j] = total[j] /\ frozen'[j] = frozen[j]
    BY <1>3, <1>7, Zenon
  <2> QED
    BY <1>1, <1>2, <1>7, <2>1, <2>2, Untouched, Zenon
<1>10. OneHead'
  BY <1>1, Zenon DEF IInv, OneHead, Building
<1> QED
  BY <1>1, <1>6, <1>8, <1>9, <1>10, Zenon DEF IInv

\* Time passes, and tasks are stopped and resumed.
LEMMA WorldKeeps ==
  ASSUME Constants, IInv,
         \/ Tick \/ UNCHANGED vars
         \/ \E k \in Tasks : Stop(k) \/ Resume(k)
  PROVE  IInv'
<1>1. UNCHANGED <<plan, refresh_gate, active, pending, url, headers, pc, job, prep, frozen, total>>
  BY Zenon DEF Tick, Stop, Resume, vars, threadVars, taskVars
<1>2. now' \in 0..MaxTime /\ now <= now'
  BY DEF Tick, Stop, Resume, vars, IInv, TypeOK, Constants
<1>3. TypeOK' /\ OneHead' /\ \A k \in Tasks : TaskInv(k)'
  BY <1>1, <1>2, Zenon DEF IInv, TypeOK, OneHead, Building, TaskInv
<1>4. \A u \in Threads : ThreadInv(u)'
  BY <1>1, <1>2, Untouched, Zenon
<1> QED
  BY <1>1, <1>3, <1>4, Zenon DEF IInv

\* Nothing is built yet.
LEMMA InitHolds ==
  ASSUME Constants, Init
  PROVE  IInv
<1>1. TypeOK
  BY DEF Init, TypeOK, TotalOrNone, Constants
<1>2. OneHead /\ \A t \in Threads : ThreadInv(t)
  BY Zenon DEF Init, OneHead, ThreadInv, Refreshing, Building
<1>3. \A k \in Tasks : TaskInv(k)
  BY Zenon DEF Init, TaskInv
<1> QED
  BY <1>1, <1>2, <1>3, Zenon DEF IInv, Init

\* However many threads build requests for however many tasks with one plan that
\* is refreshed meanwhile: URL and headers are of one plan that had not expired
\* when the building began, its total is the one the task was planned with, and
\* one thread refreshes at a time, the plan it was given (PresignedRangeDownload).
THEOREM RequestsAreOfOnePlan ==
  ASSUME Constants
  PROVE  Spec => [](OneGeneration /\ PlannedTotal /\ OneRefresh)
<1>1. Init => IInv
  BY InitHolds, Zenon
<1>2. IInv /\ [Next]_vars => IInv'
  <2> SUFFICES ASSUME IInv, [Next]_vars PROVE IInv'
    BY Zenon
  <2>1. ASSUME NEW t \in Threads, NEW k \in Tasks, NEW kind \in {"head", "range"}, Start(t, k, kind)
        PROVE  IInv'
    BY <2>1, StartKeeps, Zenon
  <2>2. ASSUME NEW t \in Threads, ThreadStep(t) \/ Reenter(t)
        PROVE  IInv'
    BY <2>2, LookKeeps, AcquireKeeps, RefresherKeeps, RefreshReturnsKeeps, SecondCallKeeps, Zenon
       DEF ThreadStep
  <2>3. ASSUME NEW k \in Tasks, Prepare(k) \/ HeadAnswered(k)
        PROVE  IInv'
    BY <2>3, PrepareKeeps, Zenon
  <2>4. CASE \/ Tick \/ UNCHANGED vars
             \/ \E k \in Tasks : Stop(k) \/ Resume(k)
    BY <2>4, WorldKeeps, Zenon
  <2> QED
    BY <2>1, <2>2, <2>3, <2>4, Zenon DEF Next
<1>3. IInv => OneGeneration /\ PlannedTotal /\ OneRefresh
  BY DEF IInv, ThreadInv, Refreshing, OneGeneration, PlannedTotal, OneRefresh, Constants
<1> QED
  BY <1>1, <1>2, <1>3, PTL DEF Spec

=============================================================================
