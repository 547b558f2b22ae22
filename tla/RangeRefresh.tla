---------------------------- MODULE RangeRefresh ----------------------------
(***************************************************************************)
(* A presigned range download (presigned/range_download.rs).  One instance *)
(* is shared by the parts of a task and by tasks; each request is built on *)
(* a blocking thread, in two calls of the protocol that must agree on one  *)
(* plan while other threads replace it.                                    *)
(*                                                                         *)
(* A plan is a generation of URL and headers with an expiry and perhaps a  *)
(* total.  A plan without expiry is one that expires after the last        *)
(* instant.  The refresher is the application's: it may fail, panic, be    *)
(* slow, call the download again, or return a useless plan.                *)
(***************************************************************************)
EXTENDS Naturals

CONSTANTS Threads, Nobody, Tasks,
          Declared,        \* the tasks whose builder gave a total (with_total_size)
          Totals, NoTotal, NoPlan, NoJob,
          RefreshBefore,   \* refresh_before_secs
          Expiries,        \* range_expires_at_unix_secs; None is one past the last instant
          MaxTime,         \* bound on the clock
          MaxGen           \* bound on the generations

VARIABLES now, stopped,
          refresher,  \* url_refresher is there
          plan,       \* the RwLock's plan
          refresh_gate, \* its holder
          active,     \* the threads whose ACTIVE_RANGE_REFRESH has this download
          pending,    \* PENDING_RANGE_URL or PENDING_HEAD_SNAPSHOT of the thread
          url, headers, pc, job, \* the request that the thread builds
          prep,       \* where the prepare of the task is
          frozen,     \* resolved_download_total
          total       \* the total the parts of the task were planned with

threadVars == <<pending, url, headers, pc, job>>
taskVars == <<prep, frozen, total>>
vars == <<now, stopped, refresher, plan, refresh_gate, active, threadVars, taskVars>>

Plans == [gen : 0..MaxGen, expires : Expiries, total : Totals \cup {NoTotal}]
Jobs == [task : Tasks, kind : {"head", "range"}, since : 0..MaxTime]

\* The values that stand for "none" are not
\* values, and instants are numbers.
Constants ==
  /\ Nobody \notin Threads /\ NoPlan \notin Plans /\ NoTotal \notin Totals
  /\ Expiries \subseteq Nat /\ RefreshBefore \in Nat /\ MaxTime \in Nat /\ MaxGen \in Nat

Init ==
  /\ now = 0 /\ stopped = {} /\ refresher \in BOOLEAN
  /\ plan \in {p \in Plans : p.gen = 0}
  /\ refresh_gate = Nobody /\ active = {}
  /\ pending = [t \in Threads |-> NoPlan]
  /\ url = [t \in Threads |-> NoPlan] /\ headers = [t \in Threads |-> NoPlan]
  /\ pc = [t \in Threads |-> "idle"]
  /\ job = [t \in Threads |-> NoJob]
  /\ prep = [k \in Tasks |-> "new"]
  /\ frozen = [k \in Tasks |-> NoTotal] /\ total = [k \in Tasks |-> NoTotal]

-----------------------------------------------------------------------------
(* What a thread looks at                                                  *)

should_refresh_plan(p) == now + RefreshBefore >= p.expires
is_plan_expired(p) == now >= p.expires
ensure_task_active(t) == job[t].task \notin stopped
Agree(m, n) == m = NoTotal \/ n = NoTotal \/ m = n
ensure_task_total_matches_snapshot(t) == Agree(frozen[job[t].task], plan.total)

\* The plan is used as it is: it is not due, or nobody can refresh it and it
\* has not expired.
UsedAsItIs == ~should_refresh_plan(plan) \/ (~refresher /\ ~is_plan_expired(plan))

-----------------------------------------------------------------------------
(* Building a request                                                      *)

\* The closure of build_download_head_request or build_download_range_request
\* starts on a blocking thread; job.since is when.
Start(t, k, kind) ==
  /\ pc[t] \in {"idle", "built"}
  /\ prep[k] = IF kind = "head" THEN "head" ELSE "ready"
  /\ pc' = [pc EXCEPT ![t] = "fresh"]
  /\ job' = [job EXCEPT ![t] = [task |-> k, kind |-> kind, since |-> now]]
  /\ url' = [url EXCEPT ![t] = NoPlan] /\ headers' = [headers EXCEPT ![t] = NoPlan]
  /\ prep' = IF kind = "head" THEN [prep EXCEPT ![k] = "asking"] ELSE prep
  /\ UNCHANGED <<now, stopped, refresher, plan, refresh_gate, active, pending, frozen, total>>

\* The closure fails and the request is dropped.
Fails(t) ==
  /\ pc' = [pc EXCEPT ![t] = "idle"] /\ job' = [job EXCEPT ![t] = NoJob]
  /\ pending' = [pending EXCEPT ![t] = NoPlan]
  /\ url' = [url EXCEPT ![t] = NoPlan] /\ headers' = [headers EXCEPT ![t] = NoPlan]

\* ensure_fresh_snapshot returns p, or fails with NoPlan. A HEAD request has its
\* URL then and remembers what was returned, be it an error. A Range request has
\* its headers and remembers the URL, or fails.
Returns(t, p) ==
  \/ /\ job[t].kind = "head"
     /\ pc' = [pc EXCEPT ![t] = "paired"]
     /\ url' = [url EXCEPT ![t] = p] /\ pending' = [pending EXCEPT ![t] = p]
     /\ UNCHANGED <<headers, job>>
  \/ /\ job[t].kind = "range" /\ p # NoPlan
     /\ pc' = [pc EXCEPT ![t] = "paired"]
     /\ headers' = [headers EXCEPT ![t] = p] /\ pending' = [pending EXCEPT ![t] = p]
     /\ UNCHANGED <<url, job>>
  \/ /\ job[t].kind = "range" /\ p = NoPlan
     /\ Fails(t)

\* ensure_fresh_snapshot up to the gate.
Look(t) ==
  /\ pc[t] = "fresh"
  /\ \/ /\ ~ensure_task_active(t) \/ ~ensure_task_total_matches_snapshot(t)
           \/ (should_refresh_plan(plan) /\ ~refresher /\ is_plan_expired(plan))
        /\ Returns(t, NoPlan)
     \/ /\ ensure_task_active(t) /\ ensure_task_total_matches_snapshot(t) /\ UsedAsItIs
        /\ Returns(t, plan)
     \/ /\ ensure_task_active(t) /\ ensure_task_total_matches_snapshot(t)
        /\ should_refresh_plan(plan) /\ refresher
        /\ pc' = [pc EXCEPT ![t] = "wait"]
        /\ UNCHANGED <<pending, url, headers, job>>
  /\ UNCHANGED <<now, stopped, refresher, plan, refresh_gate, active, taskVars>>

\* The gate is taken, and given back unless the plan is still stale: another
\* thread may have refreshed it meanwhile.
Acquire(t) ==
  /\ pc[t] = "wait" /\ refresh_gate = Nobody
  /\ \/ /\ ~ensure_task_active(t) \/ ~ensure_task_total_matches_snapshot(t)
        /\ Returns(t, NoPlan) /\ UNCHANGED <<refresh_gate, active>>
     \/ /\ ensure_task_active(t) /\ ensure_task_total_matches_snapshot(t) /\ ~should_refresh_plan(plan)
        /\ Returns(t, plan) /\ UNCHANGED <<refresh_gate, active>>
     \/ /\ ensure_task_active(t) /\ ensure_task_total_matches_snapshot(t) /\ should_refresh_plan(plan)
        /\ refresh_gate' = t /\ active' = active \cup {t}
        /\ pc' = [pc EXCEPT ![t] = "refresher"]
        /\ UNCHANGED <<pending, url, headers, job>>
  /\ UNCHANGED <<now, stopped, refresher, plan, taskVars>>

\* The guards of the gate and of the thread's list are dropped.
Leave(t) == refresh_gate' = Nobody /\ active' = active \ {t}

\* The refresher asks the download it is called by for a plan, which is still
\* stale: the nested call is refused, where it would wait for its own gate.
Reenter(t) ==
  /\ pc[t] = "refresher" /\ t \in active
  /\ pc' = [pc EXCEPT ![t] = "refused"]
  /\ UNCHANGED <<now, stopped, refresher, plan, refresh_gate, active, pending, url, headers, job, taskVars>>

\* The refresher fails or panics.
RefreshFails(t) ==
  /\ pc[t] \in {"refresher", "refused"}
  /\ Leave(t) /\ Returns(t, NoPlan)
  /\ UNCHANGED <<now, stopped, refresher, plan, taskVars>>

\* What makes a plan of the refresher acceptable to thread t.
Acceptable(t, p) ==
  /\ ensure_task_active(t) /\ ~is_plan_expired(p)
  /\ Agree(IF frozen[job[t].task] # NoTotal THEN frozen[job[t].task] ELSE plan.total, p.total)

\* The refresher returns a plan, which is published with the known total, or
\* dropped.
RefreshReturns(t) ==
  /\ pc[t] \in {"refresher", "refused"}
  /\ plan.gen < MaxGen
  /\ \E p \in {q \in Plans : q.gen = plan.gen + 1} :
       LET published == [p EXCEPT !.total = IF @ = NoTotal THEN plan.total ELSE @]
       IN IF Acceptable(t, p)
          THEN plan' = published /\ Returns(t, published)
          ELSE UNCHANGED plan /\ Returns(t, NoPlan)
  /\ Leave(t)
  /\ UNCHANGED <<now, stopped, refresher, taskVars>>

\* Faulty variant of Paired: the second call looks the plan up again.
PairedNow(t) == IF pending[t] = NoPlan THEN NoPlan ELSE plan

\* What the second call of the pair uses: what the first one remembered.
Paired(t) == pending[t]

\* The second call. range_url takes the remembered URL, and the contract on the
\* headers may still refuse the request; merge_head_headers takes the remembered
\* snapshot, and fails if that is an error or the task was stopped.
SecondCall(t) ==
  /\ pc[t] = "paired"
  /\ \/ /\ job[t].kind = "range"
        /\ \/ /\ url' = [url EXCEPT ![t] = Paired(t)] /\ pc' = [pc EXCEPT ![t] = "built"]
              /\ pending' = [pending EXCEPT ![t] = NoPlan] /\ UNCHANGED <<headers, job>>
           \/ Fails(t)
        /\ UNCHANGED prep
     \/ /\ job[t].kind = "head" /\ Paired(t) # NoPlan /\ ensure_task_active(t)
        /\ headers' = [headers EXCEPT ![t] = Paired(t)] /\ pc' = [pc EXCEPT ![t] = "built"]
        /\ pending' = [pending EXCEPT ![t] = NoPlan] /\ UNCHANGED <<url, job>>
        /\ prep' = [prep EXCEPT ![job[t].task] = "sent"]
     \/ /\ job[t].kind = "head" /\ (Paired(t) = NoPlan \/ ~ensure_task_active(t))
        /\ Fails(t)
        /\ prep' = [prep EXCEPT ![job[t].task] = "new"]
  /\ UNCHANGED <<now, stopped, refresher, plan, refresh_gate, active, frozen, total>>

-----------------------------------------------------------------------------
(* The prepare of a task                                                   *)

\* download_prepare takes the total from the plan, else from the builder, else
\* it asks the server. Only the server's total is frozen.
Prepare(k) ==
  /\ prep[k] = "new"
  /\ \/ /\ plan.total # NoTotal
        /\ prep' = [prep EXCEPT ![k] = "ready"] /\ total' = [total EXCEPT ![k] = plan.total]
     \/ /\ plan.total = NoTotal /\ k \in Declared
        /\ prep' = [prep EXCEPT ![k] = "ready"] /\ UNCHANGED total
     \/ /\ plan.total = NoTotal /\ k \notin Declared
        /\ prep' = [prep EXCEPT ![k] = "head"] /\ UNCHANGED total
  /\ UNCHANGED <<now, stopped, refresher, plan, refresh_gate, active, threadVars, frozen>>

\* The HEAD request of task k is answered, or fails: total_size_from_head
\* compares the answer with the plan of now, not with the one the request was
\* signed with.
HeadAnswered(k) ==
  /\ prep[k] = "sent"
  /\ \/ \E m \in Totals :
          /\ Agree(m, plan.total)
          /\ prep' = [prep EXCEPT ![k] = "ready"]
          /\ frozen' = [frozen EXCEPT ![k] = m] /\ total' = [total EXCEPT ![k] = m]
     \/ /\ prep' = [prep EXCEPT ![k] = "new"]
        /\ UNCHANGED <<frozen, total>>
  /\ UNCHANGED <<now, stopped, refresher, plan, refresh_gate, active, threadVars>>

-----------------------------------------------------------------------------
(* The world                                                               *)

Tick ==
  /\ now < MaxTime /\ now' = now + 1
  /\ UNCHANGED <<stopped, refresher, plan, refresh_gate, active, threadVars, taskVars>>

Stop(k) ==
  /\ k \notin stopped /\ stopped' = stopped \cup {k}
  /\ UNCHANGED <<now, refresher, plan, refresh_gate, active, threadVars, taskVars>>

\* A resume after a pause (reset_pause).
Resume(k) ==
  /\ k \in stopped /\ stopped' = stopped \ {k}
  /\ UNCHANGED <<now, refresher, plan, refresh_gate, active, threadVars, taskVars>>

ThreadStep(t) ==
  \/ Look(t) \/ Acquire(t) \/ RefreshFails(t) \/ RefreshReturns(t) \/ SecondCall(t)

Next ==
  \/ \E t \in Threads :
       \/ \E k \in Tasks, kind \in {"head", "range"} : Start(t, k, kind)
       \/ ThreadStep(t) \/ Reenter(t)
  \/ \E k \in Tasks : Prepare(k) \/ HeadAnswered(k) \/ Stop(k) \/ Resume(k)
  \/ Tick

Spec == Init /\ [][Next]_vars

-----------------------------------------------------------------------------
(* Properties                                                              *)

\* The URL and the headers of a request are of one plan, which had not expired
\* when the building of the request began (merge_range_get_headers, range_url,
\* head_url, merge_head_headers).
OneGeneration ==
  \A t \in Threads : pc[t] = "built" =>
    url[t] = headers[t] /\ url[t] # NoPlan /\ url[t].expires > job[t].since

\* The plan of a Range request has no total, or the one the parts of its task
\* were planned with, as far as that came from a plan or from the server
\* (ensure_task_total_matches_snapshot, ensure_fresh_snapshot).
PlannedTotal ==
  \A t \in Threads : pc[t] = "built" /\ job[t].kind = "range" =>
    Agree(url[t].total, total[job[t].task])

\* One thread refreshes at a time, and the plan it was given is the current one,
\* which is due: no refresh replaces a plan its refresher has not seen
\* (ensure_fresh_snapshot).
OneRefresh ==
  \A t \in Threads : pc[t] \in {"refresher", "refused"} =>
    refresh_gate = t /\ active = {t} /\ should_refresh_plan(plan)

\* Thread t is building a request.
Building(t) == pc[t] \notin {"idle", "built"}

=============================================================================
