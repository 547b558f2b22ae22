---------------------------- MODULE SerialDownload ----------------------------
(***************************************************************************)
(* A download of one target range after range: the serial branch of        *)
(* prepare (dflt/default_http_transfer.rs), download_one_chunk             *)
(* (dflt/default_http_transfer_chunks.rs), which streams a response into   *)
(* the target while it holds the file mutex, and the checkpoints that take *)
(* first download_checkpoint_barrier and then that mutex                   *)
(* (transfer_task.rs).  The target is as long as what was downloaded; a    *)
(* sidecar left by a parallel run may have gaps.                           *)
(*                                                                         *)
(* file and side are what the operating system shows; safe and safeSide    *)
(* are what would survive a power loss.                                    *)
(***************************************************************************)
EXTENDS DownloadProgress

CONSTANTS MaxRuns, MaxRetries, MaxFaults, MaxCrashes, MaxTampers, MaxChanges

VARIABLES remote, file, safe, side, safeSide,
          pc,        \* where the worker is
          start,     \* length of the target when prepare looked
          prog,      \* the DownloadProgress of this run
          next,      \* the part at offset
          got,       \* generation of the response being streamed
          holder,    \* who holds download_checkpoint_barrier, for what
          step,      \* what the holder does next
          streaming, \* whether a response holds the mutex of download_file_slot
          timers,    \* checkpoint timers asleep
          kept,      \* the last checkpoint that was reported done (history)
          spent

diskVars == <<file, safe, side, safeSide, kept>>
runVars == <<pc, start, prog, next, got>>
lockVars == <<holder, step, streaming, timers>>
vars == <<remote, diskVars, runVars, lockVars, spent>>

Bounds == [run |-> MaxRuns, retry |-> MaxRetries, fault |-> MaxFaults,
           refuse |-> MaxFaults, crash |-> MaxCrashes, tamper |-> MaxTampers, change |-> MaxChanges]

Spend(kind) == spent[kind] < Bounds[kind] /\ spent' = [spent EXCEPT ![kind] = @ + 1]

\* What a parallel run may leave: a full-length target and a bitmap of it.
Left(S) == [i \in Parts |-> IF i \in S THEN 1 ELSE Hole]

Init ==
  /\ remote = 1
  /\ \/ file \in {NoFile, [len |-> Total + 1, body |-> [i \in Parts |-> Foreign]]} /\ side = NoSidecar
     \/ \E S \in SUBSET Parts :
          file = [len |-> Total, body |-> Left(S)] /\ side = [id |-> 1, done |-> Left(S)]
  /\ safe = file /\ safeSide = side /\ kept = NoSidecar
  /\ pc = "idle" /\ start = 0 /\ prog = Fresh(Unverified) /\ next = 0 /\ got = Hole
  /\ holder = "nobody" /\ step = "none" /\ streaming = FALSE /\ timers = 0
  /\ spent = [k \in DOMAIN Bounds |-> 0]

Goto(p) == pc' = p

-----------------------------------------------------------------------------
(* Prepare                                                                 *)

\* download_prepare: stat, HEAD and the sidecar; a longer target is refused.
Load ==
  /\ pc = "idle" /\ Spend("run")
  /\ start' = file.len
  /\ IF file.len > Total THEN Goto("idle") /\ UNCHANGED prog
     ELSE Goto("loaded") /\ prog' = LoadOrCreateSerial(file, side, remote)
  /\ UNCHANGED <<remote, diskVars, next, got, lockVars>>

\* ensure_download_target_file_locked and the comparison with what was seen.
LockTarget ==
  /\ pc = "loaded"
  /\ Goto(IF file.len = start THEN "compact" ELSE "settle")
  /\ UNCHANGED <<remote, diskVars, start, prog, next, got, lockVars, spent>>

\* retain_serial_download_contiguous_progress: cut the target to the verified
\* prefix and sync it, before the sidecar is compacted to that prefix.
Truncated == SetLen(file, Watermark(prog.done))

Compact ==
  /\ pc = "compact" /\ holder = "nobody"
  /\ \/ /\ file' = Truncated /\ safe' = Truncated
        /\ holder' = "compact" /\ step' = "persist" /\ Goto("waiting") /\ UNCHANGED spent
     \/ /\ Spend("fault") /\ Goto("settle") /\ file' \in {file, Truncated}
        /\ UNCHANGED <<safe, holder, step>>
  /\ UNCHANGED <<remote, side, safeSide, kept, start, prog, next, got, streaming, timers>>

-----------------------------------------------------------------------------
(* One range                                                               *)

\* The request and the checks of its headers; another generation is refused,
\* a stop ends the loop, and past the last part the download is finalized.
\* The response holds the file mutex while it is streamed.
Ask ==
  /\ pc = "chunk"
  /\ \/ next \in Parts /\ remote = prog.validator
        /\ Goto("stream") /\ streaming' = TRUE /\ got' = remote
     \/ next \in Parts /\ Goto("settle") /\ UNCHANGED <<streaming, got>>
     \/ next \notin Parts /\ Goto("finalize") /\ UNCHANGED <<streaming, got>>
  /\ UNCHANGED <<remote, diskVars, start, prog, next, holder, step, timers, spent>>

Longer(len) == IF file.len > len THEN file.len ELSE len

\* Some of the body is written.
StreamSome ==
  /\ pc = "stream" /\ Goto("torn")
  /\ file' = [len |-> Longer(PartStart(next) + 1), body |-> [file.body EXCEPT ![next] = Foreign]]
  /\ UNCHANGED <<remote, safe, side, safeSide, kept, start, prog, next, got, lockVars, spent>>

\* The rest of the body and the flush.
StreamRest ==
  /\ pc = "torn" /\ Goto("flushed")
  /\ file' = [len |-> Longer(PartEnd(next)),
              body |-> [file.body EXCEPT ![next] = IF file.len > PartStart(next) THEN got ELSE Foreign]]
  /\ UNCHANGED <<remote, safe, side, safeSide, kept, start, prog, next, got, lockVars, spent>>

\* Faulty variant of FreesMutex: the guard lives to the end of the function.
FreesMutexLate == UNCHANGED streaming

\* The file mutex goes back before the barrier is asked for.
FreesMutex == streaming' = FALSE

\* ensure_download_file_present.
Look ==
  /\ pc = "flushed" /\ FreesMutex
  /\ Goto(IF file.len >= PartEnd(next) THEN "stage" ELSE "settle")
  /\ UNCHANGED <<remote, diskVars, start, prog, next, got, holder, step, timers, spent>>

\* rollback_download_file.
RolledBack == SetLen(file, PartStart(next))

\* The response breaks off (retried) or is not what was asked for, or the disk
\* refuses (not retried).  What was written is cut off again, and a refusal
\* to cut is only logged.
StreamFails ==
  /\ pc \in {"stream", "torn"} /\ streaming' = FALSE
  /\ \E on \in {"chunk", "settle"} :
       /\ Goto(on)
       /\ IF pc = "stream" THEN Spend("retry") /\ UNCHANGED file
          ELSE \/ Spend("retry") /\ file' = RolledBack
               \/ Spend("refuse") /\ UNCHANGED file
  /\ UNCHANGED <<remote, safe, side, safeSide, kept, start, prog, next, got, holder, step, timers>>

NextOffset == next + 1

\* stage_serial_download_part.
Stage ==
  /\ pc = "stage" /\ holder = "nobody"
  /\ \E elapsed \in BOOLEAN :
       LET staged == Staged(prog, next, got, elapsed) IN
       IF CheckpointDue(prog, next, elapsed)
       THEN /\ prog' = Begun(staged) /\ holder' = "worker" /\ step' = "sync" /\ Goto("waiting")
            /\ UNCHANGED <<next, timers>>
       ELSE /\ prog' = staged /\ next' = NextOffset /\ Goto("chunk")
            /\ timers' = timers + (IF ArmsTimer(prog, next, elapsed) THEN 1 ELSE 0)
            /\ UNCHANGED <<holder, step>>
  /\ UNCHANGED <<remote, diskVars, start, got, streaming, spent>>

-----------------------------------------------------------------------------
(* Checkpoints: for a batch, of a timer, at the end, and of the compaction *)

Leave(p) == holder' = "nobody" /\ step' = "none" /\ Goto(p)

CheckpointFails ==
  /\ Spend("fault")
  /\ CASE holder = "timer" -> Leave(pc)
       [] holder \in {"compact", "worker"} -> Leave("settle")
       [] OTHER -> step' = "release" /\ UNCHANGED <<holder, pc>>

CheckpointDone ==
  CASE holder = "timer" -> Leave(pc) /\ UNCHANGED next
    [] holder = "compact" -> Leave("chunk") /\ next' = Cardinality(PrefixParts(prog.done))
    [] holder = "worker" -> Leave("chunk") /\ next' = NextOffset
    [] holder = "settle" -> step' = "release" /\ UNCHANGED <<holder, pc, next>>
    [] holder = "final" -> step' = "validate" /\ UNCHANGED <<holder, pc, next>>

Synced == file

\* The handle is synced under the file mutex.
Sync ==
  /\ step = "sync" /\ ~streaming
  /\ \/ safe' = Synced /\ step' = "persist" /\ UNCHANGED <<holder, pc, spent>>
     \/ CheckpointFails /\ UNCHANGED safe
  /\ UNCHANGED <<remote, file, side, safeSide, kept, start, prog, next, got, streaming, timers>>

NextSnapshot == IF holder = "compact" THEN PrefixSnapshot(prog) ELSE Snapshot(prog)

NextProgress == IF holder = "compact" THEN Compacted(prog) ELSE Committed(prog)

\* persist_snapshot_atomic up to the rename.
Persist ==
  /\ step = "persist"
  /\ \/ /\ side' = Encode(prog.id, NextSnapshot) /\ step' = "publish"
        /\ UNCHANGED <<holder, pc, spent>>
     \/ CheckpointFails /\ UNCHANGED side
  /\ UNCHANGED <<remote, file, safe, safeSide, kept, start, prog, next, got, streaming, timers>>

\* The sync of the directory, and only then the bits in memory.
Publish ==
  /\ step = "publish"
  /\ \/ /\ safeSide' = side /\ prog' = NextProgress
        /\ kept' = Encode(prog.id, NextSnapshot)
        /\ CheckpointDone /\ UNCHANGED spent
     \/ CheckpointFails /\ UNCHANGED <<safeSide, prog, kept, next>>
  /\ UNCHANGED <<remote, file, safe, side, start, got, streaming, timers>>

\* arm_download_checkpoint_timer: the barrier first, then the file mutex.
TimerFires ==
  /\ timers > 0 /\ holder = "nobody" /\ timers' = timers - 1
  /\ IF prog.armed /\ Set(prog.pending) # {} THEN holder' = "timer" /\ step' = "sync"
     ELSE UNCHANGED <<holder, step>>
  /\ prog' = IF prog.armed THEN Begun(prog) ELSE prog
  /\ UNCHANGED <<remote, diskVars, pc, start, next, got, streaming, spent>>

-----------------------------------------------------------------------------
(* The end of a run                                                        *)

\* settle_failed_download_target and finalize_download_content begin with a
\* checkpoint of what is pending.
LastCheckpoint(at, who, then) ==
  /\ pc = at /\ holder = "nobody" /\ holder' = who /\ Goto("waiting")
  /\ prog' = Begun(prog)
  /\ step' = IF Set(prog.pending) # {} THEN "sync" ELSE then
  /\ UNCHANGED <<remote, diskVars, start, next, got, streaming, timers, spent>>

Settle == LastCheckpoint("settle", "settle", "release")

Finalize == LastCheckpoint("finalize", "final", "validate")

\* release_download_target_file_lock: sync_all may fail, the handle is closed.
ReleaseTarget ==
  /\ step = "release" /\ Leave("idle")
  /\ safe' \in {file, safe}
  /\ UNCHANGED <<remote, file, side, safeSide, kept, start, prog, next, got, streaming, timers, spent>>

\* finalize_download_content.
Validate ==
  /\ step = "validate"
  /\ \/ /\ ValidContent(prog, file) /\ AllDone(prog)
        /\ side' \in {NoSidecar, side} /\ kept' = NoSidecar
        /\ \/ safe' = file /\ Leave("done") /\ UNCHANGED spent
           \/ Spend("fault") /\ Leave("idle") /\ UNCHANGED safe
     \/ /\ ~(ValidContent(prog, file) /\ AllDone(prog))
        /\ Leave("idle") /\ safe' = file /\ UNCHANGED <<side, kept, spent>>
  /\ UNCHANGED <<remote, file, safeSide, start, prog, next, got, streaming, timers>>

-----------------------------------------------------------------------------
(* The surroundings                                                        *)

Change ==
  /\ Spend("change") /\ remote' \in Gen \ {remote}
  /\ UNCHANGED <<diskVars, runVars, lockVars>>

\* What was not synced may or may not be there after a crash.
Crash ==
  /\ Spend("crash")
  /\ \E S \in SUBSET Parts, len \in {file.len, safe.len} :
       file' = SetLen([len |-> Total + 1,
                       body |-> [i \in Parts |-> IF i \in S THEN file.body[i] ELSE safe.body[i]]], len)
  /\ safe' = file'
  /\ side' \in {side, safeSide} /\ safeSide' = side'
  /\ pc' = "idle" /\ prog' = Fresh(Unverified) /\ next' = 0 /\ got' = Hole
  /\ holder' = "nobody" /\ step' = "none" /\ streaming' = FALSE /\ timers' = 0
  /\ UNCHANGED <<remote, kept, start>>

\* Someone else writes into the target or cuts it.
Tamper ==
  /\ pc # "done" /\ Spend("tamper")
  /\ \/ \E i \in Parts : file.len >= PartEnd(i) /\ file' = [file EXCEPT !.body[i] = Foreign]
     \/ file' = SetLen(file, 0)
  /\ safe' = file'
  /\ UNCHANGED <<remote, side, safeSide, kept, runVars, lockVars>>

WorkerStep ==
  \/ Load \/ LockTarget \/ Compact \/ Ask \/ StreamSome \/ StreamRest \/ Look \/ StreamFails
  \/ Stage \/ Settle \/ Finalize

HolderStep == Sync \/ Persist \/ Publish \/ ReleaseTarget \/ Validate

Next == WorkerStep \/ HolderStep \/ TimerFires \/ Change \/ Crash \/ Tamper

Spec == Init /\ [][Next]_vars

\* Tokio runs what is runnable and the server answers.
FairSpec == Spec /\ WF_vars(WorkerStep) /\ WF_vars(HolderStep)

-----------------------------------------------------------------------------
(* Properties                                                              *)

\* A download that completes leaves the whole object, all of one generation.
CompletesWhole ==
  pc = "done" =>
    /\ file.len = Total
    /\ \E g \in Gen : \A i \in Parts : file.body[i] = g

\* Before each request the target ends exactly where the range begins: a torn
\* tail, a sparse bit or a failed attempt never counts as progress
\* (transfer_task.rs:733, default_http_transfer_chunks.rs:160).
PrefixLayout ==
  pc = "chunk" /\ spent.tamper = 0 /\ spent.refuse = 0 =>
    /\ file.len = (IF next \in Parts THEN PartStart(next) ELSE Total)
    /\ \A i \in Parts : i < next <=> prog.done[i] # Hole \/ prog.pending[i] # Hole

\* A checkpoint once reported done is found again by the next run of the same
\* generation, whatever crash came between, torn tail or not.
KeptSurvives ==
  pc = "loaded" /\ spent.tamper = 0 /\ prog.id = kept.id =>
    \A i \in Set(kept.done) : prog.done[i] = kept.done[i]

\* A run ends: the worker that waits for the barrier and the timer that waits
\* for the file mutex do not wait for each other.
RunEnds == pc = "loaded" ~> pc \in {"idle", "done"}

=============================================================================
