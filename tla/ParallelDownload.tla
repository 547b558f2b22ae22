--------------------------- MODULE ParallelDownload ---------------------------
(***************************************************************************)
(* A download of one target in parallel parts: prepare                     *)
(* (dflt/default_http_transfer.rs), the ranges                             *)
(* (dflt/default_http_transfer_chunks.rs), the writes, checkpoints, timers *)
(* and the final validation (transfer_task.rs), with the target and its    *)
(* sidecar on a disk that can fail, lose power or be changed by someone    *)
(* else, and a remote object that can be replaced.                         *)
(*                                                                         *)
(* file and side are what the operating system shows; safe and safeSide    *)
(* are what would survive a power loss.                                    *)
(***************************************************************************)
EXTENDS DownloadProgress

CONSTANTS Window,       \* max_parts_in_flight
          Etags,        \* whether the server sends strong ETags
          Heads,        \* whether prepare sends a HEAD or has the size given
          MaxRuns,      \* executions of the task: first run, resumes, restarts
          MaxRetries,   \* network failures of a part that are retried
          MaxFaults,    \* failing file operations
          MaxCrashes,   \* process crashes or power losses
          MaxTampers,   \* changes of the target by someone else
          MaxChanges    \* replacements of the remote object

VARIABLES remote,     \* generation the server holds
          file, safe, side, safeSide,
          orphan,     \* the file the open handle writes to once the path is another file
          phase,      \* where the group is
          start,      \* length of the target when prepare looked
          want,       \* the generation HEAD saw, or Unverified
          prog,       \* the DownloadProgress of this run
          pc, got,    \* state of each part and generation of its response
          holder,     \* who holds download_checkpoint_barrier
          step,       \* what the holder does next
          timers,     \* checkpoint timers asleep
          kept,       \* the last checkpoint that was reported done (history)
          spent       \* how often each bounded event has happened

Constants ==
  /\ Total \in Nat /\ Chunk \in Nat \ {0} /\ MaxGen \in Nat \ {0}
  /\ Etags \in BOOLEAN /\ Heads \in BOOLEAN

diskVars == <<file, safe, side, safeSide, orphan, kept>>
runVars == <<phase, start, want, prog, pc, got>>
vars == <<remote, diskVars, runVars, holder, step, timers, spent>>

Nobody == 0 - 1
Timer == 0 - 2
Settler == 0 - 3
Finisher == 0 - 4

Bounds == [run |-> MaxRuns, retry |-> MaxRetries, fault |-> MaxFaults,
           crash |-> MaxCrashes, tamper |-> MaxTampers, change |-> MaxChanges]

MaySpend(kind) == spent[kind] < Bounds[kind]
Spend(kind) == MaySpend(kind) /\ spent' = [spent EXCEPT ![kind] = @ + 1]

ForeignFile == [len : {Total, Total + 1}, body : {[i \in Parts |-> Foreign]}]

\* The target may exist already, with bytes nobody vouches for.
Init ==
  /\ remote = 1
  /\ file \in {NoFile} \cup ForeignFile
  /\ safe = file /\ side = NoSidecar /\ safeSide = NoSidecar /\ orphan = NoFile /\ kept = NoSidecar
  /\ phase = "idle" /\ start = 0 /\ want = Unverified /\ prog = Fresh(Unverified)
  /\ pc = [i \in Parts |-> "todo"] /\ got = NoParts
  /\ holder = Nobody /\ step = "none" /\ timers = 0
  /\ spent = [k \in DOMAIN Bounds |-> 0]

-----------------------------------------------------------------------------
(* Prepare                                                                 *)

\* download_prepare: the length of the target, then HEAD.
Head ==
  /\ phase \in {"idle", "done"} /\ Spend("run")
  /\ phase' = "headed" /\ start' = file.len
  /\ want' = IF Heads /\ Etags THEN remote ELSE Unverified
  /\ UNCHANGED <<remote, diskVars, prog, pc, got, holder, step, timers>>

\* load_download_progress_off_thread.
LoadProgress(id) ==
  IF id = Unverified THEN Fresh(Unverified) ELSE LoadOrCreate(file, side, id)

Load ==
  /\ phase = "headed" /\ phase' = "loaded"
  /\ prog' = LoadProgress(want)
  /\ UNCHANGED <<remote, diskVars, start, want, pc, got, holder, step, timers, spent>>

\* download_prepare_finish: the lock creates a missing target, a length other
\* than the one seen fails the task, and the target gets its full length; the
\* sync of that may fail after set_len.
\* The stage is the last that can fail: parts not done are then dispatched.
LockTarget ==
  /\ phase = "loaded"
  /\ \/ /\ file.len = start
        /\ file' = SetLen(file, Total) /\ safe' = SetLen(file, Total)
        /\ phase' = "running"
        /\ UNCHANGED spent
     \/ /\ file.len # start /\ phase' = "settling"
        /\ UNCHANGED <<file, safe, spent>>
     \/ /\ file.len = start /\ Spend("fault") /\ phase' = "settling"
        /\ file' \in {file, SetLen(file, Total)} /\ UNCHANGED safe
  /\ orphan' = NoFile
  /\ kept' = IF prog.id = kept.id THEN kept ELSE NoSidecar
  /\ pc' = [i \in Parts |-> "todo"] /\ got' = NoParts
  /\ UNCHANGED <<remote, side, safeSide, start, want, prog, holder, step, timers>>

-----------------------------------------------------------------------------
(* Parts                                                                   *)

InFlight == {i \in Parts : pc[i] \in {"asked", "body", "writing"}}
Todo == {i \in Parts : pc[i] = "todo"}

\* No more parts are dispatched: the group only waits for those in flight.
Ending ==
  \/ phase \in {"draining", "settling"}
  \/ phase = "running" /\ \E i \in Parts : pc[i] = "failed"

\* transfer_chunk_part: a part that is done needs no request.
Dispatch ==
  /\ phase = "running" /\ ~Ending /\ Cardinality(InFlight) < Window
  /\ \E i \in Todo :
       /\ \A j \in Todo : i <= j
       /\ pc' = [pc EXCEPT ![i] = IF IsDone(prog, i) THEN "ok" ELSE "asked"]
  /\ UNCHANGED <<remote, diskVars, phase, start, want, prog, got, holder, step, timers, spent>>

\* validate_or_latch_range_validator: one strong validator for the whole
\* download, and none only when a single range is the whole object.
Acceptable(g) ==
  IF Etags THEN prog.validator \in {Unverified, g}
  ELSE prog.validator = Unverified /\ Total <= Chunk

\* download_one_chunk_part_positioned up to its header checks.  The server
\* answers with what it holds then, and a part that is refused fails the group.
Respond(i) ==
  /\ pc[i] = "asked"
  /\ IF Acceptable(remote)
     THEN /\ pc' = [pc EXCEPT ![i] = "body"] /\ got' = [got EXCEPT ![i] = remote]
          /\ prog' = [prog EXCEPT !.validator = IF Etags THEN remote ELSE @]
     ELSE pc' = [pc EXCEPT ![i] = "failed"] /\ UNCHANGED <<got, prog>>
  /\ UNCHANGED <<remote, diskVars, phase, start, want, holder, step, timers, spent>>

\* A body that breaks off is an HttpError: the part is asked for again.
BodyFails(i) ==
  /\ pc[i] = "body" /\ Spend("retry")
  /\ pc' = [pc EXCEPT ![i] = "asked"] /\ got' = [got EXCEPT ![i] = Hole]
  /\ UNCHANGED <<remote, diskVars, phase, start, want, prog, holder, step, timers>>

\* write_and_stage_download_part.
TakeBarrier(i) ==
  /\ pc[i] = "body" /\ holder = Nobody
  /\ pc' = [pc EXCEPT ![i] = "writing"] /\ holder' = i /\ step' = "write"
  /\ UNCHANGED <<remote, diskVars, phase, start, want, prog, got, timers, spent>>

\* The holder of the barrier gives it up; a part ends with it.
Release(outcome) ==
  /\ holder' = Nobody /\ step' = "none"
  /\ pc' = IF holder \in Parts THEN [pc EXCEPT ![holder] = outcome] ELSE pc

HeldFile == IF orphan = NoFile THEN file ELSE orphan

WritePart(f, i, c) == [f EXCEPT !.body[i] = c]

SetHeld(f) ==
  IF orphan = NoFile THEN file' = f /\ UNCHANGED orphan ELSE orphan' = f /\ UNCHANGED file

Write ==
  /\ step = "write"
  /\ \/ /\ HeldFile.len < PartEnd(holder)
        /\ Release("failed") /\ UNCHANGED <<file, orphan, spent>>
     \/ /\ HeldFile.len >= PartEnd(holder)
        /\ SetHeld(WritePart(HeldFile, holder, got[holder]))
        /\ step' = "stage" /\ UNCHANGED <<pc, holder, spent>>
     \/ /\ HeldFile.len >= PartEnd(holder) /\ Spend("fault")
        /\ SetHeld(WritePart(HeldFile, holder, Foreign))
        /\ Release("failed")
  /\ UNCHANGED <<remote, safe, side, safeSide, kept, phase, start, want, prog, got, timers>>

\* stage_download_part_digest_locked: elapsed is whether 250 ms went by since
\* the last checkpoint.
Stage ==
  /\ step = "stage"
  /\ \E elapsed \in BOOLEAN :
       LET staged == Staged(prog, holder, got[holder], elapsed) IN
       IF CheckpointDue(prog, holder, elapsed)
       THEN /\ prog' = Begun(staged) /\ step' = "sync"
            /\ UNCHANGED <<pc, holder, timers>>
       ELSE /\ prog' = staged
            /\ timers' = timers + (IF ArmsTimer(prog, holder, elapsed) THEN 1 ELSE 0)
            /\ Release("ok")
  /\ UNCHANGED <<remote, diskVars, phase, start, want, got, spent>>

-----------------------------------------------------------------------------
(* Checkpoints                                                             *)

\* arm_download_checkpoint_timer: after its sleep the timer takes the barrier
\* and checkpoints if it is still armed.
TimerFires ==
  /\ timers > 0 /\ holder = Nobody /\ timers' = timers - 1
  /\ IF prog.armed /\ Set(prog.pending) # {}
     THEN holder' = Timer /\ step' = "sync"
     ELSE UNCHANGED <<holder, step>>
  /\ prog' = IF prog.armed THEN Begun(prog) ELSE prog
  /\ UNCHANGED <<remote, diskVars, phase, start, want, pc, got, spent>>

\* A checkpoint that fails: its part fails, a timer only logs it, and the
\* two that end a run go on to release the target.
CheckpointFails ==
  /\ Spend("fault")
  /\ CASE holder = Settler -> step' = "release" /\ UNCHANGED <<holder, pc>>
       [] holder = Finisher -> step' = "abandon" /\ UNCHANGED <<holder, pc>>
       [] OTHER -> Release("failed")

CheckpointDone ==
  CASE holder = Settler -> step' = "release" /\ UNCHANGED <<holder, pc>>
    [] holder = Finisher -> step' = "validate" /\ UNCHANGED <<holder, pc>>
    [] OTHER -> Release("ok")

\* Faulty variant of SyncedFile: the data barrier is left out.
SyncedFileNot == safe

\* sync_data through the open handle; bytes of an unlinked file do not matter.
SyncedFile == IF orphan = NoFile THEN file ELSE safe

Sync ==
  /\ step = "sync"
  /\ \/ safe' = SyncedFile /\ step' = "persist" /\ UNCHANGED <<pc, holder, spent>>
     \/ CheckpointFails /\ UNCHANGED safe
  /\ UNCHANGED <<remote, file, side, safeSide, orphan, kept, phase, start, want, prog, got, timers>>

\* persist_snapshot_atomic up to the rename.
Persist ==
  /\ step = "persist"
  /\ \/ side' = Encode(prog.id, Snapshot(prog)) /\ step' = "publish"
        /\ UNCHANGED <<pc, holder, spent>>
     \/ CheckpointFails /\ UNCHANGED side
  /\ UNCHANGED <<remote, file, safe, safeSide, orphan, kept, phase, start, want, prog, got, timers>>

\* Faulty variant of SyncedSidecar: the rename is not made durable.
SyncedSidecarNot == safeSide

\* sync_parent_directory.
SyncedSidecar == side

\* The sync of the directory, and only then the bits in memory.
Publish ==
  /\ step = "publish"
  /\ \/ /\ safeSide' = SyncedSidecar /\ prog' = Committed(prog)
        /\ kept' = Encode(prog.id, Snapshot(prog))
        /\ CheckpointDone /\ UNCHANGED spent
     \/ CheckpointFails /\ UNCHANGED <<safeSide, prog, kept>>
  /\ UNCHANGED <<remote, file, safe, side, orphan, phase, start, want, got, timers>>

-----------------------------------------------------------------------------
(* The end of a run                                                        *)

\* A pause, a cancel or a close of the group.
Stop ==
  /\ phase = "running" /\ phase' = "draining"
  /\ UNCHANGED <<remote, diskVars, start, want, prog, pc, got, holder, step, timers, spent>>

\* The group takes the barrier for its last checkpoint.
LastCheckpoint(who, next) ==
  /\ InFlight = {} /\ holder = Nobody /\ holder' = who
  /\ prog' = Begun(prog)
  /\ step' = IF Set(prog.pending) # {} THEN "sync" ELSE next
  /\ UNCHANGED <<remote, diskVars, phase, start, want, pc, got, timers, spent>>

\* settle_failed_download_target, once the parts in flight have settled.
Settle == Ending /\ LastCheckpoint(Settler, "release")

\* complete: finalize_download_content.
Finalize ==
  /\ phase = "running" /\ \A i \in Parts : pc[i] = "ok"
  /\ LastCheckpoint(Finisher, "validate")

\* release_download_target_file_lock closes the handle even when sync_all fails.
Close == orphan' = NoFile /\ holder' = Nobody /\ step' = "none"

ReleaseTarget ==
  /\ step \in {"release", "abandon"} /\ Close /\ phase' = "idle"
  /\ safe' \in {SyncedFile, safe}
  /\ UNCHANGED <<remote, file, side, safeSide, kept, start, want, prog, pc, got, timers, spent>>

\* finalize_download_content: what completed is what the path shows now, and
\* a release that fails makes the whole fail.
Validate ==
  /\ step = "validate" /\ Close
  /\ \/ /\ ValidContent(prog, file) /\ AllDone(prog)
        /\ side' \in {NoSidecar, side} /\ kept' = NoSidecar
        /\ \/ safe' = SyncedFile /\ phase' = "done" /\ UNCHANGED spent
           \/ Spend("fault") /\ phase' = "idle" /\ UNCHANGED safe
     \/ /\ ~(ValidContent(prog, file) /\ AllDone(prog))
        /\ phase' = "idle" /\ safe' = SyncedFile /\ UNCHANGED <<side, kept, spent>>
  /\ UNCHANGED <<remote, file, safeSide, start, want, prog, pc, got, timers>>

-----------------------------------------------------------------------------
(* The surroundings                                                        *)

\* The server replaces the object, or restores an earlier one.
Change ==
  /\ Spend("change") /\ remote' \in Gen \ {remote}
  /\ UNCHANGED <<diskVars, runVars, holder, step, timers>>

\* The process dies, perhaps with the machine: what was not synced may or may
\* not be there afterwards.
Crash ==
  /\ Spend("crash")
  /\ \E S \in SUBSET Parts, len \in {file.len, safe.len} :
       file' = SetLen([len |-> Total,
                       body |-> [i \in Parts |-> IF i \in S THEN file.body[i] ELSE safe.body[i]]], len)
  /\ safe' = file'
  /\ side' \in {side, safeSide} /\ safeSide' = side'
  /\ orphan' = NoFile
  /\ phase' = "idle" /\ prog' = Fresh(Unverified)
  /\ pc' = [i \in Parts |-> "todo"] /\ got' = NoParts
  /\ holder' = Nobody /\ step' = "none" /\ timers' = 0
  /\ UNCHANGED <<remote, kept, start, want>>

\* Someone else writes into the target, cuts it or puts another file there.
Tamper ==
  /\ phase # "done" /\ Spend("tamper")
  /\ \/ \E i \in Parts : file.len >= PartEnd(i) /\ file' = [file EXCEPT !.body[i] = Foreign]
        /\ UNCHANGED orphan
     \/ file' = SetLen(file, 0) /\ UNCHANGED orphan
     \/ /\ file' \in {NoFile} \cup ForeignFile
        /\ orphan' = IF phase \in {"running", "draining"} THEN HeldFile ELSE NoFile
  /\ safe' = file'
  /\ UNCHANGED <<remote, side, safeSide, kept, runVars, holder, step, timers>>

HolderStep ==
  Write \/ Stage \/ Sync \/ Persist \/ Publish \/ ReleaseTarget \/ Validate

GroupStep == Head \/ Load \/ LockTarget \/ Dispatch \/ Settle \/ Finalize

PartStep == \E i \in Parts : Respond(i) \/ TakeBarrier(i)

Next ==
  \/ GroupStep \/ PartStep \/ HolderStep \/ TimerFires
  \/ \E i \in Parts : BodyFails(i)
  \/ Stop \/ Change \/ Crash \/ Tamper

Spec == Init /\ [][Next]_vars

\* The server also answers, and the group goes on.
FairSpec == Spec /\ WF_vars(HolderStep) /\ WF_vars(PartStep) /\ WF_vars(GroupStep)

-----------------------------------------------------------------------------
(* Properties                                                              *)

\* Whatever crashed, was retried, replaced or changed before, a download that
\* completes leaves the whole object at its path, all of it of one generation.
CompletesWhole ==
  phase = "done" =>
    /\ file.len = Total
    /\ \E g \in Gen : \A i \in Parts : file.body[i] = g

\* A bit this run has in memory, or a sidecar it publishes or has published, is
\* about bytes that a power loss cannot take.  (A sidecar of an earlier run may
\* be about bytes that a run of another generation has overwritten since: loading
\* it compares the digests.)
DataBeforeBit ==
  spent.tamper = 0 /\ phase \in {"running", "draining"} /\ prog.id # Unverified =>
    /\ \A i \in Set(prog.done) : safe.body[i] = prog.done[i]
    /\ step = "publish" \/ kept.id = prog.id =>
         side.id = prog.id /\ \A i \in Set(side.done) : safe.body[i] = side.done[i]

\* Parts a run skips are of the generation that it is bound to.
TrustedIsCurrent ==
  Etags /\ phase \in {"running", "draining"} => \A i \in Set(prog.done) : prog.done[i] = prog.validator

\* A checkpoint once reported done is found again by the next run of the same
\* generation, whatever crash came between; one without a strong validator is
\* not read back.
KeptSurvives ==
  phase = "loaded" /\ spent.tamper = 0 /\ prog.id = kept.id /\ prog.id # Unverified =>
    \A i \in Set(kept.done) : prog.done[i] = kept.done[i]

\* A run ends, whatever fails on the way.
RunEnds == phase = "headed" ~> phase \in {"idle", "done"}

=============================================================================
