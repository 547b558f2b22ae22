----------------------------- MODULE UploadSource -----------------------------
(***************************************************************************)
(* The source file of an upload (upload_file.rs): hashed once when the     *)
(* task is enqueued, closed, reopened by the first read of a run, read in  *)
(* positioned blocks by concurrent parts, and hashed again before the      *)
(* upload is completed, while other programs write, cut or replace it.     *)
(*                                                                         *)
(* A file is an inode with blocks, a length in blocks and the metadata     *)
(* that FileGeneration compares.  A write normally changes the metadata;   *)
(* with a coarse clock, or restored timestamps, it may not.                *)
(***************************************************************************)
EXTENDS Naturals, FiniteSets

CONSTANTS Workers,     \* blocking tasks that validate and read
          Size,        \* total_size of the task, in blocks
          Inodes, Values,
          Lengths,     \* how long the file may be when it is hashed
          MaxChanges,  \* what other programs do, in all
          MaxHidden,   \* how many of these leave the metadata alone
          MaxRuns,     \* runs of the task
          MaxJobs      \* validations and reads, in all

VARIABLES disk,    \* the inodes
          path,    \* what the path of the task names: an inode, or {} for nothing
          snap,    \* UploadFileSnapshot: body, len and generation of the hash
          open,    \* UploadFileState.file, as a set of at most one inode
          accepted,\* accepted_handle_generation, accepted_path_generation
          lock,    \* who holds the mutex of UploadFileState
          job,     \* what each worker does
          run,     \* the run of the task
          guard,   \* an UploadFileHandleRelease of the last run is still to be dropped
          sent,    \* the value each block had when it was handed to the provider
          seen,    \* history: what the path named since a job began, and held
          ever,    \* history: the contents of the files while the hash was taken
          spent

Constants == Size \in Nat /\ Lengths \subseteq 0..(Size + 1) /\ 0 \notin Values

vars == <<disk, path, snap, open, accepted, lock, job, run, guard, sent, seen, ever, spent>>

Blocks == 1..(Size + 1)
NoGen == <<>>

\* FileGeneration::from_metadata.
Gen(i) == <<i, disk[i].gen>>

Nothing == 0
NoJob == [op |-> "none", pc |-> "idle", scan |-> "none", file |-> {}, own |-> {}, then |-> "handle", gen |-> NoGen, pos |-> 1,
          body |-> [b \in Blocks |-> Nothing], ok |-> TRUE, block |-> 0,
          handle |-> NoGen, visible |-> NoGen, known |-> <<NoGen, NoGen>>]
NoSnap == [ready |-> FALSE, body |-> [b \in Blocks |-> Nothing], len |-> 0, gen |-> NoGen]

Spend(kind, max) == spent[kind] < max /\ spent' = [spent EXCEPT ![kind] = @ + 1]

Init ==
  /\ \E body \in [Inodes -> {f \in [Blocks -> Values] : f[Size + 1] = f[1]}], len \in Lengths :
       disk = [i \in Inodes |-> [body |-> body[i], len |-> len, gen |-> 0]]
  /\ \E i \in Inodes : path = {i}
  /\ ever = {}
  /\ snap = NoSnap /\ open = {} /\ accepted = <<NoGen, NoGen>> /\ lock = {}
  /\ job = [w \in Workers |-> NoJob] /\ run = "none" /\ guard = FALSE
  /\ sent = [b \in Blocks |-> Nothing]
  /\ seen = [w \in Workers |-> [named |-> {}, whole |-> {}, blocks |-> {}]]
  /\ spent = [change |-> 0, hidden |-> 0, run |-> 0, job |-> 0]

Idle == \A w \in Workers : job[w].op = "none"

-----------------------------------------------------------------------------
(* History: which inodes the path named since a job began, which of them   *)
(* held the hashed content as a whole at one moment, and which block of    *)
(* which inode held its hashed value at some moment                        *)

Holds(d, i, b) == b <= d[i].len /\ d[i].body[b] = snap.body[b]
Whole(d, i) == d[i].len = snap.len /\ \A b \in 1..snap.len : Holds(d, i, b)
Look(old, d, p) ==
  [named |-> old.named \cup p,
   whole |-> old.whole \cup {i \in Inodes : Whole(d, i)},
   blocks |-> old.blocks \cup {ib \in Inodes \X Blocks : Holds(d, ib[1], ib[2])}]
Contents(d) == {[b \in 1..d[i].len |-> d[i].body[b]] : i \in Inodes}
Unseen == [named |-> {}, whole |-> {}, blocks |-> {}]

-----------------------------------------------------------------------------
(* Steps of one worker                                                     *)

Set(w, fields) == job' = [job EXCEPT ![w] = fields]
Put(w, pc) == Set(w, [job[w] EXCEPT !.pc = pc])

\* The guard of the mutex is dropped with the job.
Unlocked(w) == lock \ {w}

\* A job that ends in an error: the caller requires the abort of the upload.
Fails(w) ==
  /\ job' = [job EXCEPT ![w] = NoJob]
  /\ lock' = Unlocked(w)
  /\ run' = IF job[w].op = "hash" THEN "refused" ELSE "failed"
  /\ UNCHANGED <<disk, path, snap, open, accepted, sent, seen, ever, spent, guard>>

\* open_and_hash_blocking opens the path; verify_visible_path_content and
\* opened_file_blocking open it again.
Opens(w, kind) ==
  [job[w] EXCEPT !.scan = kind, !.pc = "stat", !.file = path, !.pos = 1, !.ok = TRUE]

File(w) == CHOOSE i \in job[w].file : TRUE

\* The metadata before a scan; all but the first scan know the length.
Stat(w) ==
  /\ job[w].pc = "stat"
  /\ IF job[w].file = {} \/ (job[w].scan # "hash" /\ disk[File(w)].len # snap.len)
     THEN Fails(w)
     ELSE /\ Set(w, [job[w] EXCEPT !.pc = "scan", !.gen = Gen(File(w))])
          /\ snap' = IF job[w].scan = "hash" THEN [NoSnap EXCEPT !.len = disk[File(w)].len] ELSE snap
          /\ UNCHANGED <<disk, path, open, accepted, lock, run, sent, seen, ever, spent, guard>>

\* read_exact_at of the next block; a file that ends early is an error.
Scan(w) ==
  /\ job[w].pc = "scan" /\ job[w].pos <= snap.len
  /\ LET at == job[w].pos
         read == disk[File(w)].body[at]
     IN IF at > disk[File(w)].len THEN Fails(w)
        ELSE /\ Set(w, [job[w] EXCEPT !.pos = at + 1, !.body[at] = read,
                                      !.ok = @ /\ (job[w].scan = "hash" \/ read = snap.body[at])])
             /\ UNCHANGED <<disk, path, snap, open, accepted, lock, run, sent, seen, ever, spent, guard>>

Stable(w) == Gen(File(w)) = job[w].gen

\* ContentIdentity::matches.
Matches(w) == job[w].ok

\* The metadata after a scan, and what the scan was for.
Scanned(w) ==
  /\ job[w].pc = "scan" /\ job[w].pos > snap.len
  /\ IF ~(Stable(w) /\ Matches(w)) THEN Fails(w)
     ELSE /\ CASE job[w].scan = "hash" ->
                    /\ snap' = [snap EXCEPT !.body = job[w].body, !.gen = job[w].gen]
                    /\ Put(w, "again") /\ UNCHANGED <<open, accepted, lock, run>>
               [] job[w].scan = "open" ->
                    /\ open' = job[w].file /\ accepted' = <<job[w].gen, job[w].gen>>
                    /\ lock' = Unlocked(w) /\ UNCHANGED <<snap, run>>
                    /\ Set(w, [job[w] EXCEPT !.pc = job[w].then, !.own = job[w].file])
               [] job[w].scan = "handle" ->
                    /\ accepted' = <<job[w].handle, accepted[2]>>
                    /\ Put(w, "visible") /\ UNCHANGED <<snap, open, lock, run>>
               [] job[w].scan = "visible" /\ job[w].op = "hash" ->
                    /\ snap' = [snap EXCEPT !.ready = TRUE] /\ job' = [job EXCEPT ![w] = NoJob]
                    /\ UNCHANGED <<open, accepted, lock, run>>
               [] OTHER ->
                    /\ accepted' = <<accepted[1], job[w].visible>>
                    /\ Put(w, "valid") /\ UNCHANGED <<snap, open, lock, run>>
          /\ UNCHANGED <<disk, path, sent, seen, ever, spent, guard>>

\* open_and_hash_blocking.
Hash(w) ==
  /\ run = "none" /\ Idle /\ ~snap.ready
  /\ job' = [job EXCEPT ![w] = [Opens(w, "hash") EXCEPT !.op = "hash"]]
  /\ ever' = Contents(disk)
  /\ UNCHANGED <<disk, path, snap, open, accepted, lock, run, sent, seen, spent, guard>>

\* The path is looked at once more; another file there must hold the same.
HashAgain(w) ==
  /\ job[w].pc = "again"
  /\ IF path = {} THEN Fails(w)
     ELSE /\ IF path = {snap.gen[1]} /\ Gen(snap.gen[1]) = snap.gen
             THEN snap' = [snap EXCEPT !.ready = TRUE] /\ job' = [job EXCEPT ![w] = NoJob]
             ELSE Set(w, Opens(w, "visible")) /\ UNCHANGED snap
          /\ UNCHANGED <<disk, path, open, accepted, lock, run, sent, seen, ever, spent, guard>>

\* validate_total_size: only a longer source is refused before prepare.
TotalSizeValid == snap.len <= Size

\* A run of the task: prepare refuses a source that grew, and validates.
StartRun(w) ==
  /\ snap.ready /\ Idle /\ run \in {"none", "paused"} /\ Spend("run", MaxRuns)
  /\ IF TotalSizeValid
     THEN run' = "prepare" /\ Set(w, [NoJob EXCEPT !.op = "prepare", !.pc = "begin"])
     ELSE run' = "failed" /\ UNCHANGED job
  /\ UNCHANGED <<disk, path, snap, open, accepted, lock, sent, seen, ever, guard>>

Prepared(w) ==
  /\ job[w].pc = "valid" /\ job[w].op = "prepare"
  /\ run' = "running" /\ job' = [job EXCEPT ![w] = NoJob]
  /\ UNCHANGED <<disk, path, snap, open, accepted, lock, sent, seen, ever, spent, guard>>

Released == open' = {} /\ accepted' = <<NoGen, NoGen>> /\ lock = {}

\* The scheduler releases the handle when a run settles; the run's own guard
\* is dropped when its task gets to it.
PauseRun ==
  /\ run = "running" /\ Idle /\ ~guard /\ run' = "paused"
  /\ Released /\ guard' = TRUE
  /\ UNCHANGED <<disk, path, snap, lock, job, sent, seen, ever, spent>>

\* UploadFileHandleRelease::drop, perhaps when the next run has begun.
DropGuard ==
  /\ guard /\ guard' = FALSE /\ Released
  /\ UNCHANGED <<disk, path, snap, lock, job, run, sent, seen, ever, spent>>

Missing == {b \in 1..Size : sent[b] = Nothing}

\* A part is read (read_upload_chunk); the upload is completed once every
\* part was sent and no worker is busy.
StartJob(w) ==
  /\ run = "running" /\ job[w].op = "none" /\ Spend("job", MaxJobs)
  /\ \/ \E b \in Missing :
          /\ \A v \in Workers : job[v].block # b
          /\ Set(w, [NoJob EXCEPT !.op = "read", !.pc = "begin", !.block = b])
     \/ Missing = {} /\ Idle /\ Set(w, [NoJob EXCEPT !.op = "final", !.pc = "begin"])
  /\ seen' = [seen EXCEPT ![w] = Look(Unseen, disk, path)]
  /\ UNCHANGED <<disk, path, snap, open, accepted, lock, run, sent, ever, guard>>

MayOpen == lock = {}

\* opened_file_blocking: the first one opens and hashes under the mutex.
Begin(w) ==
  /\ job[w].pc = "begin" /\ MayOpen
  /\ IF open # {} THEN Set(w, [job[w] EXCEPT !.pc = job[w].then, !.own = open]) /\ UNCHANGED lock
     ELSE Set(w, Opens(w, "open")) /\ lock' = lock \cup {w}
  /\ UNCHANGED <<disk, path, snap, open, accepted, run, sent, seen, ever, spent, guard>>

\* validate_generation_blocking: the handle's metadata, then the path's.
StatHandle(w) ==
  /\ job[w].pc = "handle"
  /\ \E i \in job[w].own : Set(w, [job[w] EXCEPT !.pc = "path", !.handle = Gen(i)])
  /\ UNCHANGED <<disk, path, snap, open, accepted, lock, run, sent, seen, ever, spent, guard>>

Verify(w) == job[w].op = "final"

StatPath(w) ==
  /\ job[w].pc = "path"
  /\ IF path = {} THEN Fails(w)
     ELSE /\ \E i \in path :
               LET j == [job[w] EXCEPT !.visible = Gen(i), !.known = accepted] IN
               IF Verify(w) \/ accepted[1] # job[w].handle
               THEN Set(w, [j EXCEPT !.scan = "handle", !.pc = "stat", !.file = job[w].own, !.pos = 1, !.ok = TRUE])
               ELSE Set(w, [j EXCEPT !.pc = "visible"])
          /\ UNCHANGED <<disk, path, snap, open, accepted, lock, run, sent, seen, ever, spent, guard>>

\* Faulty variant of RequiresHash: equal metadata is believed at the end too.
RequiresHashNever(w) ==
  job[w].visible # job[w].handle /\ job[w].known[2] # job[w].visible

\* visible_path_requires_hash.
RequiresHash(w) ==
  Verify(w) \/ (job[w].visible # job[w].handle /\ job[w].known[2] # job[w].visible)

CheckVisible(w) ==
  /\ job[w].pc = "visible"
  /\ IF RequiresHash(w) THEN Set(w, Opens(w, "visible")) /\ UNCHANGED accepted
     ELSE /\ Put(w, "valid")
          /\ accepted' = IF job[w].visible = job[w].handle /\ job[w].known[2] # job[w].visible
                         THEN <<accepted[1], job[w].visible>> ELSE accepted
  /\ UNCHANGED <<disk, path, snap, open, lock, run, sent, seen, ever, spent, guard>>

\* Faulty variant of Verified: a block is not compared with its digest.
VerifiedAny(b, value) == TRUE

Verified(b, value) == value = snap.body[b]

\* read_exact_at: a range past the hashed length is refused, and the handle
\* is asked for again.
ReadBegins(w) ==
  /\ job[w].pc = "valid" /\ job[w].op = "read"
  /\ IF job[w].block > snap.len THEN Fails(w)
     ELSE /\ Set(w, [job[w] EXCEPT !.pc = "begin", !.then = "read"])
          /\ UNCHANGED <<disk, path, snap, open, accepted, lock, run, sent, seen, ever, spent, guard>>

\* read_verified_range_blocking: past the end of the file, or with another
\* digest, the read fails.
Read(w) ==
  /\ job[w].pc = "read"
  /\ \E i \in job[w].own :
       LET block == job[w].block IN
       IF block > disk[i].len \/ ~Verified(block, disk[i].body[block]) THEN Fails(w)
       ELSE /\ sent' = [sent EXCEPT ![block] = disk[i].body[block]]
            /\ job' = [job EXCEPT ![w] = NoJob]
            /\ UNCHANGED <<disk, path, snap, open, accepted, lock, run, seen, ever, spent, guard>>

\* complete_upload follows the last validation.
Complete(w) ==
  /\ job[w].pc = "valid" /\ job[w].op = "final"
  /\ Put(w, "done") /\ run' = "complete"
  /\ UNCHANGED <<disk, path, snap, open, accepted, lock, sent, seen, ever, spent, guard>>

-----------------------------------------------------------------------------
(* Other programs                                                          *)

Noticed(d, p) == seen' = [w \in Workers |-> IF job[w].op \in {"read", "final"} THEN Look(seen[w], d, p)
                                            ELSE seen[w]]

Hashing == \E w \in Workers : job[w].op = "hash"

Change ==
  /\ spent.change < MaxChanges /\ run \notin {"complete", "failed", "refused"}
  /\ \/ \E i \in Inodes, b \in 1..Size, v \in Values, hidden \in {0, 1} :
          /\ b <= disk[i].len /\ disk[i].body[b] # v /\ spent.hidden + hidden <= MaxHidden
          /\ disk' = [disk EXCEPT ![i].body[b] = v, ![i].gen = @ + 1 - hidden]
          /\ spent' = [spent EXCEPT !.change = @ + 1, !.hidden = @ + hidden]
          /\ UNCHANGED path
     \/ \E i \in Inodes, len \in {Size - 1, Size} \cap Nat :
          /\ disk[i].len # len
          /\ disk' = [disk EXCEPT ![i].len = len, ![i].gen = @ + 1]
          /\ spent' = [spent EXCEPT !.change = @ + 1] /\ UNCHANGED path
     \/ \E p \in {{i} : i \in Inodes} \cup {{}} :
          /\ p # path /\ path' = p
          /\ spent' = [spent EXCEPT !.change = @ + 1] /\ UNCHANGED disk
  /\ Noticed(disk', path')
  /\ ever' = IF Hashing THEN ever \cup Contents(disk') ELSE ever
  /\ UNCHANGED <<snap, open, accepted, lock, job, run, sent, guard>>

WorkerStep(w) ==
  \/ Hash(w) \/ HashAgain(w) \/ StartRun(w) \/ Prepared(w) \/ StartJob(w) \/ Begin(w) \/ Stat(w) \/ Scan(w) \/ Scanned(w)
  \/ StatHandle(w) \/ StatPath(w) \/ CheckVisible(w) \/ ReadBegins(w) \/ Read(w) \/ Complete(w)

Next == PauseRun \/ DropGuard \/ Change \/ \E w \in Workers : WorkerStep(w)

Spec == Init /\ [][Next]_vars

\* A blocking task that was started is run to its end.
FairSpec ==
  Spec /\ \A w \in Workers :
            WF_vars(job[w].op # "none" /\ WorkerStep(w))

-----------------------------------------------------------------------------
(* Properties                                                              *)

\* Every block handed to the provider is the block that was hashed for the
\* signature, whatever happened to the file or its metadata since.
SentIsSigned == \A b \in Blocks : sent[b] # Nothing => sent[b] = snap.body[b]

\* A source that is completed was sent to its last hashed block.
SentWhole == run = "complete" => \A b \in 1..snap.len : sent[b] = snap.body[b]

\* At completion the visible file was read again: each block of one file the
\* path named during the validation was seen with its hashed value, even if
\* the metadata never showed a change.
CompletionReadsVisible ==
  run = "complete" =>
    \E w \in Workers : /\ job[w].pc = "done"
                       /\ \E i \in seen[w].named : \A b \in 1..snap.len : <<i, b>> \in seen[w].blocks

\* If writes show in the metadata, that file held the hashed content as a
\* whole at one moment of the validation.
CompletionSawOneGeneration ==
  run = "complete" /\ spent.hidden = 0 =>
    \E w \in Workers : job[w].pc = "done" /\ seen[w].named \cap seen[w].whole # {}

\* If writes show in the metadata, the hash is that of one content the file
\* had: it does not join blocks from before and after a write.
SnapshotIsOneContent ==
  snap.ready /\ spent.hidden = 0 => [b \in 1..snap.len |-> snap.body[b]] \in ever

=============================================================================
